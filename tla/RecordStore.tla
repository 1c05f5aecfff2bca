---------------------------- MODULE RecordStore ----------------------------
(***************************************************************************)
(* One execution's record file, at the grain of the system calls its       *)
(* handlers make.  Some handlers read, check and rewrite the file under    *)
(* flock (claim, cancel, stop, recovery); the others never take the lock   *)
(* (PATCH, finish, the self-heal's prune, create, delete).  All of them    *)
(* rewrite it in place: truncate, then dump, with an unreadable file in    *)
(* between.                                                                *)
(*                                                                         *)
(* Dispatch takes each handler as one step; this module is about what the  *)
(* steps inside a handler do to each other.                                *)
(***************************************************************************)
EXTENDS ExecutionStatus, Integers, FiniteSets

CONSTANTS
  Requests,   \* calls to the server, each made once
  Kind,       \* Kind[q]: what q asks for
  Worker,     \* Worker[q]: the worker behind a claim, a finish or a heal
  Workers,
  NoWorker,
  Bodies,     \* the records a PATCH may make of the one it has read
  Crashes     \* may the server process die?

Locking == {"claim", "cancel", "stop", "recover"}
Kinds == Locking \cup {"create", "finish", "patch", "heal", "delete"}
Of(kind) == {q \in Requests : Kind[q] = kind}

ASSUME RequestsAssumption ==
  /\ IsFiniteSet(Requests)
  /\ Kind \in [Requests -> Kinds]
  /\ \A p, q \in Of("create") : p = q
ASSUME WorkersAssumption ==
  /\ NoWorker \notin Workers
  /\ Worker \in [Requests -> Workers \cup {NoWorker}]
  /\ \A q \in Requests : Kind[q] \in {"claim", "finish", "heal"} => Worker[q] \in Workers
ASSUME CrashesAssumption == Crashes \in BOOLEAN

Doc == [status : Statuses, owner : Workers \cup {NoWorker}]
ASSUME BodiesAssumption == Bodies \subseteq Doc
Torn == [status |-> "unreadable", owner |-> NoWorker]
NoDoc == [status |-> "NONE", owner |-> NoWorker]

(* An unlinked file lives on for whoever has it open, and the next open    *)
(* for writing makes another: one inode more per delete.                   *)
Inodes == 1 .. 1 + Cardinality(Of("delete"))

VARIABLES
  inode,      \* what the path names, 0 when nothing
  contents,   \* contents[i]: what a read of inode i would parse
  pc, fd,     \* each request's next step and open file
  doc,        \* the record it has read
  reply,      \* "ok", "refused" (4xx, or nothing to do), "error" (500)
  saved       \* the last complete record at the path (history)

vars == <<inode, contents, pc, fd, doc, reply, saved>>

Steps == {"start", "lock", "again", "reopen", "truncate", "write", "release", "done"}
Replies == {"none", "ok", "refused", "error"}

TypeOK ==
  /\ inode \in Inodes \cup {0}
  /\ contents \in [Inodes -> Doc \cup {Torn}]
  /\ pc \in [Requests -> Steps]
  /\ fd \in [Requests -> Inodes \cup {0}]
  /\ doc \in [Requests -> Doc \cup {NoDoc}]
  /\ reply \in [Requests -> Replies]
  /\ saved \in Doc \cup {NoDoc}

Init ==
  /\ inode = 0
  /\ contents = [i \in Inodes |-> Torn]
  /\ pc = [q \in Requests |-> "start"]
  /\ fd = [q \in Requests |-> 0]
  /\ doc = [q \in Requests |-> NoDoc]
  /\ reply = [q \in Requests |-> "none"]
  /\ saved = NoDoc

-----------------------------------------------------------------------------
Goto(q, step) == pc' = [pc EXCEPT ![q] = step]
Reply(q, answer) == Goto(q, "done") /\ reply' = [reply EXCEPT ![q] = answer]

(* A request ends without having touched the file.                         *)
Answer(q, answer) ==
  /\ Reply(q, answer)
  /\ UNCHANGED <<inode, contents, fd, doc, saved>>

Missing == inode = 0
Unreadable == contents[inode] = Torn

(* The file is open for writing: empty, and complete again at the write.   *)
Empty(q, i) ==
  /\ fd' = [fd EXCEPT ![q] = i]
  /\ contents' = [contents EXCEPT ![i] = Torn]
  /\ Goto(q, "write")

(* Mutant: recovery stores its reason as the status.                       *)
RecoveredTimeout(status) == "TIMEOUT"
Recovered(status) == IF status = "RUNNING" THEN "FAILED" ELSE "CANCELED"

(* What q makes of the record it has read; a finish or a PATCH holds what  *)
(* it will write.                                                          *)
Rewritten(q) ==
  CASE Kind[q] = "create" -> [status |-> "QUEUED", owner |-> NoWorker]
    [] Kind[q] = "claim" -> [status |-> "RUNNING", owner |-> Worker[q]]
    [] Kind[q] = "cancel" -> [doc[q] EXCEPT !.status = "CANCELED"]
    [] Kind[q] = "stop" -> [doc[q] EXCEPT !.status = "CANCELING"]
    [] Kind[q] = "heal" -> [doc[q] EXCEPT !.status = "FAILED"]
    [] Kind[q] = "recover" -> [doc[q] EXCEPT !.status = Recovered(@)]
    [] Kind[q] \in {"finish", "patch"} -> doc[q]

(* Mutant: whatever has not ended may be moved.                            *)
AcceptsUnfinished(q, d) == d.status \notin FINAL_STATUSES

(* A locking handler goes on only with a record it may move.               *)
Accepts(q, d) ==
  CASE Kind[q] \in {"claim", "cancel"} -> d.status = "QUEUED"
    [] Kind[q] = "stop" -> d.status = "RUNNING"
    [] Kind[q] = "recover" -> d.status \in {"RUNNING", "CANCELING"}

-----------------------------------------------------------------------------
Create(q) ==
  /\ Kind[q] = "create" /\ pc[q] = "start"
  /\ inode' = 1
  /\ Empty(q, 1)
  /\ UNCHANGED <<doc, reply, saved>>

(* claim, cancel, stop, recover: exists(), open(r+).                       *)
Open(q) ==
  /\ Kind[q] \in Locking /\ pc[q] = "start"
  /\ IF Missing
     THEN Answer(q, "refused")
     ELSE /\ fd' = [fd EXCEPT ![q] = inode]
          /\ Goto(q, "lock")
          /\ UNCHANGED <<inode, contents, doc, reply, saved>>

(* flock excludes only those who ask for it, on the same inode.            *)
Holds(q) == Kind[q] \in Locking /\ pc[q] \in {"truncate", "write", "release"}

(* Mutant: the lock call fails silently.                                   *)
LockFreeAlways(i) == TRUE
LockFree(i) == \A q \in Requests : ~(Holds(q) /\ fd[q] = i)

LockAndRead(q) ==
  /\ pc[q] = "lock"
  /\ LockFree(fd[q])
  /\ LET d == contents[fd[q]] IN
       IF d = Torn THEN Answer(q, "error")
       ELSE IF ~Accepts(q, d) THEN Answer(q, "refused")
       ELSE /\ doc' = [doc EXCEPT ![q] = d]
            /\ Goto(q, "truncate")
            /\ UNCHANGED <<inode, contents, fd, reply, saved>>

(* Recovery asks with LOCK_NB and leaves a locked record for its next pass.*)
SkipLocked(q) ==
  /\ Kind[q] = "recover" /\ pc[q] = "lock"
  /\ ~LockFree(fd[q])
  /\ Answer(q, "refused")

Truncate(q) ==
  /\ pc[q] = "truncate"
  /\ Empty(q, fd[q])
  /\ UNCHANGED <<inode, doc, reply, saved>>

(* Two dumps into one file overlay each other: what the later one leaves   *)
(* parses as its own record only if nothing longer was there before it.    *)
Write(q, overlaid) ==
  /\ pc[q] = "write"
  /\ overlaid => contents[fd[q]] # Torn
  /\ contents' = [contents EXCEPT ![fd[q]] = IF overlaid THEN Torn ELSE Rewritten(q)]
  /\ saved' = IF fd[q] = inode /\ ~overlaid THEN Rewritten(q) ELSE saved
  /\ Goto(q, "release")
  /\ UNCHANGED <<inode, fd, doc, reply>>

(* The lock goes with the file; the reply follows.  A claim's carries the  *)
(* run to its worker.                                                      *)
Release(q) ==
  /\ pc[q] = "release"
  /\ Reply(q, "ok")
  /\ UNCHANGED <<inode, contents, fd, doc, saved>>

-----------------------------------------------------------------------------
(* api_worker_execution_finish, by a worker that was given the run: a look *)
(* at the record, then update_execution_record, which looks again.         *)
Given(w) == \E c \in Of("claim") : Worker[c] = w /\ reply[c] = "ok"

FinishLookup(q) ==
  /\ Kind[q] = "finish" /\ pc[q] = "start"
  /\ Given(Worker[q])
  /\ IF Missing \/ Unreadable \/ contents[inode].owner \notin {Worker[q], NoWorker}
     THEN Answer(q, "refused")
     ELSE /\ Goto(q, "again")
          /\ UNCHANGED <<inode, contents, fd, doc, reply, saved>>

(* update_execution_record reads the record and merges what it is given:   *)
(* a finish's outcome, or the body of PATCH /api/executions/<id>, which    *)
(* may leave the status as it was read.  A missing file makes it return    *)
(* False, which the finish handler ignores; an unreadable one raises, as   *)
(* an illegal transition does.                                             *)
Update(q, new) ==
  IF Unreadable \/ ~ValidTransition(contents[inode].status, new.status)
  THEN Answer(q, "error")
  ELSE /\ doc' = [doc EXCEPT ![q] = new]
       /\ Goto(q, "reopen")
       /\ UNCHANGED <<inode, contents, fd, reply, saved>>

FinishRead(q, outcome) ==
  /\ Kind[q] = "finish" /\ pc[q] = "again"
  /\ IF Missing THEN Answer(q, "ok")
                ELSE Update(q, [contents[inode] EXCEPT !.status = outcome])

PatchRead(q, new) ==
  /\ Kind[q] = "patch" /\ pc[q] = "start"
  /\ IF Missing THEN Answer(q, "error") ELSE Update(q, new)

(* open(w) truncates whatever is there by now, or makes the file again.    *)
Reopen(q) ==
  /\ pc[q] = "reopen"
  /\ \E i \in Inodes :
       /\ IF Missing THEN i = 1 + Cardinality({p \in Of("delete") : reply[p] = "ok"})
                     ELSE i = inode
       /\ inode' = i
       /\ Empty(q, i)
  /\ UNCHANGED <<doc, reply, saved>>

(* The prune reads the record, closes it, opens and reads it again, and    *)
(* rewrites it without a lock.                                             *)
Orphaned(q) ==
  /\ ~Missing
  /\ contents[inode].status = "RUNNING"
  /\ contents[inode].owner \in {Worker[q], NoWorker}

HealLook(q) ==
  /\ Kind[q] = "heal" /\ pc[q] = "start"
  /\ IF Orphaned(q)
     THEN Goto(q, "again") /\ UNCHANGED <<inode, contents, fd, doc, reply, saved>>
     ELSE Answer(q, "refused")

HealRead(q) ==
  /\ Kind[q] = "heal" /\ pc[q] = "again"
  /\ IF Missing \/ contents[inode].status # "RUNNING"
     THEN Answer(q, "refused")
     ELSE /\ fd' = [fd EXCEPT ![q] = inode]
          /\ doc' = [doc EXCEPT ![q] = contents[inode]]
          /\ Goto(q, "truncate")
          /\ UNCHANGED <<inode, contents, reply, saved>>

Delete(q) ==
  /\ Kind[q] = "delete" /\ pc[q] = "start"
  /\ ~Missing
  /\ inode' = 0
  /\ Reply(q, "ok")
  /\ UNCHANGED <<contents, fd, doc, saved>>

(* The process dies with the requests it was serving.                      *)
Crash ==
  /\ Crashes
  /\ \E q \in Requests : pc[q] \notin {"start", "done"}
  /\ pc' = [q \in Requests |-> IF pc[q] = "start" THEN "start" ELSE "done"]
  /\ UNCHANGED <<inode, contents, fd, doc, reply, saved>>

(* Every request that can be made has been answered.                       *)
AllAnswered ==
  /\ \A q \in Requests :
       \/ pc[q] = "done"
       \/ Kind[q] = "finish" /\ pc[q] = "start" /\ ~Given(Worker[q])
       \/ Kind[q] = "delete" /\ Missing
  /\ UNCHANGED vars

Next ==
  \/ \E q \in Requests :
       \/ Create(q)
       \/ Open(q) \/ LockAndRead(q) \/ SkipLocked(q)
       \/ Truncate(q) \/ Release(q)
       \/ \E overlaid \in BOOLEAN : Write(q, overlaid)
       \/ FinishLookup(q) \/ Reopen(q)
       \/ \E outcome \in FINAL_STATUSES : FinishRead(q, outcome)
       \/ \E new \in Bodies : PatchRead(q, new)
       \/ HealLook(q) \/ HealRead(q)
       \/ Delete(q)
  \/ Crash
  \/ AllAnswered

Spec == Init /\ [][Next]_vars

-----------------------------------------------------------------------------
Claimed == {c \in Of("claim") : reply[c] = "ok"}
Canceled == {c \in Of("cancel") : reply[c] = "ok"}

(* The PATCHes that read the record and will write, or have written, it    *)
(* back as queued.                                                         *)
Requeued == {p \in Of("patch") : doc[p].status = "QUEUED"}

(* The lock decides once what becomes of a queued record: it is given to   *)
(* one worker, or its cancellation is confirmed.  Neither the other        *)
(* unlocked handlers nor a crash offer it again; each PATCH that read it   *)
(* while it was queued may, once, and it is then given or canceled anew.   *)
(* (A PATCH to CANCELED is no cancellation in this sense: no lock orders   *)
(* it before or after a claim.)                                            *)
DecidedOnce == Cardinality(Claimed \cup Canceled) <= 1 + Cardinality(Requeued)

(* No writer at work, no unreadable record.                                *)
QuietReadable ==
  (\A q \in Requests : pc[q] # "write") /\ ~Missing => ~Unreadable

(* A concluded record keeps its conclusion.                                *)
FinalIsFinal ==
  [][saved.status \in FINAL_STATUSES => saved'.status = saved.status]_vars

(* Where every writer takes the lock, the file goes through the abstract   *)
(* lifecycle, one complete record after another, and a worker is given the *)
(* run only under its own assignment.                                      *)
Lifecycle == INSTANCE RunLifecycle WITH
  Runs <- {1},
  phase <- [r \in {1} |-> IF Missing /\ saved # NoDoc THEN "GONE" ELSE saved.status],
  runner <- [r \in {1} |-> saved.owner],
  launches <- [r \in {1} |-> [w \in Workers |->
                 Cardinality({c \in Claimed : Worker[c] = w})]]
ImplementsLifecycle == Lifecycle!Spec
=============================================================================
