----------------------------- MODULE Pipelines -----------------------------
(***************************************************************************)
(* The runs of a CI/CD pipeline.  A trigger numbers a run, creates its     *)
(* record and starts a thread that executes the steps one after the other, *)
(* saving each change: it reads the record, truncates the file and dumps   *)
(* the merged record.  A client may write to the record or delete it       *)
(* meanwhile.                                                              *)
(***************************************************************************)
EXTENDS Naturals, Sequences, FiniteSets

CONSTANTS
  PipelineRuns,  \* the ids triggers are given
  StepCount,     \* how many steps the pipeline has
  MaxMeddling    \* bound on clients' requests and restarts

ASSUME PipelineAssumption ==
  IsFiniteSet(PipelineRuns) /\ StepCount \in Nat \ {0} /\ MaxMeddling \in Nat

VARIABLES
  runFile,    \* [PipelineRuns -> the record, GoneRun, or TornRun]
  engine,     \* [PipelineRuns -> what the run's trigger or thread is doing]
  editor,     \* a client's request that writes to a record
  meddling,   \* how many requests and restarts there were
  deleted,    \* the runs a client was told are deleted (history)
  rewritten,  \* the runs whose steps or number a client wrote (history)
  crossed,    \* a client or a restart came between a run's steps (history)
  miscounted  \* a run and one its trigger could not see (history)

pipelineVars == <<runFile, engine, editor, meddling, deleted, rewritten,
                  crossed, miscounted>>

Final == {"SUCCESS", "FAILED"}
StepStatus == {"PENDING", "RUNNING", "SKIPPED"} \cup Final
RunStatus == {"QUEUED", "RUNNING", "CANCELED"} \cup Final
Steps == [1..StepCount -> StepStatus]
RunRecord == [status : RunStatus, number : 1..Cardinality(PipelineRuns),
              steps : Steps]
GoneRun == [none |-> "gone"]
TornRun == [none |-> "torn"]
Readable == {r \in PipelineRuns : runFile[r] \notin {GoneRun, TornRun}}

(* Saving is the read, truncate, write of update_pipeline_run; "unlinked"  *)
(* is a write to a file deleted since its truncation.                      *)
Saving == {"no", "read", "truncate", "write", "unlinked"}
Phases == {"untriggered", "numbered", "load", "begin", "step", "execute",
           "result", "skip", "final", "raised", "over"}
AllPending == [i \in 1..StepCount |-> "PENDING"]
NoRecord == [status |-> "QUEUED", number |-> 1, steps |-> AllPending]
Thread == [phase : Phases, saving : Saving, i : 1..StepCount, steps : Steps,
           record : RunRecord]
NoEdit == [saving |-> "no"]
Edit == [saving : Saving \ {"no"}, run : PipelineRuns, record : RunRecord]

PipelineTypeOK ==
  /\ runFile \in [PipelineRuns -> RunRecord \cup {GoneRun, TornRun}]
  /\ engine \in [PipelineRuns -> Thread]
  /\ editor \in Edit \cup {NoEdit}
  /\ meddling \in 0..MaxMeddling
  /\ {deleted, rewritten} \subseteq SUBSET PipelineRuns
  /\ crossed \in BOOLEAN
  /\ miscounted \subseteq PipelineRuns \X PipelineRuns

Untriggered ==
  [phase |-> "untriggered", saving |-> "no", i |-> 1, steps |-> AllPending,
   record |-> NoRecord]

PipelineInit ==
  /\ runFile = [r \in PipelineRuns |-> GoneRun]
  /\ engine = [r \in PipelineRuns |-> Untriggered]
  /\ editor = NoEdit
  /\ meddling = 0
  /\ deleted = {}
  /\ rewritten = {}
  /\ crossed = FALSE
  /\ miscounted = {}

outside == <<editor, meddling, deleted, rewritten>>
Phase(r, phase) == engine[r].phase = phase /\ engine[r].saving = "no"

-----------------------------------------------------------------------------
(* The number is one more than the highest of the records that can be read.*)
Highest == IF Readable = {} THEN 0
           ELSE CHOOSE n \in {runFile[r].number : r \in Readable} :
                  \A r \in Readable : runFile[r].number <= n
(* Mutant: the number is the highest one.                                  *)
NumberRunHighest(r) ==
  /\ Phase(r, "untriggered")
  /\ engine' = [engine EXCEPT ![r].phase = "numbered",
                              ![r].record.number =
                                IF @ < Highest THEN Highest ELSE @]
  /\ UNCHANGED <<runFile, outside>>
NumberRun(r) ==
  /\ Phase(r, "untriggered")
  /\ engine' = [engine EXCEPT ![r].phase = "numbered",
                              ![r].record.number = Highest + 1]
  /\ UNCHANGED <<runFile, outside>>
CreateRun(r) ==
  /\ Phase(r, "numbered")
  /\ runFile' = [runFile EXCEPT ![r] = engine[r].record]
  /\ engine' = [engine EXCEPT ![r].phase = "load", ![r].record = NoRecord]
  /\ UNCHANGED outside

(* The thread works on the steps it finds in the record.  A record it      *)
(* cannot read at first is the end of it.                                  *)
LoadRun(r) ==
  /\ Phase(r, "load")
  /\ engine' = IF r \in Readable
               THEN [engine EXCEPT ![r].phase = "begin", ![r].saving = "read",
                                   ![r].steps = runFile[r].steps]
               ELSE [engine EXCEPT ![r].phase = "over"]
  /\ UNCHANGED <<runFile, outside>>

(* A step succeeds or fails, or raises an exception: its log cannot be     *)
(* opened, or its configuration is not one.                                *)
ExecuteStep(r) ==
  /\ Phase(r, "execute")
  /\ \E status \in Final :
       engine' = [engine EXCEPT ![r].phase = "result", ![r].saving = "read",
                                ![r].steps[engine[r].i] = status]
  /\ UNCHANGED <<runFile, outside>>
(* Mutant: the thread ends with the exception.                             *)
StepRaisesUnsaved(r) ==
  /\ Phase(r, "execute")
  /\ engine' = [engine EXCEPT ![r].phase = "over"]
  /\ UNCHANGED <<runFile, outside>>
(* Then the thread saves that the run has failed, and no step.             *)
StepRaises(r) ==
  /\ Phase(r, "execute")
  /\ engine' = [engine EXCEPT ![r].phase = "raised", ![r].saving = "read"]
  /\ UNCHANGED <<runFile, outside>>

SkipRest(r) ==
  [j \in 1..StepCount |->
     IF j > engine[r].i THEN "SKIPPED" ELSE engine[r].steps[j]]

(* What the thread does when a change is saved, or could not be.           *)
PhaseNext(r, phase, i, steps) ==
  [engine[r] EXCEPT
     !.phase = phase, !.i = i, !.steps = steps, !.record = NoRecord,
     !.saving = IF phase \in {"execute", "over"} THEN "no" ELSE "read"]
(* Mutant: a failed step is followed by the next one.                      *)
SavedGoingOn(r) ==
  LET t == engine[r] IN
  CASE t.phase = "begin" ->
         PhaseNext(r, "step", 1, [t.steps EXCEPT ![1] = "RUNNING"])
    [] t.phase = "step" -> PhaseNext(r, "execute", t.i, t.steps)
    [] t.phase = "result" /\ t.i < StepCount ->
         PhaseNext(r, "step", t.i + 1, [t.steps EXCEPT ![t.i + 1] = "RUNNING"])
    [] t.phase \in {"final", "raised"} -> PhaseNext(r, "over", t.i, t.steps)
    [] OTHER -> PhaseNext(r, "final", t.i, t.steps)
Saved(r) ==
  LET t == engine[r] IN
  CASE t.phase = "begin" ->
         PhaseNext(r, "step", 1, [t.steps EXCEPT ![1] = "RUNNING"])
    [] t.phase = "step" -> PhaseNext(r, "execute", t.i, t.steps)
    [] t.phase = "result" /\ t.steps[t.i] = "FAILED" ->
         PhaseNext(r, "skip", t.i, SkipRest(r))
    [] t.phase = "result" /\ t.steps[t.i] # "FAILED" /\ t.i < StepCount ->
         PhaseNext(r, "step", t.i + 1, [t.steps EXCEPT ![t.i + 1] = "RUNNING"])
    [] t.phase \in {"final", "raised"} -> PhaseNext(r, "over", t.i, t.steps)
    [] OTHER -> PhaseNext(r, "final", t.i, t.steps)

(* The change a phase makes to the record.                                 *)
Outcome(r) ==
  IF engine[r].steps[engine[r].i] = "SUCCESS" THEN "SUCCESS" ELSE "FAILED"
Changed(r, record) ==
  CASE engine[r].phase = "begin" -> [record EXCEPT !.status = "RUNNING"]
    [] engine[r].phase = "final" -> [record EXCEPT !.status = Outcome(r)]
    [] engine[r].phase = "raised" -> [record EXCEPT !.status = "FAILED"]
    [] OTHER -> [record EXCEPT !.steps = engine[r].steps]

(* update_pipeline_run.  A record that is gone or cannot be read stays as  *)
(* it is, and the caller does not ask.                                     *)
(* Mutant: a record that is gone is written anew.                          *)
ReadRecordOrNew(r) ==
  /\ engine[r].saving = "read"
  /\ engine' = [engine EXCEPT ![r] =
       IF r \in Readable
       THEN [@ EXCEPT !.saving = "truncate", !.record = Changed(r, runFile[r])]
       ELSE [@ EXCEPT !.saving = "truncate", !.record = Changed(r, NoRecord)]]
  /\ UNCHANGED <<runFile, outside>>
ReadRecord(r) ==
  /\ engine[r].saving = "read"
  /\ engine' = [engine EXCEPT ![r] =
       IF r \in Readable
       THEN [@ EXCEPT !.saving = "truncate", !.record = Changed(r, runFile[r])]
       ELSE Saved(r)]
  /\ UNCHANGED <<runFile, outside>>
TruncateRecord(r) ==
  /\ engine[r].saving = "truncate"
  /\ runFile' = [runFile EXCEPT ![r] = TornRun]
  /\ engine' = [engine EXCEPT ![r].saving = "write"]
  /\ UNCHANGED outside
WriteRecord(r) ==
  /\ engine[r].saving \in {"write", "unlinked"}
  /\ runFile' = IF engine[r].saving = "unlinked" THEN runFile
                ELSE [runFile EXCEPT ![r] = engine[r].record]
  /\ engine' = [engine EXCEPT ![r] = Saved(r)]
  /\ UNCHANGED outside

-----------------------------------------------------------------------------
(* A client's PUT goes the same way, with whatever it likes in any field:  *)
(* a status that the thread never writes, the steps as if all had          *)
(* succeeded, or a number that is taken already.                           *)
Meddle == meddling < MaxMeddling /\ meddling' = meddling + 1
WithStatus(record) == [record EXCEPT !.status = "CANCELED"]
Restated(record) ==
  ({[record EXCEPT !.steps = [i \in 1..StepCount |-> "SUCCESS"]]} \cup
   {[record EXCEPT !.number = n] : n \in 1..Highest}) \ {record}
PutRun(r) ==
  /\ editor = NoEdit
  /\ r \in Readable
  /\ Meddle
  /\ \E record \in {WithStatus(runFile[r])} \cup Restated(runFile[r]) :
       /\ editor' = [saving |-> "truncate", run |-> r, record |-> record]
       /\ rewritten' = IF record \in Restated(runFile[r])
                       THEN rewritten \cup {r} ELSE rewritten
  /\ UNCHANGED <<runFile, engine, deleted>>
PutTruncates ==
  /\ editor.saving = "truncate"
  /\ runFile' = [runFile EXCEPT ![editor.run] = TornRun]
  /\ editor' = [editor EXCEPT !.saving = "write"]
  /\ UNCHANGED <<engine, meddling, deleted, rewritten>>
PutWrites ==
  /\ editor.saving \in {"write", "unlinked"}
  /\ runFile' = IF editor.saving = "unlinked" THEN runFile
                ELSE [runFile EXCEPT ![editor.run] = editor.record]
  /\ editor' = NoEdit
  /\ UNCHANGED <<engine, meddling, deleted, rewritten>>

(* The run goes on when its record is deleted.                             *)
Unlinked(saving) == IF saving = "write" THEN "unlinked" ELSE saving
DeleteRun(r) ==
  /\ runFile[r] # GoneRun
  /\ Meddle
  /\ runFile' = [runFile EXCEPT ![r] = GoneRun]
  /\ engine' = [engine EXCEPT ![r].saving = Unlinked(@)]
  /\ editor' = IF editor # NoEdit /\ editor.run = r
               THEN [editor EXCEPT !.saving = Unlinked(@)] ELSE editor
  /\ deleted' = deleted \cup {r}
  /\ UNCHANGED rewritten

(* A restart ends every thread; nothing looks for the runs they leave.     *)
PipelineRestart ==
  /\ Meddle
  /\ engine' = [r \in PipelineRuns |->
       IF engine[r].phase = "untriggered" THEN engine[r]
       ELSE [Untriggered EXCEPT !.phase = "over"]]
  /\ editor' = NoEdit
  /\ UNCHANGED <<runFile, deleted, rewritten>>

-----------------------------------------------------------------------------
(* A run is crossed by a client that has read its record and not written   *)
(* it when the thread reads it, or is between read and write, or has not   *)
(* begun, or is over; by a deletion after a read; and by a restart.  The   *)
(* model ends there.                                                       *)
Unfinished ==
  \E r \in PipelineRuns : engine[r].phase \notin {"untriggered", "over"}
EditorAt(r) == editor # NoEdit /\ editor.run = r
Meeting(r) ==
  EditorAt(r) /\ \/ engine[r].saving \in {"truncate", "write", "unlinked"}
                 \/ engine[r].phase \in {"load", "over"}
Reviving(r) ==
  engine[r].saving = "truncate" \/ (EditorAt(r) /\ editor.saving = "truncate")
Reading(r) == engine[r].saving = "read" /\ engine'[r] # engine[r]
Crossing ==
  \E r \in PipelineRuns :
    \/ Meeting(r)'
    \/ EditorAt(r) /\ Reading(r)
    \/ r \in deleted' \ deleted /\ Reviving(r)
Unseen(r) ==
  {q \in PipelineRuns \ {r} : Phase(q, "numbered") \/ runFile[q] = TornRun}
Noting ==
  /\ ~crossed
  /\ crossed' = Crossing
  /\ miscounted' = miscounted \cup
       {pair \in PipelineRuns \X PipelineRuns :
          /\ pair[2] \in Unseen(pair[1])
          /\ Phase(pair[1], "untriggered") /\ Phase(pair[1], "numbered")'}

CommandEnds(r) == ExecuteStep(r) \/ StepRaises(r)
ThreadGoesOn(r) ==
  \/ CreateRun(r) \/ LoadRun(r)
  \/ ReadRecord(r) \/ TruncateRecord(r) \/ WriteRecord(r)
EngineStep(r) == NumberRun(r) \/ CommandEnds(r) \/ ThreadGoesOn(r)
ClientStep ==
  \/ \E r \in PipelineRuns : PutRun(r) \/ DeleteRun(r)
  \/ PutTruncates \/ PutWrites
PipelineNext ==
  \/ ((\E r \in PipelineRuns : EngineStep(r)) \/ ClientStep) /\ Noting
  \/ /\ PipelineRestart
     /\ crossed' = (crossed \/ Unfinished)
     /\ UNCHANGED miscounted

PipelineSpec == PipelineInit /\ [][PipelineNext]_pipelineVars
(* Threads run on.  A command may not end: nothing limits its time.        *)
PipelineFairness ==
  \A r \in PipelineRuns : WF_pipelineVars(ThreadGoesOn(r) /\ Noting)

-----------------------------------------------------------------------------
(* The record tells what the run did, whatever status a client wrote       *)
(* between two savings: a step begins when all before it have succeeded,   *)
(* and at the end either every step has; or one has failed, and the rest   *)
(* were skipped; or the thread gave up in one, and the rest are untouched. *)
Stopped(steps, at, rest) ==
  \E i \in 1..StepCount :
    steps[i] = at /\ \A j \in i + 1..StepCount : steps[j] = rest
RecordTellsRun ==
  ~crossed => \A r \in Readable \ rewritten :
    LET steps == runFile[r].steps IN
    /\ \A i, j \in 1..StepCount :
         i < j /\ steps[j] \notin {"PENDING", "SKIPPED"}
           => steps[i] = "SUCCESS"
    /\ engine[r].phase = "over" =>
         \/ /\ runFile[r].status = "SUCCESS"
            /\ \A i \in 1..StepCount : steps[i] = "SUCCESS"
         \/ /\ runFile[r].status = "FAILED"
            /\ \/ Stopped(steps, "FAILED", "SKIPPED")
               \/ Stopped(steps, "RUNNING", "PENDING")

(* A deleted run does not come back when its thread goes on.               *)
DeletedStaysDeleted ==
  ~crossed => \A r \in deleted : runFile[r] = GoneRun

(* Two runs have one number only when a client has written it, or when one *)
(* of them was numbered while the other could not be seen: its trigger had *)
(* not created it, or somebody was saving it.  No third run, torn, deleted *)
(* or being numbered, and no number a client gave it, makes them collide.  *)
NumbersDistinct ==
  ~crossed => \A r, q \in Readable \ rewritten :
    runFile[r].number = runFile[q].number
      => r = q \/ <<r, q>> \in miscounted \/ <<q, r>> \in miscounted

(* A run that was created ends with a final status, even if its thread     *)
(* stumbles over a step, or else waits for one command for ever.           *)
RunEnds ==
  \A r \in PipelineRuns :
    engine[r].phase = "load" ~>
      \/ crossed \/ runFile[r] = GoneRun
      \/ /\ engine[r].phase = "over"
         /\ r \in Readable /\ runFile[r].status \in Final
      \/ [](engine[r].phase = "execute")
=============================================================================
