--------------------------- MODULE Pipelines_proofs ---------------------------
(***************************************************************************)
(* Theorems about Pipelines, for any finite set of runs, any number of     *)
(* steps of a pipeline and of clients' requests: a record tells of its     *)
(* run, a deleted one does not come back, and two runs have two numbers.   *)
(***************************************************************************)
EXTENDS Pipelines, FiniteSetTheorems, WellFoundedInduction, TLAPS

(* A set of numbers that is bounded has a greatest one.                    *)
LEMMA GreatestNumber ==
  ASSUME NEW S \in SUBSET Nat, S # {}, NEW b \in Nat, \A x \in S : x <= b
  PROVE  \E n \in S : \A x \in S : x <= n
<1> DEFINE U == {n \in Nat : \A x \in S : x <= n}
<1>1. U \subseteq Nat /\ U # {}
  OBVIOUS
<1>2. IsWellFoundedOn(OpToRel(<, Nat), Nat)
  BY NatLessThanWellFounded
<1>3. PICK m \in U : \A y \in U : <<y, m>> \notin OpToRel(<, Nat)
  <2> HIDE DEF U
  <2> QED BY <1>1, <1>2, WFMin
<1>4. \A y \in U : ~(y < m)
  BY <1>3 DEF OpToRel
<1>5. m \in S
  <2> SUFFICES ASSUME m \notin S PROVE FALSE
    OBVIOUS
  <2>1. PICK x \in S : TRUE
    OBVIOUS
  <2>2. m > 0 /\ \A y \in S : y <= m - 1
    BY <2>1
  <2>3. m - 1 \in U
    BY <2>2
  <2> QED
    BY <1>4, <2>3
<1> QED
  BY <1>5

(* The number of runs is a natural, and not zero when there is a run.      *)
LEMMA RunCount ==
  /\ Cardinality(PipelineRuns) \in Nat
  /\ \A r \in PipelineRuns : 1 \in 1..Cardinality(PipelineRuns)
<1>1. Cardinality(PipelineRuns) \in Nat
  BY PipelineAssumption, FS_CardinalityType
<1>2. Cardinality(PipelineRuns) = 0 <=> PipelineRuns = {}
  BY PipelineAssumption, FS_EmptySet
<1> QED
  BY <1>1, <1>2

(* A file that is gone, or torn, is not a record; no request is no edit.   *)
LEMMA NoSuchRecord ==
  /\ GoneRun \notin RunRecord /\ TornRun \notin RunRecord
  /\ GoneRun # TornRun /\ NoEdit \notin Edit
<1>1. NoEdit \notin Edit
  BY DEF NoEdit, Edit
<1>2. GoneRun # TornRun
  BY DEF GoneRun, TornRun
<1>3. GoneRun \notin RunRecord /\ TornRun \notin RunRecord
  <2>1. \A record \in RunRecord : DOMAIN record = {"status", "number", "steps"}
    BY DEF RunRecord
  <2>2. DOMAIN GoneRun = {"none"} /\ DOMAIN TornRun = {"none"}
    BY DEF GoneRun, TornRun
  <2> QED
    BY <2>1, <2>2
<1> QED
  BY <1>1, <1>2, <1>3

(* The steps at first, and what there is of a run before it: no record, no *)
(* thread.                                                                 *)
LEMMA FirstTypes ==
  /\ AllPending \in Steps
  /\ \A r \in PipelineRuns : NoRecord \in RunRecord /\ Untriggered \in Thread
<1>1. AllPending \in Steps
  BY DEF AllPending, Steps, StepStatus
<1>2. 1 \in 1..StepCount
  BY PipelineAssumption
<1>3. ASSUME NEW r \in PipelineRuns
      PROVE  NoRecord \in RunRecord
  BY <1>1, RunCount DEF NoRecord, RunRecord, RunStatus
<1>4. ASSUME NEW r \in PipelineRuns
      PROVE  Untriggered \in Thread
  BY <1>1, <1>2, <1>3 DEF Untriggered, Thread, Phases, Saving
<1> QED
  BY <1>1, <1>3, <1>4

-----------------------------------------------------------------------------
(* The runs that were triggered have numbers enough: no number exceeds     *)
(* their count.                                                            *)
Triggered == {r \in PipelineRuns : engine[r].phase # "untriggered"}
NumbersBounded ==
  /\ \A r \in Readable : runFile[r].number <= Cardinality(Triggered)
  /\ \A r \in Triggered : engine[r].record.number <= Cardinality(Triggered)
  /\ editor # NoEdit => editor.record.number <= Cardinality(Triggered)
SavingPhases == {"begin", "step", "result", "skip", "final", "raised"}
SavesInPhase ==
  \A r \in PipelineRuns :
    engine[r].saving # "no" => engine[r].phase \in SavingPhases
PipelineTypes == PipelineTypeOK /\ NumbersBounded /\ SavesInPhase

(* The highest number given so far is one that a record has, or none.      *)
LEMMA HighestFacts ==
  ASSUME PipelineTypeOK
  PROVE  /\ Highest \in Nat
         /\ \A r \in Readable : runFile[r].number <= Highest
         /\ Highest = 0 \/ \E r \in Readable : runFile[r].number = Highest
<1> DEFINE S == {runFile[r].number : r \in Readable}
<1>1. \A r \in Readable : runFile[r] \in RunRecord
  BY DEF Readable, PipelineTypeOK
<1>2. S \in SUBSET Nat /\ \A x \in S : x <= Cardinality(PipelineRuns)
  BY <1>1, RunCount DEF RunRecord
<1>3. CASE Readable = {}
  BY <1>3 DEF Highest
<1>4. CASE Readable # {}
  <2>1. S # {}
    BY <1>4
  <2>2. \E n \in S : \A x \in S : x <= n
    <3> HIDE DEF S
    <3> QED BY <1>2, <2>1, RunCount, GreatestNumber
  <2>3. \E n \in S : \A r \in Readable : runFile[r].number <= n
    BY <2>2
  <2>4. Highest = CHOOSE n \in S : \A r \in Readable : runFile[r].number <= n
    BY <1>4 DEF Highest
  <2>5. Highest \in S /\ \A r \in Readable : runFile[r].number <= Highest
    BY <2>3, <2>4
  <2> QED
    BY <1>2, <2>5
<1> QED
  BY <1>3, <1>4

(* No more runs have a number than have been triggered.                    *)
LEMMA TriggeredCount ==
  ASSUME PipelineTypeOK
  PROVE  /\ Cardinality(Triggered) \in Nat
         /\ Cardinality(Triggered) <= Cardinality(PipelineRuns)
         /\ \A r \in Triggered : Cardinality(Triggered) >= 1
<1>1. Triggered \subseteq PipelineRuns
  BY DEF Triggered
<1>2. IsFiniteSet(Triggered)
      /\ Cardinality(Triggered) <= Cardinality(PipelineRuns)
  BY <1>1, PipelineAssumption, FS_Subset
<1>3. Cardinality(Triggered) \in Nat
      /\ (Cardinality(Triggered) = 0 <=> Triggered = {})
  BY <1>2, FS_CardinalityType, FS_EmptySet
<1> QED
  BY <1>2, <1>3

-----------------------------------------------------------------------------
(* What a thread does when a change is saved, phase by phase.              *)
LEMMA PhaseNextFacts ==
  ASSUME PipelineTypeOK, NEW r \in PipelineRuns, NEW phase \in Phases,
         NEW i \in 1..StepCount, NEW steps \in Steps,
         NEW next, next = PhaseNext(r, phase, i, steps)
  PROVE  /\ next \in Thread
         /\ next.phase = phase /\ next.i = i /\ next.steps = steps
         /\ next.record = NoRecord
         /\ next.saving = IF phase \in {"execute", "over"} THEN "no"
                          ELSE "read"
<1>1. engine[r] \in Thread
  BY DEF PipelineTypeOK
<1>2. NoRecord \in RunRecord
  BY FirstTypes
<1> QED
  BY <1>1, <1>2 DEF PhaseNext, Thread, Saving

(* What a save leads to, phase by phase.                                   *)
LEMMA SavedCases ==
  ASSUME NEW r, NEW t, t = engine[r]
  PROVE  /\ t.phase = "begin" => Saved(r) =
              PhaseNext(r, "step", 1, [t.steps EXCEPT ![1] = "RUNNING"])
         /\ t.phase = "step" => Saved(r) = PhaseNext(r, "execute", t.i, t.steps)
         /\ t.phase = "result" /\ t.steps[t.i] = "FAILED" =>
              Saved(r) = PhaseNext(r, "skip", t.i, SkipRest(r))
         /\ t.phase = "result" /\ t.steps[t.i] # "FAILED"
              /\ t.i < StepCount => Saved(r) =
              PhaseNext(r, "step", t.i + 1,
                        [t.steps EXCEPT ![t.i + 1] = "RUNNING"])
         /\ t.phase \in {"final", "raised"} =>
              Saved(r) = PhaseNext(r, "over", t.i, t.steps)
         /\ \/ t.phase = "skip"
            \/ t.phase = "result" /\ t.steps[t.i] # "FAILED"
                 /\ ~(t.i < StepCount)
            => Saved(r) = PhaseNext(r, "final", t.i, t.steps)
  BY DEF Saved

(* A run's step and its steps' statuses are in range, and stay so when one *)
(* is set.                                                                 *)
LEMMA NextSteps ==
  ASSUME PipelineTypeOK, NEW r \in PipelineRuns
  PROVE  /\ engine[r].steps \in Steps /\ engine[r].i \in 1..StepCount
         /\ SkipRest(r) \in Steps
         /\ \A i \in 1..StepCount, status \in StepStatus :
              [engine[r].steps EXCEPT ![i] = status] \in Steps
<1>1. engine[r].steps \in Steps /\ engine[r].i \in 1..StepCount
  BY DEF PipelineTypeOK, Thread
<1>2. SkipRest(r) \in Steps
  <2>1. \A j \in 1..StepCount :
          (IF j > engine[r].i THEN "SKIPPED" ELSE engine[r].steps[j])
            \in StepStatus
    BY <1>1 DEF Steps, StepStatus
  <2> QED
    BY <2>1 DEF SkipRest, Steps
<1> QED
  BY <1>1, <1>2 DEF Steps

(* What a save leads to, phase by phase.                                   *)
LEMMA SavedPhases ==
  ASSUME PipelineTypeOK, NEW r \in PipelineRuns
  PROVE  LET t == engine[r]
             u == Saved(r) IN
         /\ t.phase = "begin" =>
              /\ u.phase = "step" /\ u.i = 1
              /\ u.steps = [t.steps EXCEPT ![1] = "RUNNING"]
         /\ t.phase = "step" =>
              u.phase = "execute" /\ u.i = t.i /\ u.steps = t.steps
         /\ t.phase = "result" /\ t.steps[t.i] = "FAILED" =>
              u.phase = "skip" /\ u.i = t.i /\ u.steps = SkipRest(r)
         /\ t.phase = "result" /\ t.steps[t.i] # "FAILED"
              /\ t.i < StepCount =>
              /\ u.phase = "step" /\ u.i = t.i + 1
              /\ u.steps = [t.steps EXCEPT ![t.i + 1] = "RUNNING"]
         /\ t.phase \in {"final", "raised"} =>
              u.phase = "over" /\ u.i = t.i /\ u.steps = t.steps
         /\ \/ t.phase = "skip"
            \/ t.phase = "result" /\ t.steps[t.i] # "FAILED"
                 /\ ~(t.i < StepCount)
            => u.phase = "final" /\ u.i = t.i /\ u.steps = t.steps
<1> DEFINE t == engine[r]
           u == Saved(r)
<1>0. /\ t.steps \in Steps /\ t.i \in 1..StepCount /\ SkipRest(r) \in Steps
      /\ \A i \in 1..StepCount : [t.steps EXCEPT ![i] = "RUNNING"] \in Steps
      /\ 1 \in 1..StepCount /\ StepCount \in Nat
  BY NextSteps, PipelineAssumption DEF StepStatus
<1>a. ASSUME NEW phase \in Phases, NEW i \in 1..StepCount, NEW steps \in Steps,
             u = PhaseNext(r, phase, i, steps)
      PROVE  u.phase = phase /\ u.i = i /\ u.steps = steps
  BY <1>a, PhaseNextFacts
<1>b. {"step", "execute", "skip", "final", "over"} \subseteq Phases
  BY DEF Phases
<1>1. CASE t.phase = "begin"
  <2>1. u = PhaseNext(r, "step", 1, [t.steps EXCEPT ![1] = "RUNNING"])
    BY <1>1, SavedCases
  <2> QED
    BY <1>0, <1>1, <1>a, <1>b, <2>1
<1>2. CASE t.phase = "step"
  <2>1. u = PhaseNext(r, "execute", t.i, t.steps)
    BY <1>2, SavedCases
  <2> QED
    BY <1>0, <1>2, <1>a, <1>b, <2>1
<1>3. CASE t.phase = "result" /\ t.steps[t.i] = "FAILED"
  <2>1. u = PhaseNext(r, "skip", t.i, SkipRest(r))
    BY <1>3, SavedCases
  <2> QED
    BY <1>0, <1>3, <1>a, <1>b, <2>1
<1>4. CASE t.phase = "result" /\ t.steps[t.i] # "FAILED" /\ t.i < StepCount
  <2>1. u = PhaseNext(r, "step", t.i + 1,
                      [t.steps EXCEPT ![t.i + 1] = "RUNNING"])
    BY <1>4, SavedCases
  <2>2. t.i + 1 \in 1..StepCount
    BY <1>0, <1>4
  <2> QED
    BY <1>0, <1>4, <1>a, <1>b, <2>1, <2>2
<1>5. CASE t.phase \in {"final", "raised"}
  <2>1. u = PhaseNext(r, "over", t.i, t.steps)
    BY <1>5, SavedCases
  <2> QED
    BY <1>0, <1>5, <1>a, <1>b, <2>1
<1>6. CASE \/ t.phase = "skip"
           \/ t.phase = "result" /\ t.steps[t.i] # "FAILED"
                /\ ~(t.i < StepCount)
  <2>1. u = PhaseNext(r, "final", t.i, t.steps)
    BY <1>6, SavedCases
  <2> QED
    BY <1>0, <1>6, <1>a, <1>b, <2>1
<1>7. CASE t.phase \notin SavingPhases
  BY <1>7 DEF SavingPhases
<1> QED
  BY <1>1, <1>2, <1>3, <1>4, <1>5, <1>6, <1>7 DEF SavingPhases

(* A save leads to a thread that has no record in hand, in another phase.  *)
LEMMA SavedFacts ==
  ASSUME PipelineTypeOK, NEW r \in PipelineRuns,
         engine[r].phase \in SavingPhases
  PROVE  /\ Saved(r) \in Thread /\ Saved(r).record = NoRecord
         /\ Saved(r).phase \in {"step", "execute", "skip", "final", "over"}
         /\ Saved(r).saving = IF Saved(r).phase \in {"execute", "over"}
                              THEN "no" ELSE "read"
         /\ Saved(r).phase # engine[r].phase
<1> DEFINE t == engine[r]
<1>0. /\ t.steps \in Steps /\ t.i \in 1..StepCount /\ SkipRest(r) \in Steps
      /\ \A i \in 1..StepCount : [t.steps EXCEPT ![i] = "RUNNING"] \in Steps
      /\ 1 \in 1..StepCount
  BY NextSteps, PipelineAssumption DEF StepStatus
<1>a. ASSUME NEW phase \in {"step", "execute", "skip", "final", "over"},
             NEW i \in 1..StepCount, NEW steps \in Steps,
             phase # t.phase, Saved(r) = PhaseNext(r, phase, i, steps)
      PROVE  /\ Saved(r) \in Thread /\ Saved(r).record = NoRecord
             /\ Saved(r).phase # t.phase
             /\ Saved(r).phase \in {"step", "execute", "skip", "final", "over"}
             /\ Saved(r).saving = IF Saved(r).phase \in {"execute", "over"}
                                  THEN "no" ELSE "read"
  <2>1. phase \in Phases
    BY DEF Phases
  <2> QED
    BY <1>a, <2>1, PhaseNextFacts
<1>1. CASE t.phase = "begin"
  <2>1. Saved(r) = PhaseNext(r, "step", 1, [t.steps EXCEPT ![1] = "RUNNING"])
    BY <1>1, SavedCases
  <2> QED
    BY <1>0, <1>1, <1>a, <2>1
<1>2. CASE t.phase = "step"
  <2>1. Saved(r) = PhaseNext(r, "execute", t.i, t.steps)
    BY <1>2, SavedCases
  <2> QED
    BY <1>0, <1>2, <1>a, <2>1
<1>3. CASE t.phase = "result" /\ t.steps[t.i] = "FAILED"
  <2>1. Saved(r) = PhaseNext(r, "skip", t.i, SkipRest(r))
    BY <1>3, SavedCases
  <2> QED
    BY <1>0, <1>3, <1>a, <2>1
<1>4. CASE t.phase = "result" /\ t.steps[t.i] # "FAILED" /\ t.i < StepCount
  <2>1. Saved(r) = PhaseNext(r, "step", t.i + 1,
                             [t.steps EXCEPT ![t.i + 1] = "RUNNING"])
    BY <1>4, SavedCases
  <2>2. t.i + 1 \in 1..StepCount
    BY <1>0, <1>4, PipelineAssumption
  <2> QED
    BY <1>0, <1>4, <1>a, <2>1, <2>2
<1>5. CASE t.phase \in {"final", "raised"}
  <2>1. Saved(r) = PhaseNext(r, "over", t.i, t.steps)
    BY <1>5, SavedCases
  <2> QED
    BY <1>0, <1>5, <1>a, <2>1
<1>6. CASE \/ t.phase = "skip"
           \/ t.phase = "result" /\ t.steps[t.i] # "FAILED"
                /\ ~(t.i < StepCount)
  <2>1. Saved(r) = PhaseNext(r, "final", t.i, t.steps)
    BY <1>6, SavedCases
  <2> QED
    BY <1>0, <1>6, <1>a, <2>1
<1> QED
  BY <1>1, <1>2, <1>3, <1>4, <1>5, <1>6 DEF SavingPhases

(* What a save makes of the record it has read: a record of the same       *)
(* number, with the thread's steps, or the outcome, or a failure.          *)
LEMMA ChangedFacts ==
  ASSUME PipelineTypeOK, NEW r \in PipelineRuns, NEW record \in RunRecord
  PROVE  /\ Changed(r, record) \in RunRecord
         /\ Changed(r, record).number = record.number
         /\ engine[r].phase = "begin" =>
              Changed(r, record).steps = record.steps
         /\ engine[r].phase = "final" =>
              /\ Changed(r, record).steps = record.steps
              /\ Changed(r, record).status = Outcome(r)
         /\ engine[r].phase = "raised" =>
              /\ Changed(r, record).steps = record.steps
              /\ Changed(r, record).status = "FAILED"
         /\ engine[r].phase \notin {"begin", "final", "raised"} =>
              Changed(r, record).steps = engine[r].steps
<1>1. engine[r].steps \in Steps
  BY NextSteps
<1>2. Outcome(r) \in RunStatus
  BY DEF Outcome, RunStatus, Final
<1>3. CASE engine[r].phase = "begin"
  <2>1. Changed(r, record) = [record EXCEPT !.status = "RUNNING"]
    BY <1>3 DEF Changed
  <2> QED
    BY <1>3, <2>1 DEF RunRecord, RunStatus
<1>4. CASE engine[r].phase = "final"
  <2>1. Changed(r, record) = [record EXCEPT !.status = Outcome(r)]
    BY <1>4 DEF Changed
  <2> QED
    BY <1>2, <1>4, <2>1 DEF RunRecord
<1>5. CASE engine[r].phase = "raised"
  <2>1. Changed(r, record) = [record EXCEPT !.status = "FAILED"]
    BY <1>5 DEF Changed
  <2> QED
    BY <1>5, <2>1 DEF RunRecord, RunStatus, Final
<1>6. CASE engine[r].phase \notin {"begin", "final", "raised"}
  <2>1. Changed(r, record) = [record EXCEPT !.steps = engine[r].steps]
    BY <1>6 DEF Changed
  <2> QED
    BY <1>1, <1>6, <2>1 DEF RunRecord
<1> QED
  BY <1>3, <1>4, <1>5, <1>6

-----------------------------------------------------------------------------
(* What each step of a thread does to it; the other threads stand still.   *)
OnlyThread(r) ==
  /\ engine' \in [PipelineRuns -> Thread]
  /\ \A q \in PipelineRuns \ {r} : engine'[q] = engine[q]
Keeps(r) == engine'[r].i = engine[r].i /\ engine'[r].steps = engine[r].steps

(* The step that creates a run, by what it changes.                        *)
LEMMA CreateFacts ==
  ASSUME PipelineTypeOK, NEW r \in PipelineRuns, CreateRun(r)
  PROVE  /\ OnlyThread(r) /\ Keeps(r)
         /\ engine'[r].phase = "load" /\ engine'[r].saving = "no"
         /\ engine'[r].record = NoRecord
  BY FirstTypes
  DEF CreateRun, Phase, OnlyThread, Keeps, PipelineTypeOK, Thread, Phases,
      Saving

(* The step that looks for the record, and takes its steps from there.     *)
LEMMA LoadFacts ==
  ASSUME PipelineTypeOK, NEW r \in PipelineRuns, LoadRun(r)
  PROVE  /\ OnlyThread(r)
         /\ engine'[r].record = engine[r].record
         /\ \/ /\ r \in Readable /\ engine'[r].phase = "begin"
               /\ engine'[r].saving = "read"
               /\ engine'[r].steps = runFile[r].steps
            \/ /\ r \notin Readable /\ engine'[r].phase = "over"
               /\ engine'[r].saving = "no"
<1>1. CASE r \in Readable
  <2> DEFINE steps == runFile[r].steps
  <2>1. steps \in Steps
    BY <1>1 DEF PipelineTypeOK, Readable, RunRecord
  <2>2. engine' = [engine EXCEPT ![r].phase = "begin", ![r].saving = "read",
                                 ![r].steps = steps]
    BY <1>1 DEF LoadRun
  <2> HIDE DEF steps
  <2>3. /\ OnlyThread(r)
        /\ engine'[r].record = engine[r].record
        /\ engine'[r].phase = "begin" /\ engine'[r].saving = "read"
        /\ engine'[r].steps = steps
    BY <2>1, <2>2 DEF OnlyThread, PipelineTypeOK, Thread, Phases, Saving
  <2> QED
    BY <1>1, <2>3 DEF steps
<1>2. CASE r \notin Readable
  BY <1>2 DEF LoadRun, Phase, OnlyThread, PipelineTypeOK, Thread,
              Phases, Saving
<1> QED
  BY <1>1, <1>2

(* The step that executes, and what it may return.                         *)
LEMMA ExecuteFacts ==
  ASSUME PipelineTypeOK, NEW r \in PipelineRuns, ExecuteStep(r)
  PROVE  /\ OnlyThread(r)
         /\ engine'[r].i = engine[r].i
         /\ engine'[r].record = engine[r].record
         /\ engine'[r].phase = "result" /\ engine'[r].saving = "read"
         /\ \E status \in Final :
              engine'[r].steps =
                [engine[r].steps EXCEPT ![engine[r].i] = status]
<1>1. PICK status \in Final :
        engine' = [engine EXCEPT ![r].phase = "result", ![r].saving = "read",
                                 ![r].steps[engine[r].i] = status]
  BY DEF ExecuteStep
<1>2. /\ engine[r] \in Thread /\ status \in StepStatus
      /\ [engine[r].steps EXCEPT ![engine[r].i] = status] \in Steps
  BY NextSteps DEF StepStatus, PipelineTypeOK
<1>3. /\ engine'[r].steps =
           [engine[r].steps EXCEPT ![engine[r].i] = status]
      /\ engine'[r].i = engine[r].i
      /\ engine'[r].record = engine[r].record
      /\ engine'[r].phase = "result" /\ engine'[r].saving = "read"
  BY <1>1, <1>2 DEF PipelineTypeOK, Thread
<1>4. OnlyThread(r)
  BY <1>1, <1>2 DEF OnlyThread, PipelineTypeOK, Thread, Phases, Saving
<1> QED
  BY <1>3, <1>4

(* The step that ends in an exception.                                     *)
LEMMA RaiseFacts ==
  ASSUME PipelineTypeOK, NEW r \in PipelineRuns, StepRaises(r)
  PROVE  /\ OnlyThread(r) /\ Keeps(r)
         /\ engine'[r].record = engine[r].record
         /\ engine'[r].phase = "raised" /\ engine'[r].saving = "read"
  BY DEF StepRaises, Phase, OnlyThread, Keeps, PipelineTypeOK, Thread, Phases,
         Saving

(* The step that reads the file before a save.                             *)
LEMMA ReadFacts ==
  ASSUME PipelineTypeOK, SavesInPhase, NEW r \in PipelineRuns, ReadRecord(r)
  PROVE  /\ OnlyThread(r)
         /\ r \in Readable =>
              /\ Keeps(r) /\ engine'[r].phase = engine[r].phase
              /\ engine'[r].saving = "truncate"
              /\ engine'[r].record = Changed(r, runFile[r])
         /\ r \notin Readable => engine'[r] = Saved(r)
<1>1. CASE r \in Readable
  <2> DEFINE t == [engine[r] EXCEPT !.saving = "truncate",
                                    !.record = Changed(r, runFile[r])]
  <2>1. engine' = [engine EXCEPT ![r] = t]
    BY <1>1 DEF ReadRecord
  <2>2. engine[r] \in Thread /\ runFile[r] \in RunRecord
    BY <1>1 DEF PipelineTypeOK, Readable
  <2>3. Changed(r, runFile[r]) \in RunRecord
    BY <2>2, ChangedFacts
  <2>4. /\ t \in Thread /\ t.i = engine[r].i /\ t.steps = engine[r].steps
        /\ t.phase = engine[r].phase /\ t.saving = "truncate"
        /\ t.record = Changed(r, runFile[r])
    BY <2>2, <2>3 DEF Thread, Saving
  <2> HIDE DEF t
  <2> QED
    BY <1>1, <2>1, <2>4 DEF OnlyThread, Keeps, PipelineTypeOK
<1>2. CASE r \notin Readable
  <2>1. engine' = [engine EXCEPT ![r] = Saved(r)]
    BY <1>2 DEF ReadRecord
  <2>2. Saved(r) \in Thread
    BY SavedFacts DEF ReadRecord, SavesInPhase
  <2> QED
    BY <1>2, <2>1, <2>2 DEF OnlyThread, PipelineTypeOK
<1> QED
  BY <1>1, <1>2

(* The step that opens the file, and empties it.                           *)
LEMMA TruncateFacts ==
  ASSUME PipelineTypeOK, NEW r \in PipelineRuns, TruncateRecord(r)
  PROVE  /\ OnlyThread(r) /\ Keeps(r)
         /\ engine'[r].phase = engine[r].phase
         /\ engine'[r].saving = "write"
         /\ engine'[r].record = engine[r].record
  BY DEF TruncateRecord, OnlyThread, Keeps, PipelineTypeOK, Thread, Saving

(* The step that writes the record.                                        *)
LEMMA WriteFacts ==
  ASSUME PipelineTypeOK, SavesInPhase, NEW r \in PipelineRuns, WriteRecord(r)
  PROVE  OnlyThread(r) /\ engine'[r] = Saved(r)
<1>1. engine' = [engine EXCEPT ![r] = Saved(r)]
  BY DEF WriteRecord
<1>2. Saved(r) \in Thread
  BY SavedFacts DEF WriteRecord, SavesInPhase
<1> QED
  BY <1>1, <1>2 DEF OnlyThread, PipelineTypeOK

(* The step that gives a run its number.                                   *)
LEMMA NumberFacts ==
  ASSUME PipelineTypes, NEW r \in PipelineRuns, NumberRun(r)
  PROVE  /\ OnlyThread(r) /\ Keeps(r)
         /\ engine'[r].phase = "numbered" /\ engine'[r].saving = "no"
         /\ engine'[r].record.number = Highest + 1
         /\ engine'[r].record.steps = engine[r].record.steps
         /\ Triggered' = Triggered \cup {r}
         /\ Cardinality(Triggered') = Cardinality(Triggered) + 1
         /\ Highest <= Cardinality(Triggered)
<1>1. PipelineTypeOK /\ r \notin Triggered /\ Triggered \subseteq PipelineRuns
  BY DEF PipelineTypes, NumberRun, Phase, Triggered
<1>2. IsFiniteSet(Triggered)
  BY <1>1, PipelineAssumption, FS_Subset
<1>3. /\ Cardinality(Triggered \cup {r}) = Cardinality(Triggered) + 1
      /\ Triggered \cup {r} \subseteq PipelineRuns
  BY <1>1, <1>2, FS_AddElement
<1>4. Cardinality(Triggered) + 1 <= Cardinality(PipelineRuns)
  BY <1>3, PipelineAssumption, FS_Subset
<1>5. Highest <= Cardinality(Triggered)
  BY <1>1, HighestFacts, TriggeredCount DEF PipelineTypes, NumbersBounded
<1>6. Highest + 1 \in 1..Cardinality(PipelineRuns)
  BY <1>1, <1>4, <1>5, HighestFacts, TriggeredCount, RunCount
<1>7. engine' = [engine EXCEPT ![r].phase = "numbered",
                               ![r].record.number = Highest + 1]
  BY DEF NumberRun
<1>8. engine[r] \in Thread /\ engine[r].saving = "no"
  BY <1>1 DEF PipelineTypeOK, NumberRun, Phase
<1>9. /\ engine'[r].phase = "numbered" /\ engine'[r].saving = "no"
      /\ engine'[r].record.number = Highest + 1
      /\ engine'[r].record.steps = engine[r].record.steps
      /\ OnlyThread(r) /\ Keeps(r)
  <2> DEFINE n == Highest + 1
  <2>1. n \in 1..Cardinality(PipelineRuns)
    BY <1>6
  <2>2. engine' = [engine EXCEPT ![r].phase = "numbered",
                                 ![r].record.number = n]
    BY <1>7
  <2> HIDE DEF n
  <2>3. /\ engine'[r].phase = "numbered" /\ engine'[r].saving = "no"
        /\ engine'[r].record.number = n
        /\ engine'[r].record.steps = engine[r].record.steps
        /\ OnlyThread(r) /\ Keeps(r)
    BY <1>1, <1>8, <2>1, <2>2
    DEF OnlyThread, Keeps, PipelineTypeOK, Thread, RunRecord, Phases
  <2> QED
    BY <2>3 DEF n
<1>10. Triggered' = Triggered \cup {r}
  BY <1>9 DEF Triggered, OnlyThread
<1> QED
  BY <1>3, <1>5, <1>9, <1>10

(* What all of them have in common.                                        *)
LEMMA EngineFacts ==
  ASSUME PipelineTypes, NEW r \in PipelineRuns, EngineStep(r)
  PROVE  /\ OnlyThread(r)
         /\ UNCHANGED <<editor, meddling, deleted, rewritten>>
         /\ \A q \in PipelineRuns \ {r} : runFile'[q] = runFile[q]
<1>0. PipelineTypeOK /\ SavesInPhase
  BY DEF PipelineTypes
<1>1. OnlyThread(r)
  BY <1>0, NumberFacts, CreateFacts, LoadFacts, ExecuteFacts, RaiseFacts,
     ReadFacts, TruncateFacts, WriteFacts
  DEF EngineStep, CommandEnds, ThreadGoesOn
<1>2. UNCHANGED outside
  BY DEF EngineStep, CommandEnds, ThreadGoesOn, NumberRun, CreateRun, LoadRun,
         ExecuteStep, StepRaises, ReadRecord, TruncateRecord, WriteRecord
<1>3. \A q \in PipelineRuns \ {r} : runFile'[q] = runFile[q]
  BY <1>0
  DEF EngineStep, CommandEnds, ThreadGoesOn, NumberRun, CreateRun, LoadRun,
      ExecuteStep, StepRaises, ReadRecord, TruncateRecord, WriteRecord,
      PipelineTypeOK
<1> QED
  BY <1>1, <1>2, <1>3 DEF outside

(* A client's write: a record of the run, with its steps and its number or *)
(* else noted as rewritten, and with no number that is not given yet.      *)
LEMMA PutFacts ==
  ASSUME PipelineTypes, NEW r \in PipelineRuns, PutRun(r)
  PROVE  /\ editor = NoEdit /\ r \in Readable /\ Meddle
         /\ UNCHANGED <<runFile, engine, deleted>>
         /\ editor' \in Edit
         /\ editor'.run = r /\ editor'.saving = "truncate"
         /\ editor'.record.number <= Cardinality(Triggered)
         /\ rewritten' \in {rewritten, rewritten \cup {r}}
         /\ r \notin rewritten' =>
              /\ editor'.record.steps = runFile[r].steps
              /\ editor'.record.number = runFile[r].number
<1>1. /\ editor = NoEdit /\ r \in Readable /\ Meddle
      /\ UNCHANGED <<runFile, engine, deleted>>
  BY DEF PutRun
<1>2. PICK record \in {WithStatus(runFile[r])} \cup Restated(runFile[r]) :
        /\ editor' = [saving |-> "truncate", run |-> r, record |-> record]
        /\ rewritten' = IF record \in Restated(runFile[r])
                        THEN rewritten \cup {r} ELSE rewritten
  BY DEF PutRun
<1>3. /\ runFile[r] \in RunRecord
      /\ runFile[r].number <= Cardinality(Triggered)
  BY <1>1 DEF PipelineTypes, PipelineTypeOK, NumbersBounded, Readable
<1>4. /\ Highest \in Nat /\ Cardinality(Triggered) \in Nat
      /\ Highest <= Cardinality(Triggered)
      /\ Cardinality(Triggered) <= Cardinality(PipelineRuns)
      /\ Cardinality(PipelineRuns) \in Nat
  BY HighestFacts, TriggeredCount, RunCount DEF PipelineTypes, NumbersBounded
<1>5. CASE record = WithStatus(runFile[r])
  <2>1. /\ record \in RunRecord /\ record.steps = runFile[r].steps
        /\ record.number = runFile[r].number
    BY <1>3, <1>5 DEF WithStatus, RunRecord, RunStatus
  <2> QED
    BY <1>1, <1>2, <1>3, <2>1 DEF Edit, Saving
<1>6. CASE record \in Restated(runFile[r])
  <2>1. record \in RunRecord /\ record.number <= Cardinality(Triggered)
    <3>1. CASE record = [runFile[r] EXCEPT
                           !.steps = [i \in 1..StepCount |-> "SUCCESS"]]
      <4>1. [i \in 1..StepCount |-> "SUCCESS"] \in Steps
        BY DEF Steps, StepStatus, Final
      <4> QED
        BY <1>3, <3>1, <4>1 DEF RunRecord
    <3>2. ASSUME NEW n \in 1..Highest,
                 record = [runFile[r] EXCEPT !.number = n]
          PROVE  record \in RunRecord
                 /\ record.number <= Cardinality(Triggered)
      <4>1. n \in 1..Cardinality(PipelineRuns)
            /\ n <= Cardinality(Triggered)
        BY <1>4
      <4> QED
        BY <1>3, <3>2, <4>1 DEF RunRecord
    <3> QED
      BY <1>6, <3>1, <3>2 DEF Restated
  <2> QED
    BY <1>1, <1>2, <1>6, <2>1 DEF Edit, Saving
<1> QED
  BY <1>5, <1>6

(* The deletion of a record, whose run may be about to write it.           *)
LEMMA DeleteFacts ==
  ASSUME PipelineTypeOK, NEW r \in PipelineRuns, DeleteRun(r)
  PROVE  /\ engine' \in [PipelineRuns -> Thread]
         /\ \A q \in PipelineRuns :
              /\ engine'[q].phase = engine[q].phase
              /\ engine'[q].i = engine[q].i
              /\ engine'[q].steps = engine[q].steps
              /\ engine'[q].record = engine[q].record
              /\ q # r \/ engine[q].saving # "write" =>
                   engine'[q] = engine[q]
         /\ engine[r].saving = "write" => engine'[r].saving = "unlinked"
<1>1. engine' = [engine EXCEPT ![r].saving = Unlinked(engine[r].saving)]
  BY DEF DeleteRun
<1>2. engine[r] \in Thread /\ engine \in [PipelineRuns -> Thread]
  BY DEF PipelineTypeOK
<1>3. CASE engine[r].saving = "write"
  <2>1. engine' = [engine EXCEPT ![r].saving = "unlinked"]
    BY <1>1, <1>3 DEF Unlinked
  <2> QED
    BY <1>2, <1>3, <2>1 DEF Thread, Saving
<1>4. CASE engine[r].saving # "write"
  <2>1. engine' = engine
    BY <1>1, <1>2, <1>4 DEF Unlinked, Thread
  <2> QED
    BY <1>2, <1>4, <2>1
<1> QED
  BY <1>3, <1>4

-----------------------------------------------------------------------------
(* Types at the start.                                                     *)
LEMMA InitTypes == PipelineInit => PipelineTypes
<1> SUFFICES ASSUME PipelineInit PROVE PipelineTypes
  OBVIOUS
<1>1. engine \in [PipelineRuns -> Thread]
  BY FirstTypes DEF PipelineInit
<1>2. Readable = {} /\ Triggered = {} /\ 0 \in 0..MaxMeddling
  BY PipelineAssumption
  DEF PipelineInit, Readable, Triggered, Untriggered
<1>3. PipelineTypeOK
  BY <1>1, <1>2 DEF PipelineInit, PipelineTypeOK
<1>4. NumbersBounded
  BY <1>2 DEF PipelineInit, NumbersBounded
<1>5. SavesInPhase
  BY DEF PipelineInit, SavesInPhase, Untriggered
<1> QED
  BY <1>3, <1>4, <1>5 DEF PipelineTypes

(* Every step keeps the types.                                             *)
LEMMA NextTypes ==
  PipelineTypes /\ [PipelineNext]_pipelineVars => PipelineTypes'
<1> SUFFICES ASSUME PipelineTypes, [PipelineNext]_pipelineVars
             PROVE  PipelineTypes'
  OBVIOUS
<1>0. PipelineTypeOK /\ NumbersBounded /\ SavesInPhase
  BY DEF PipelineTypes
<1> DEFINE c == Cardinality(Triggered)
<1>a. c \in Nat /\ c <= Cardinality(PipelineRuns)
      /\ \A r \in Triggered : c >= 1
  BY <1>0, TriggeredCount
<1>b. \A r \in PipelineRuns : NoRecord.number = 1
  BY DEF NoRecord
<1>c. Noting => /\ crossed' \in BOOLEAN
                /\ miscounted' \subseteq PipelineRuns \X PipelineRuns
  BY <1>0 DEF Noting, Crossing, PipelineTypeOK
(* A step of a thread that was triggered, which creates no other number.   *)
<1>d. ASSUME NEW r \in PipelineRuns, OnlyThread(r), Noting, UNCHANGED outside,
             engine[r].phase # "untriggered",
             engine'[r].phase # "untriggered",
             engine'[r].record.number <= c,
             engine'[r].saving # "no" => engine'[r].phase \in SavingPhases,
             runFile' \in [PipelineRuns -> RunRecord \cup {GoneRun, TornRun}],
             \A q \in PipelineRuns :
               runFile'[q] \notin {GoneRun, TornRun} =>
                 runFile'[q].number <= c
      PROVE  PipelineTypes'
  <2>1. Triggered' = Triggered
    BY <1>d DEF Triggered, OnlyThread
  <2>2. PipelineTypeOK'
    BY <1>0, <1>c, <1>d DEF PipelineTypeOK, OnlyThread, outside
  <2>3. SavesInPhase'
    BY <1>0, <1>d DEF SavesInPhase, OnlyThread
  <2>4. \A q \in Triggered : engine'[q].record.number <= c
    BY <1>0, <1>d DEF NumbersBounded, OnlyThread, Triggered
  <2>5. NumbersBounded'
    BY <1>0, <1>d, <2>1, <2>4 DEF NumbersBounded, Readable, outside
  <2> QED
    BY <2>2, <2>3, <2>5 DEF PipelineTypes
<1>e. \A q \in PipelineRuns : runFile[q] \notin {GoneRun, TornRun} =>
        runFile[q] \in RunRecord /\ runFile[q].number <= c
  BY <1>0 DEF PipelineTypeOK, NumbersBounded, Readable
<1>f. \A r \in PipelineRuns :
        /\ runFile \in [PipelineRuns -> RunRecord \cup {GoneRun, TornRun}]
        /\ engine[r] \in Thread /\ engine[r].record \in RunRecord
        /\ engine[r].phase # "untriggered" =>
             c >= 1 /\ engine[r].record.number <= c
  BY <1>0, <1>a DEF PipelineTypeOK, NumbersBounded, Triggered, Thread
<1> HIDE DEF c
<1>1. ASSUME NEW r \in PipelineRuns, NumberRun(r), Noting
      PROVE  PipelineTypes'
  <2>1. /\ OnlyThread(r)
        /\ engine'[r].phase = "numbered" /\ engine'[r].saving = "no"
        /\ engine'[r].record.number = Highest + 1
        /\ Triggered' = Triggered \cup {r}
        /\ Cardinality(Triggered') = c + 1
        /\ Highest <= c
    BY <1>1, NumberFacts DEF c
  <2>2. UNCHANGED <<runFile, editor, meddling, deleted, rewritten>>
    BY <1>1 DEF NumberRun, outside
  <2>3. PipelineTypeOK'
    BY <1>0, <1>1, <1>c, <2>1, <2>2 DEF PipelineTypeOK, OnlyThread
  <2>4. SavesInPhase'
    BY <1>0, <2>1 DEF SavesInPhase, OnlyThread
  <2>5. ASSUME NEW q \in Triggered' PROVE engine'[q].record.number <= c + 1
    <3>1. CASE q = r
      BY <1>0, <1>a, <2>1, <3>1, HighestFacts
    <3>2. CASE q # r
      <4>1. engine'[q] = engine[q] /\ q \in Triggered
        BY <2>1, <2>5, <3>2 DEF OnlyThread, Triggered
      <4>2. engine[q].record.number \in Nat /\ engine[q].record.number <= c
        BY <1>f, <4>1 DEF Triggered, RunRecord
      <4> QED
        BY <1>a, <4>1, <4>2
    <3> QED
      BY <3>1, <3>2
  <2>6. ASSUME NEW q \in Readable' PROVE runFile'[q].number <= c + 1
    <3>1. q \in PipelineRuns /\ runFile[q] \notin {GoneRun, TornRun}
      BY <2>2, <2>6 DEF Readable
    <3>2. runFile[q].number \in Nat /\ runFile[q].number <= c
      BY <1>e, <3>1 DEF RunRecord
    <3> QED
      BY <1>a, <2>2, <3>2
  <2>7. ASSUME editor' # NoEdit PROVE editor'.record.number <= c + 1
    <3>1. editor.record.number \in Nat /\ editor.record.number <= c
      BY <1>0, <2>2, <2>7
      DEF PipelineTypeOK, Edit, RunRecord, NumbersBounded, c
    <3> QED
      BY <1>a, <2>2, <3>1
  <2>8. NumbersBounded'
    BY <2>1, <2>5, <2>6, <2>7 DEF NumbersBounded
  <2> QED
    BY <2>3, <2>4, <2>8 DEF PipelineTypes
<1>2. ASSUME NEW r \in PipelineRuns, CreateRun(r), Noting
      PROVE  PipelineTypes'
  <2>1. engine[r].phase # "untriggered"
    BY <1>2 DEF CreateRun, Phase
  <2>2. runFile' = [runFile EXCEPT ![r] = engine[r].record]
        /\ UNCHANGED outside
    BY <1>2 DEF CreateRun
  <2> QED
    BY <1>0, <1>2, <1>a, <1>b, <1>d, <1>e, <1>f, <2>1, <2>2, CreateFacts
<1>3. ASSUME NEW r \in PipelineRuns, LoadRun(r), Noting
      PROVE  PipelineTypes'
  <2>1. engine[r].phase # "untriggered" /\ UNCHANGED <<runFile, outside>>
    BY <1>3 DEF LoadRun, Phase
  <2> QED
    BY <1>0, <1>3, <1>d, <1>e, <1>f, <2>1, LoadFacts DEF SavingPhases
<1>4. ASSUME NEW r \in PipelineRuns, ExecuteStep(r), Noting
      PROVE  PipelineTypes'
  <2>1. engine[r].phase # "untriggered" /\ UNCHANGED <<runFile, outside>>
    BY <1>4 DEF ExecuteStep, Phase
  <2> QED
    BY <1>0, <1>4, <1>d, <1>e, <1>f, <2>1, ExecuteFacts DEF SavingPhases
<1>g. ASSUME NEW r \in PipelineRuns, engine[r].phase \in SavingPhases
      PROVE  /\ Saved(r).phase # "untriggered"
             /\ engine[r].phase # "untriggered"
             /\ Saved(r).record.number <= c
             /\ Saved(r).saving # "no" => Saved(r).phase \in SavingPhases
  BY <1>0, <1>a, <1>b, <1>f, <1>g, SavedFacts DEF SavingPhases
<1>r. ASSUME NEW r \in PipelineRuns, StepRaises(r), Noting
      PROVE  PipelineTypes'
  <2>1. engine[r].phase # "untriggered" /\ UNCHANGED <<runFile, outside>>
    BY <1>r DEF StepRaises, Phase
  <2> QED
    BY <1>0, <1>r, <1>d, <1>e, <1>f, <2>1, RaiseFacts DEF SavingPhases
<1>5. ASSUME NEW r \in PipelineRuns, ReadRecord(r), Noting
      PROVE  PipelineTypes'
  <2>1. engine[r].phase \in SavingPhases /\ UNCHANGED <<runFile, outside>>
    BY <1>0, <1>5 DEF ReadRecord, SavesInPhase
  <2>2. CASE r \in Readable
    <3>1. engine'[r].record.number = runFile[r].number
      BY <1>0, <1>5, <1>e, <2>2, ReadFacts, ChangedFacts DEF Readable
    <3>2. engine'[r].record.number <= c
      BY <1>e, <2>2, <3>1 DEF Readable
    <3> QED
      BY <1>0, <1>5, <1>d, <1>e, <1>f, <1>g, <2>1, <2>2, <3>2, ReadFacts
  <2>3. CASE r \notin Readable
    BY <1>0, <1>5, <1>d, <1>e, <1>f, <1>g, <2>1, <2>3, ReadFacts
  <2> QED
    BY <2>2, <2>3
<1>6. ASSUME NEW r \in PipelineRuns, TruncateRecord(r), Noting
      PROVE  PipelineTypes'
  <2>1. engine[r].phase \in SavingPhases /\ UNCHANGED outside
        /\ runFile' = [runFile EXCEPT ![r] = TornRun]
    BY <1>0, <1>6 DEF TruncateRecord, SavesInPhase
  <2> QED
    BY <1>0, <1>6, <1>d, <1>e, <1>f, <1>g, <2>1, TruncateFacts
<1>7. ASSUME NEW r \in PipelineRuns, WriteRecord(r), Noting
      PROVE  PipelineTypes'
  <2>1. engine[r].phase \in SavingPhases /\ UNCHANGED outside
        /\ runFile' \in {runFile, [runFile EXCEPT ![r] = engine[r].record]}
    BY <1>0, <1>7 DEF WriteRecord, SavesInPhase
  <2>2. engine[r].record.number <= c
    BY <1>f, <1>g, <2>1
  <2> QED
    BY <1>0, <1>7, <1>d, <1>e, <1>f, <1>g, <2>1, <2>2, WriteFacts
(* A step of a client, or a restart.                                       *)
<1>h. ASSUME engine' \in [PipelineRuns -> Thread],
             \A q \in PipelineRuns :
               /\ engine'[q].phase = "untriggered"
                    <=> engine[q].phase = "untriggered"
               /\ \/ engine'[q].record.number <= c
                  \/ engine'[q].phase = "untriggered"
               /\ engine'[q].saving # "no" => engine'[q].phase \in SavingPhases,
             runFile' \in [PipelineRuns -> RunRecord \cup {GoneRun, TornRun}],
             \A q \in PipelineRuns :
               runFile'[q] \notin {GoneRun, TornRun} =>
                 runFile'[q].number <= c,
             editor' \in Edit \cup {NoEdit},
             editor' # NoEdit => editor'.record.number <= c,
             meddling' \in 0..MaxMeddling, deleted' \subseteq PipelineRuns,
             rewritten' \subseteq PipelineRuns, crossed' \in BOOLEAN,
             miscounted' \subseteq PipelineRuns \X PipelineRuns
      PROVE  PipelineTypes'
  <2>1. Triggered' = Triggered
    BY <1>h DEF Triggered
  <2>2. PipelineTypeOK' /\ SavesInPhase'
    BY <1>h DEF PipelineTypeOK, SavesInPhase
  <2>3. NumbersBounded'
    BY <1>h, <2>1 DEF NumbersBounded, Readable, Triggered, c
  <2> QED
    BY <2>2, <2>3 DEF PipelineTypes
<1>i. /\ runFile \in [PipelineRuns -> RunRecord \cup {GoneRun, TornRun}]
      /\ editor \in Edit \cup {NoEdit}
      /\ editor # NoEdit => editor.record \in RunRecord
                            /\ editor.record.number <= c
                            /\ editor.run \in PipelineRuns
      /\ meddling \in 0..MaxMeddling
      /\ deleted \subseteq PipelineRuns /\ rewritten \subseteq PipelineRuns
      /\ engine \in [PipelineRuns -> Thread]
      /\ \A q \in PipelineRuns :
           /\ engine[q].record.number <= c \/ engine[q].phase = "untriggered"
           /\ engine[q].saving # "no" => engine[q].phase \in SavingPhases
  BY <1>0, <1>f DEF PipelineTypeOK, NumbersBounded, Edit, SavesInPhase, c
<1>j. Meddle => meddling' \in 0..MaxMeddling
  BY <1>i, PipelineAssumption DEF Meddle
<1>8. ASSUME NEW r \in PipelineRuns, PutRun(r), Noting
      PROVE  PipelineTypes'
  <2>1. /\ UNCHANGED <<runFile, engine, deleted>> /\ Meddle
        /\ editor' \in Edit /\ editor'.record.number <= c
        /\ rewritten' \subseteq PipelineRuns
    BY <1>8, <1>i, PutFacts DEF c
  <2> QED
    BY <1>8, <1>c, <1>e, <1>f, <1>h, <1>i, <1>j, <2>1
<1>9. CASE PutTruncates /\ Noting
  <2>1. editor # NoEdit
    BY <1>9 DEF PutTruncates, NoEdit
  <2>2. editor' \in Edit /\ editor'.record = editor.record
    BY <1>9, <1>i, <2>1 DEF PutTruncates, Edit, Saving
  <2>3. /\ runFile' = [runFile EXCEPT ![editor.run] = TornRun]
        /\ UNCHANGED <<engine, meddling, deleted, rewritten>>
    BY <1>9 DEF PutTruncates
  <2> QED
    BY <1>9, <1>c, <1>e, <1>f, <1>h, <1>i, <2>1, <2>2, <2>3
<1>10. CASE PutWrites /\ Noting
  <2>1. editor # NoEdit
    BY <1>10 DEF PutWrites, NoEdit
  <2>2. /\ runFile' \in {runFile,
                         [runFile EXCEPT ![editor.run] = editor.record]}
        /\ editor' = NoEdit
        /\ UNCHANGED <<engine, meddling, deleted, rewritten>>
    BY <1>10 DEF PutWrites
  <2> QED
    BY <1>10, <1>c, <1>e, <1>f, <1>h, <1>i, <2>1, <2>2
<1>11. ASSUME NEW r \in PipelineRuns, DeleteRun(r), Noting
       PROVE  PipelineTypes'
  <2>1. /\ runFile' = [runFile EXCEPT ![r] = GoneRun] /\ Meddle
        /\ deleted' = deleted \cup {r} /\ rewritten' = rewritten
    BY <1>11 DEF DeleteRun
  <2>2. \A saving \in Saving : Unlinked(saving) \in Saving
          /\ (Unlinked(saving) = "no" <=> saving = "no")
    BY DEF Unlinked, Saving
  <2>3. /\ engine' \in [PipelineRuns -> Thread]
        /\ \A q \in PipelineRuns :
             /\ engine'[q].phase = engine[q].phase
             /\ engine'[q].record = engine[q].record
             /\ engine'[q].saving # "no" => engine[q].saving # "no"
    BY <1>0, <1>11, DeleteFacts
  <2>4. /\ editor' \in Edit \cup {NoEdit}
        /\ editor' # NoEdit => editor # NoEdit
                               /\ editor'.record = editor.record
    <3>1. CASE editor # NoEdit /\ editor.run = r
      <4>1. editor' = [editor EXCEPT !.saving = Unlinked(editor.saving)]
        BY <1>11, <3>1 DEF DeleteRun
      <4>2. editor \in Edit
        BY <1>i, <3>1
      <4> QED
        BY <2>2, <3>1, <4>1, <4>2 DEF Edit
    <3>2. CASE ~(editor # NoEdit /\ editor.run = r)
      <4>1. editor' = editor
        BY <1>11, <3>2 DEF DeleteRun
      <4> QED
        BY <1>i, <4>1
    <3> QED
      BY <3>1, <3>2
  <2> QED
    BY <1>11, <1>c, <1>e, <1>f, <1>h, <1>i, <1>j, <2>1, <2>3, <2>4
<1>12. CASE /\ PipelineRestart /\ crossed' = (crossed \/ Unfinished)
            /\ UNCHANGED miscounted
  <2>1. /\ editor' = NoEdit /\ Meddle
        /\ UNCHANGED <<runFile, deleted, rewritten>>
    BY <1>12 DEF PipelineRestart
  <2>2. ASSUME NEW q \in PipelineRuns
        PROVE  /\ engine'[q] \in Thread
               /\ engine'[q].phase = "untriggered"
                    <=> engine[q].phase = "untriggered"
               /\ engine'[q].record.number <= c
                    \/ engine'[q].phase = "untriggered"
               /\ engine'[q].saving # "no" =>
                    engine'[q].phase \in SavingPhases
    <3>1. CASE engine[q].phase = "untriggered"
      <4>1. engine'[q] = engine[q]
        BY <1>12, <3>1 DEF PipelineRestart
      <4> QED
        BY <1>i, <3>1, <4>1
    <3>2. CASE engine[q].phase # "untriggered"
      <4>1. engine'[q] = [Untriggered EXCEPT !.phase = "over"]
        BY <1>12, <3>2 DEF PipelineRestart
      <4>2. /\ engine'[q] \in Thread /\ engine'[q].phase = "over"
            /\ engine'[q].saving = "no" /\ engine'[q].record = NoRecord
        BY <4>1, FirstTypes DEF Thread, Phases, Untriggered
      <4> QED
        BY <1>b, <1>f, <3>2, <4>2
    <3> QED
      BY <3>1, <3>2
  <2>3. engine' \in [PipelineRuns -> Thread]
    BY <1>12, <2>2 DEF PipelineRestart
  <2>4. crossed' \in BOOLEAN
        /\ miscounted' \subseteq PipelineRuns \X PipelineRuns
    BY <1>0, <1>12 DEF PipelineTypeOK, Unfinished
  <2> QED
    BY <1>e, <1>h, <1>i, <1>j, <2>1, <2>2, <2>3, <2>4
<1>13. CASE UNCHANGED pipelineVars
  BY <1>0, <1>13 DEF pipelineVars, PipelineTypes, PipelineTypeOK,
     NumbersBounded, SavesInPhase, Readable, Triggered
<1> QED
  BY <1>1, <1>2, <1>3, <1>4, <1>5, <1>6, <1>7, <1>8, <1>9, <1>10, <1>11,
     <1>12, <1>13, <1>r
  DEF PipelineNext, EngineStep, CommandEnds, ThreadGoesOn, ClientStep

-----------------------------------------------------------------------------
(* How far a thread has come: the steps before i have succeeded, step i    *)
(* has a status, and the rest has another.                                 *)
Upto(steps, i, status, rest) ==
  \A j \in 1..StepCount :
    steps[j] = IF j < i THEN "SUCCESS" ELSE IF j = i THEN status ELSE rest
Failed(t, steps) == Upto(steps, t.i, "FAILED", "SKIPPED")
Succeeded(t, steps) ==
  t.i = StepCount /\ Upto(steps, t.i, "SUCCESS", "SKIPPED")

(* The steps a thread remembers, phase by phase, unless a client wrote them*)
(* to the record before the thread took them from there.                   *)
Remembers(t) ==
  /\ t.phase = "numbered" => t.record.steps = AllPending
  /\ t.phase = "untriggered" => t = Untriggered
  /\ t.phase = "begin" => t.steps = AllPending
  /\ t.phase \in {"step", "execute", "raised"} =>
       Upto(t.steps, t.i, "RUNNING", "PENDING")
  /\ t.phase = "result" =>
       \E status \in Final : Upto(t.steps, t.i, status, "PENDING")
  /\ t.phase = "skip" => Failed(t, t.steps)
  /\ t.phase = "final" => Failed(t, t.steps) \/ Succeeded(t, t.steps)
ThreadInv ==
  ~crossed => \A r \in PipelineRuns \ rewritten : Remembers(engine[r])

(* Setting the status of the step a run is at keeps the shape of its       *)
(* steps.                                                                  *)
LEMMA UptoStep ==
  ASSUME NEW steps \in Steps, NEW i \in 1..StepCount,
         NEW before, NEW status, NEW rest, Upto(steps, i, before, rest)
  PROVE  Upto([steps EXCEPT ![i] = status], i, status, rest)
  BY DEF Upto, Steps

(* A save leaves its run with what it has to remember.                     *)
LEMMA RememberSaved ==
  ASSUME PipelineTypeOK, NEW r \in PipelineRuns, Remembers(engine[r]),
         engine[r].phase \in SavingPhases
  PROVE  Remembers(Saved(r))
<1> DEFINE t == engine[r]
           u == Saved(r)
<1>0. /\ t.steps \in Steps /\ t.i \in 1..StepCount /\ SkipRest(r) \in Steps
      /\ \A i \in 1..StepCount : [t.steps EXCEPT ![i] = "RUNNING"] \in Steps
      /\ 1 \in 1..StepCount /\ StepCount \in Nat
      /\ Remembers(t)
  BY NextSteps, PipelineAssumption DEF StepStatus
<1>1. CASE t.phase = "begin"
  <2>2. /\ u.phase = "step" /\ u.i = 1
        /\ u.steps = [t.steps EXCEPT ![1] = "RUNNING"]
    BY <1>1, SavedPhases
  <2>3. t.steps = AllPending
    BY <1>0, <1>1 DEF Remembers
  <2>4. Upto(u.steps, 1, "RUNNING", "PENDING")
    BY <1>0, <2>2, <2>3 DEF Upto, AllPending
  <2> QED
    BY <2>2, <2>4 DEF Remembers
<1>2. CASE t.phase = "step"
  <2>2. u.phase = "execute" /\ u.i = t.i /\ u.steps = t.steps
    BY <1>2, SavedPhases
  <2> QED
    BY <1>0, <1>2, <2>2 DEF Remembers
<1>3. CASE t.phase = "result" /\ t.steps[t.i] = "FAILED"
  <2>2. u.phase = "skip" /\ u.i = t.i /\ u.steps = SkipRest(r)
    BY <1>3, SavedPhases
  <2>3. Upto(t.steps, t.i, "FAILED", "PENDING")
    BY <1>0, <1>3 DEF Remembers, Upto
  <2>4. Upto(SkipRest(r), t.i, "FAILED", "SKIPPED")
    BY <1>0, <2>3 DEF Upto, SkipRest
  <2> QED
    BY <2>2, <2>4 DEF Remembers, Failed
<1>4. CASE t.phase = "result" /\ t.steps[t.i] # "FAILED" /\ t.i < StepCount
  <2>2. t.i + 1 \in 1..StepCount
    BY <1>0, <1>4
  <2>3. /\ u.phase = "step" /\ u.i = t.i + 1
        /\ u.steps = [t.steps EXCEPT ![t.i + 1] = "RUNNING"]
    BY <1>4, SavedPhases
  <2>4. Upto(t.steps, t.i, "SUCCESS", "PENDING")
    BY <1>0, <1>4 DEF Remembers, Upto, Final
  <2>5. Upto(u.steps, t.i + 1, "RUNNING", "PENDING")
    BY <1>0, <2>2, <2>3, <2>4 DEF Upto, Steps
  <2> QED
    BY <2>3, <2>5 DEF Remembers
<1>5. CASE t.phase \in {"final", "raised"}
  <2>2. u.phase = "over"
    BY <1>5, SavedPhases
  <2> QED
    BY <2>2 DEF Remembers
<1>6. CASE \/ t.phase = "skip"
           \/ t.phase = "result" /\ t.steps[t.i] # "FAILED"
                /\ ~(t.i < StepCount)
  <2>2. u.phase = "final" /\ u.i = t.i /\ u.steps = t.steps
    BY <1>6, SavedPhases
  <2>3. Failed(t, t.steps) \/ Succeeded(t, t.steps)
    <3>1. CASE t.phase = "skip"
      BY <1>0, <3>1 DEF Remembers
    <3>2. CASE t.phase = "result" /\ t.steps[t.i] # "FAILED"
                 /\ ~(t.i < StepCount)
      <4>1. t.i = StepCount
        BY <1>0, <3>2
      <4>2. Upto(t.steps, t.i, "SUCCESS", "PENDING")
        BY <1>0, <3>2 DEF Remembers, Upto, Final
      <4> QED
        BY <1>0, <4>1, <4>2 DEF Succeeded, Upto
    <3> QED
      BY <1>6, <3>1, <3>2
  <2> QED
    BY <2>2, <2>3 DEF Remembers, Failed, Succeeded
<1> QED
  BY <1>1, <1>2, <1>3, <1>4, <1>5, <1>6 DEF SavingPhases

(* At the start no run remembers anything.                                 *)
LEMMA InitThread == PipelineInit => ThreadInv
  BY DEF PipelineInit, ThreadInv, Remembers, Untriggered

-----------------------------------------------------------------------------
(* A record fits a thread when it tells what the thread has saved: in a    *)
(* phase that saves a change it is behind by that change.                  *)
FinalStatus(t) == IF t.steps[t.i] = "SUCCESS" THEN "SUCCESS" ELSE "FAILED"
Told(record) ==
  \E i \in 1..StepCount :
    \/ /\ record.status = "FAILED"
       /\ \/ Upto(record.steps, i, "FAILED", "SKIPPED")
          \/ Upto(record.steps, i, "RUNNING", "PENDING")
    \/ /\ record.status = "SUCCESS" /\ i = StepCount
       /\ Upto(record.steps, i, "SUCCESS", "SKIPPED")
Fits(t, record) ==
  /\ t.phase \in {"load", "begin"} => record.steps = AllPending
  /\ t.phase = "step" => Upto(record.steps, t.i, "PENDING", "PENDING")
  /\ t.phase = "result" => Upto(record.steps, t.i, "RUNNING", "PENDING")
  /\ t.phase = "skip" => Upto(record.steps, t.i, "FAILED", "PENDING")
  /\ t.phase \in {"execute", "final", "raised"} => record.steps = t.steps
  /\ t.phase = "over" => Told(record)

(* The record that is about to be written has the change.                  *)
Writing(t) ==
  t.saving \in {"truncate", "write"} =>
    /\ t.phase = "begin" => t.record.steps = AllPending
    /\ t.phase # "begin" => t.record.steps = t.steps
    /\ t.phase = "final" => t.record.status = FinalStatus(t)
    /\ t.phase = "raised" => t.record.status = "FAILED"

(* The file is as the one who saves it has left it.                        *)
IsRecord(file) == file \notin {GoneRun, TornRun}
LeftBy(saving, file) ==
  /\ saving = "truncate" => IsRecord(file)
  /\ saving = "write" => file = TornRun
  /\ saving = "unlinked" => file = GoneRun

Filed(r) ==
  /\ engine[r].phase \in {"untriggered", "numbered"} =>
       runFile[r] = GoneRun /\ r \notin deleted
  /\ r \in deleted => runFile[r] = GoneRun
  /\ LeftBy(engine[r].saving, runFile[r])
  /\ r \notin rewritten => Writing(engine[r])
  /\ r \notin rewritten /\ IsRecord(runFile[r]) =>
       Fits(engine[r], runFile[r])
  /\ runFile[r] = TornRun =>
       engine[r].saving = "write" \/ (EditorAt(r) /\ editor.saving = "write")
  /\ EditorAt(r) =>
       /\ ~Meeting(r) /\ LeftBy(editor.saving, runFile[r])
       /\ editor.saving \in {"truncate", "write", "unlinked"}
       /\ r \notin rewritten /\ editor.saving # "unlinked" =>
            Fits(engine[r], editor.record)
FilesInv == ~crossed => \A r \in PipelineRuns : Filed(r)

(* What a step that has not crossed another did not do.                    *)
LEMMA NotCrossed ==
  ASSUME Noting, ~crossed'
  PROVE  /\ ~crossed
         /\ \A r \in PipelineRuns :
              /\ ~Meeting(r)' /\ ~(EditorAt(r) /\ Reading(r))
              /\ r \in deleted' \ deleted => ~Reviving(r)
         /\ miscounted' = miscounted \cup
              {pair \in PipelineRuns \X PipelineRuns :
                 /\ pair[2] \in Unseen(pair[1])
                 /\ Phase(pair[1], "untriggered")
                 /\ Phase(pair[1], "numbered")'}
  BY DEF Noting, Crossing

(* Handlers that have crossed once have crossed for good, and a run that   *)
(* was rewritten stays so.                                                 *)
LEMMA CrossedStays ==
  ASSUME PipelineTypes, [PipelineNext]_pipelineVars, ~crossed'
  PROVE  ~crossed
<1>1. CASE UNCHANGED pipelineVars
  BY <1>1 DEF pipelineVars
<1>2. CASE Noting
  BY <1>2 DEF Noting
<1>3. CASE PipelineRestart /\ crossed' = (crossed \/ Unfinished)
  <2>1. crossed \in BOOLEAN
    BY DEF PipelineTypes, PipelineTypeOK
  <2> QED
    BY <1>3, <2>1
<1> QED
  BY <1>1, <1>2, <1>3 DEF PipelineNext

(* A run that was rewritten stays so.                                      *)
LEMMA RewrittenStays ==
  ASSUME PipelineTypes, [PipelineNext]_pipelineVars
  PROVE  rewritten \subseteq rewritten'
<1>1. ASSUME NEW r \in PipelineRuns, EngineStep(r)
      PROVE  rewritten \subseteq rewritten'
  BY <1>1, EngineFacts
<1>2. ASSUME NEW r \in PipelineRuns, PutRun(r)
      PROVE  rewritten \subseteq rewritten'
  BY <1>2, PutFacts
<1> QED
  BY <1>1, <1>2
  DEF PipelineNext, ClientStep, DeleteRun, PutTruncates, PutWrites,
      PipelineRestart, pipelineVars

(* A step of another run leaves this run's file as it was.                 *)
LEMMA FiledStays ==
  ASSUME NEW q, Filed(q), runFile'[q] = runFile[q], engine'[q] = engine[q],
         EditorAt(q) => editor' = editor,
         EditorAt(q)' => EditorAt(q),
         q \in deleted' <=> q \in deleted,
         q \notin rewritten' => q \notin rewritten
  PROVE  Filed(q)'
<1>1. EditorAt(q)' => editor' = editor /\ EditorAt(q)
  OBVIOUS
<1>2. runFile[q] = TornRun =>
        engine[q].saving = "write" \/ (EditorAt(q)' /\ editor'.saving = "write")
  <2>1. EditorAt(q) => EditorAt(q)'
    BY DEF EditorAt
  <2> QED
    BY <2>1 DEF Filed
<1> QED
  BY <1>1, <1>2 DEF Filed, Meeting

(* What a thread leaves when its change is saved fits what it does next.   *)
LEMMA FitsSaved ==
  ASSUME PipelineTypeOK, NEW r \in PipelineRuns, Remembers(engine[r]),
         engine[r].phase \in SavingPhases,
         engine[r].saving = "write", Writing(engine[r])
  PROVE  Fits(Saved(r), engine[r].record)
<1> DEFINE t == engine[r]
           u == Saved(r)
           steps == engine[r].record.steps
<1>0. /\ t.steps \in Steps /\ t.i \in 1..StepCount /\ SkipRest(r) \in Steps
      /\ \A i \in 1..StepCount : [t.steps EXCEPT ![i] = "RUNNING"] \in Steps
      /\ 1 \in 1..StepCount /\ StepCount \in Nat
      /\ Remembers(t)
  BY NextSteps, PipelineAssumption DEF StepStatus
<1>a. t.phase # "begin" => steps = t.steps
  BY DEF Writing
<1>1. CASE t.phase = "begin"
  <2>2. u.phase = "step" /\ u.i = 1
    BY <1>1, SavedPhases
  <2>3. steps = AllPending
    BY <1>1 DEF Writing
  <2>4. Upto(steps, 1, "PENDING", "PENDING")
    BY <2>3 DEF Upto, AllPending
  <2> QED
    BY <2>2, <2>4 DEF Fits
<1>2. CASE t.phase = "step"
  <2>2. u.phase = "execute" /\ u.i = t.i /\ u.steps = t.steps
    BY <1>2, SavedPhases
  <2> QED
    BY <1>2, <1>a, <2>2 DEF Fits
<1>3. CASE t.phase = "result" /\ t.steps[t.i] = "FAILED"
  <2>2. u.phase = "skip" /\ u.i = t.i
    BY <1>3, SavedPhases
  <2>3. Upto(t.steps, t.i, "FAILED", "PENDING")
    BY <1>0, <1>3 DEF Remembers, Upto
  <2> QED
    BY <1>3, <1>a, <2>2, <2>3 DEF Fits
<1>4. CASE t.phase = "result" /\ t.steps[t.i] # "FAILED" /\ t.i < StepCount
  <2>2. t.i + 1 \in 1..StepCount
    BY <1>0, <1>4
  <2>3. u.phase = "step" /\ u.i = t.i + 1
    BY <1>4, SavedPhases
  <2>4. Upto(t.steps, t.i, "SUCCESS", "PENDING")
    BY <1>0, <1>4 DEF Remembers, Upto, Final
  <2>5. Upto(t.steps, t.i + 1, "PENDING", "PENDING")
    BY <1>0, <2>4 DEF Upto
  <2> QED
    BY <1>4, <1>a, <2>3, <2>5 DEF Fits
<1>5. CASE t.phase = "final"
  <2>2. u.phase = "over"
    BY <1>5, SavedPhases
  <2>3. engine[r].record.status = FinalStatus(t)
    BY <1>5 DEF Writing
  <2>4. CASE Failed(t, t.steps)
    <3>1. t.steps[t.i] = "FAILED"
      BY <1>0, <2>4 DEF Failed, Upto
    <3>2. engine[r].record.status = "FAILED"
      BY <2>3, <3>1 DEF FinalStatus
    <3>3. Told(engine[r].record)
      BY <1>0, <1>5, <1>a, <2>4, <3>2 DEF Told, Failed
    <3> QED
      BY <2>2, <3>3 DEF Fits
  <2>5. CASE Succeeded(t, t.steps)
    <3>1. t.steps[t.i] = "SUCCESS"
      BY <1>0, <2>5 DEF Succeeded, Upto
    <3>2. engine[r].record.status = "SUCCESS"
      BY <2>3, <3>1 DEF FinalStatus
    <3>3. Told(engine[r].record)
      BY <1>0, <1>5, <1>a, <2>5, <3>2 DEF Told, Succeeded
    <3> QED
      BY <2>2, <3>3 DEF Fits
  <2> QED
    BY <1>0, <1>5, <2>4, <2>5 DEF Remembers
<1>6. CASE \/ t.phase = "skip"
           \/ t.phase = "result" /\ t.steps[t.i] # "FAILED"
                /\ ~(t.i < StepCount)
  <2>2. u.phase = "final" /\ u.steps = t.steps
    BY <1>6, SavedPhases
  <2> QED
    BY <1>6, <1>a, <2>2 DEF Fits
<1>7. CASE t.phase = "raised"
  <2>1. u.phase = "over"
    BY <1>7, SavedPhases
  <2>2. engine[r].record.status = "FAILED"
    BY <1>7 DEF Writing
  <2>3. Upto(t.steps, t.i, "RUNNING", "PENDING")
    BY <1>0, <1>7 DEF Remembers
  <2>4. Told(engine[r].record)
    BY <1>0, <1>7, <1>a, <2>2, <2>3 DEF Told
  <2> QED
    BY <2>1, <2>4 DEF Fits
<1> QED
  BY <1>1, <1>2, <1>3, <1>4, <1>5, <1>6, <1>7 DEF SavingPhases

(* At the start there is no file.                                          *)
LEMMA InitFiled == PipelineInit => FilesInv
<1> SUFFICES ASSUME PipelineInit, NEW r \in PipelineRuns PROVE Filed(r)
  BY DEF FilesInv
<1> QED
  BY NoSuchRecord
  DEF PipelineInit, Filed, LeftBy, Writing, IsRecord, Untriggered, EditorAt

(* A thread's step, when nobody crosses it, leaves its file in order.      *)
LEMMA EngineFiled ==
  ASSUME PipelineTypes, NEW r \in PipelineRuns, Filed(r),
         r \notin rewritten => Remembers(engine[r]),
         EngineStep(r), Noting, ~crossed'
  PROVE  Filed(r)'
<1>0. /\ PipelineTypeOK /\ SavesInPhase /\ GoneRun # TornRun
      /\ \A q \in PipelineRuns :
           q \in Readable <=> IsRecord(runFile[q])
      /\ ~Meeting(r)' /\ ~(EditorAt(r) /\ Reading(r))
  BY NotCrossed, NoSuchRecord DEF PipelineTypes, Readable, IsRecord
<1>a. /\ editor' = editor /\ deleted' = deleted /\ rewritten' = rewritten
      /\ EditorAt(r)' <=> EditorAt(r)
  BY EngineFacts DEF EditorAt
<1>1. CASE NumberRun(r)
  <2>1. runFile' = runFile /\ engine[r].phase = "untriggered"
    BY <1>1 DEF NumberRun, Phase
  <2>2. engine'[r].phase = "numbered" /\ engine'[r].saving = "no"
    BY <1>1, NumberFacts
  <2>3. runFile[r] = GoneRun /\ r \notin deleted
    BY <2>1 DEF Filed
  <2> QED
    BY <1>0, <1>a, <2>1, <2>2, <2>3
    DEF Filed, LeftBy, Writing, IsRecord, Fits
<1>2. CASE CreateRun(r)
  <2>1. /\ engine[r].phase = "numbered"
        /\ runFile'[r] = engine[r].record
    BY <1>0, <1>2 DEF CreateRun, Phase, PipelineTypeOK
  <2>2. engine'[r].phase = "load" /\ engine'[r].saving = "no"
    BY <1>0, <1>2, CreateFacts
  <2>3. engine[r].record \in RunRecord
    BY <1>0 DEF PipelineTypeOK, Thread
  <2>4. IsRecord(runFile'[r]) /\ runFile'[r] # TornRun
    BY <2>1, <2>3, NoSuchRecord DEF IsRecord
  <2>5. r \notin rewritten => engine[r].record.steps = AllPending
    BY <2>1 DEF Remembers
  <2>6. ~EditorAt(r)
    BY <1>0, <1>a, <2>2 DEF Meeting
  <2>7. r \notin deleted
    BY <2>1 DEF Filed
  <2> QED
    BY <1>a, <2>1, <2>2, <2>4, <2>5, <2>6, <2>7
    DEF Filed, LeftBy, Writing, Fits
<1>3. CASE LoadRun(r)
  <2>1. runFile' = runFile /\ engine[r].phase = "load"
        /\ engine[r].saving = "no"
    BY <1>3 DEF LoadRun, Phase
  <2>2. ~EditorAt(r)
    BY <2>1 DEF Filed, Meeting
  <2>3. runFile[r] # TornRun
    BY <2>1, <2>2 DEF Filed
  <2>4. CASE r \in Readable
    <3>1. engine'[r].phase = "begin" /\ engine'[r].saving = "read"
      BY <1>0, <1>3, <2>4, LoadFacts
    <3> QED
      BY <1>a, <2>1, <2>2, <2>3, <3>1 DEF Filed, LeftBy, Writing, Fits
  <2>5. CASE r \notin Readable
    <3>1. engine'[r].phase = "over" /\ engine'[r].saving = "no"
      BY <1>0, <1>3, <2>5, LoadFacts
    <3> QED
      BY <1>0, <1>a, <2>1, <2>2, <2>3, <2>5, <3>1
      DEF Filed, LeftBy, Writing
  <2> QED
    BY <2>4, <2>5
<1>4. CASE ExecuteStep(r)
  <2>1. runFile' = runFile /\ engine[r].phase = "execute"
        /\ engine[r].saving = "no"
    BY <1>4 DEF ExecuteStep, Phase
  <2>2. /\ engine'[r].phase = "result" /\ engine'[r].saving = "read"
        /\ engine'[r].i = engine[r].i
    BY <1>0, <1>4, ExecuteFacts
  <2>3. r \notin rewritten =>
          Upto(engine[r].steps, engine[r].i, "RUNNING", "PENDING")
    BY <2>1 DEF Remembers
  <2>4. r \notin rewritten =>
          \A record : Fits(engine[r], record) => Fits(engine'[r], record)
    BY <2>1, <2>2, <2>3 DEF Fits
  <2> QED
    BY <1>0, <1>a, <2>1, <2>2, <2>4 DEF Filed, LeftBy, Writing
<1>8. CASE StepRaises(r)
  <2>1. runFile' = runFile /\ engine[r].phase = "execute"
        /\ engine[r].saving = "no"
    BY <1>8 DEF StepRaises, Phase
  <2>2. /\ engine'[r].phase = "raised" /\ engine'[r].saving = "read"
        /\ engine'[r].steps = engine[r].steps
    BY <1>0, <1>8, RaiseFacts DEF Keeps
  <2>3. \A record : Fits(engine[r], record) => Fits(engine'[r], record)
    BY <2>1, <2>2 DEF Fits
  <2> QED
    BY <1>0, <1>a, <2>1, <2>2, <2>3 DEF Filed, LeftBy, Writing
<1>5. CASE ReadRecord(r)
  <2>1. runFile' = runFile /\ engine[r].phase \in SavingPhases
        /\ engine[r].saving = "read"
    BY <1>0, <1>5 DEF ReadRecord, SavesInPhase
  <2>2. CASE r \in Readable
    <3>1. /\ engine'[r].i = engine[r].i /\ engine'[r].steps = engine[r].steps
          /\ engine'[r].phase = engine[r].phase
          /\ engine'[r].saving = "truncate"
          /\ engine'[r].record = Changed(r, runFile[r])
      BY <1>0, <1>5, <2>2, ReadFacts DEF Keeps
    <3>2. ~EditorAt(r)
      BY <1>0, <2>1, <3>1 DEF Reading
    <3>3. IsRecord(runFile[r]) /\ runFile[r] \in RunRecord
          /\ (r \notin rewritten => Fits(engine[r], runFile[r]))
      BY <1>0, <2>2 DEF Filed, PipelineTypeOK, IsRecord
    <3>4. r \notin rewritten => Writing(engine'[r])
      <4>1. Outcome(r) = FinalStatus(engine'[r])
        BY <3>1 DEF Outcome, FinalStatus
      <4> QED
        BY <1>0, <3>1, <3>3, <4>1, ChangedFacts DEF Writing, Fits
    <3>5. r \notin rewritten => Fits(engine'[r], runFile[r])
      BY <3>1, <3>3 DEF Fits
    <3> QED
      BY <1>a, <2>1, <3>1, <3>2, <3>3, <3>4, <3>5
      DEF Filed, LeftBy, IsRecord
  <2>3. CASE r \notin Readable
    <3>1. /\ engine'[r] = Saved(r)
          /\ Saved(r).phase # engine[r].phase
          /\ Saved(r).phase \notin {"untriggered", "numbered"}
          /\ Saved(r).saving \in {"no", "read"}
      BY <1>0, <1>5, <2>1, <2>3, ReadFacts, SavedFacts
    <3>2. ~EditorAt(r)
      BY <1>0, <2>1, <3>1 DEF Reading
    <3>3. runFile[r] = GoneRun
      BY <1>0, <2>1, <2>3, <3>2 DEF Filed, IsRecord
    <3> QED
      BY <1>0, <1>a, <2>1, <3>1, <3>2, <3>3
      DEF Filed, LeftBy, Writing, IsRecord
  <2> QED
    BY <2>2, <2>3
<1>6. CASE TruncateRecord(r)
  <2>1. /\ engine[r].saving = "truncate" /\ runFile'[r] = TornRun
        /\ engine[r].phase \in SavingPhases
    BY <1>0, <1>6 DEF TruncateRecord, SavesInPhase, PipelineTypeOK
  <2>2. /\ engine'[r].i = engine[r].i /\ engine'[r].steps = engine[r].steps
        /\ engine'[r].phase = engine[r].phase
        /\ engine'[r].saving = "write"
        /\ engine'[r].record = engine[r].record
    BY <1>0, <1>6, TruncateFacts DEF Keeps
  <2>3. ~EditorAt(r)
    BY <2>1 DEF Filed, Meeting
  <2>4. r \notin deleted
    BY <2>1 DEF Filed, LeftBy, IsRecord
  <2>5. r \notin rewritten => Writing(engine'[r])
    BY <2>1, <2>2 DEF Filed, Writing, FinalStatus
  <2> QED
    BY <1>0, <1>a, <2>1, <2>2, <2>3, <2>4, <2>5
    DEF Filed, LeftBy, IsRecord, SavingPhases
<1>7. CASE WriteRecord(r)
  <2>1. /\ engine[r].saving \in {"write", "unlinked"}
        /\ engine[r].phase \in SavingPhases
        /\ engine[r].saving = "unlinked" => runFile' = runFile
        /\ engine[r].saving = "write" => runFile'[r] = engine[r].record
    BY <1>0, <1>7 DEF WriteRecord, SavesInPhase, PipelineTypeOK
  <2>2. /\ engine'[r] = Saved(r)
        /\ Saved(r).phase \notin {"untriggered", "numbered"}
        /\ Saved(r).saving \in {"no", "read"}
    BY <1>0, <1>7, <2>1, WriteFacts, SavedFacts
  <2>3. ~EditorAt(r)
    BY <2>1 DEF Filed, Meeting
  <2>4. CASE engine[r].saving = "unlinked"
    <3>1. runFile'[r] = GoneRun
      BY <2>1, <2>4 DEF Filed, LeftBy
    <3> QED
      BY <1>0, <1>a, <2>2, <2>3, <3>1 DEF Filed, LeftBy, Writing, IsRecord
  <2>5. CASE engine[r].saving = "write"
    <3>1. runFile[r] = TornRun
          /\ (r \notin rewritten => Writing(engine[r]))
      BY <2>5 DEF Filed, LeftBy
    <3>2. r \notin deleted
      BY <1>0, <3>1 DEF Filed
    <3>3. r \notin rewritten => Fits(Saved(r), engine[r].record)
      BY <1>0, <2>1, <2>5, <3>1, FitsSaved
    <3>4. runFile'[r] \in RunRecord
      BY <1>0, <2>1, <2>5 DEF PipelineTypeOK, Thread
    <3>5. runFile'[r] # TornRun /\ IsRecord(runFile'[r])
      BY <3>4, NoSuchRecord DEF IsRecord
    <3> QED
      BY <1>a, <2>1, <2>2, <2>3, <2>5, <3>2, <3>3, <3>5
      DEF Filed, LeftBy, Writing
  <2> QED
    BY <2>1, <2>4, <2>5
<1> QED
  BY <1>1, <1>2, <1>3, <1>4, <1>5, <1>6, <1>7, <1>8
  DEF EngineStep, CommandEnds, ThreadGoesOn

(* Every step keeps what the runs remember true.                           *)
LEMMA NextThread ==
  PipelineTypes /\ ThreadInv /\ FilesInv /\ [PipelineNext]_pipelineVars
    => ThreadInv'
<1> SUFFICES ASSUME PipelineTypes, ThreadInv, FilesInv,
                    [PipelineNext]_pipelineVars, ~crossed',
                    NEW q \in PipelineRuns \ rewritten'
             PROVE  Remembers(engine'[q])
  BY DEF ThreadInv
<1>c. ~crossed /\ q \in PipelineRuns \ rewritten
  BY CrossedStays, RewrittenStays
<1>0. PipelineTypeOK /\ SavesInPhase /\ Remembers(engine[q])
  BY <1>c DEF PipelineTypes, ThreadInv
<1>b. engine'[q] = engine[q] => Remembers(engine'[q])
  BY <1>0
<1>1. CASE NumberRun(q)
  <2>1. engine[q] = Untriggered
    BY <1>0, <1>1 DEF NumberRun, Phase, Remembers
  <2>2. engine'[q].phase = "numbered" /\ engine'[q].steps = AllPending
        /\ engine'[q].record.steps = AllPending
    BY <1>1, <2>1, NumberFacts DEF Keeps, Untriggered, NoRecord
  <2> QED
    BY <2>2 DEF Remembers
<1>2. CASE CreateRun(q)
  BY <1>0, <1>2, CreateFacts DEF Remembers
<1>3. CASE LoadRun(q)
  <2>1. engine[q].phase = "load" /\ Filed(q)
    BY <1>3, <1>c DEF LoadRun, Phase, FilesInv
  <2>2. CASE q \in Readable
    <3>1. runFile[q].steps = AllPending
      BY <1>c, <2>1, <2>2 DEF Filed, Fits, IsRecord, Readable
    <3>2. engine'[q].phase = "begin" /\ engine'[q].steps = AllPending
      BY <1>0, <1>3, <2>2, <3>1, LoadFacts
    <3> QED
      BY <3>2 DEF Remembers
  <2>3. CASE q \notin Readable
    BY <1>0, <1>3, <2>3, LoadFacts DEF Remembers
  <2> QED
    BY <2>2, <2>3
<1>4. CASE ExecuteStep(q)
  <2>1. Upto(engine[q].steps, engine[q].i, "RUNNING", "PENDING")
    BY <1>0, <1>4 DEF ExecuteStep, Phase, Remembers
  <2>2. PICK status \in Final :
          engine'[q].steps = [engine[q].steps EXCEPT ![engine[q].i] = status]
    BY <1>0, <1>4, ExecuteFacts
  <2>3. engine'[q].i = engine[q].i /\ engine'[q].phase = "result"
    BY <1>0, <1>4, ExecuteFacts
  <2>4. engine[q].steps \in Steps /\ engine[q].i \in 1..StepCount
    BY <1>0, NextSteps
  <2>5. Upto(engine'[q].steps, engine[q].i, status, "PENDING")
    BY <2>1, <2>2, <2>4, UptoStep
  <2> QED
    BY <2>3, <2>5 DEF Remembers
<1>r. CASE StepRaises(q)
  <2>1. engine[q].phase = "execute"
    BY <1>r DEF StepRaises, Phase
  <2> QED
    BY <1>0, <1>r, <2>1, RaiseFacts DEF Remembers, Keeps
<1>5. CASE ReadRecord(q)
  <2>1. engine[q].phase \in SavingPhases
    BY <1>0, <1>5 DEF ReadRecord, SavesInPhase
  <2>2. CASE q \in Readable
    BY <1>0, <1>5, <2>1, <2>2, ReadFacts
    DEF Remembers, Keeps, SavingPhases, Failed, Succeeded
  <2>3. CASE q \notin Readable
    BY <1>0, <1>5, <2>1, <2>3, ReadFacts, RememberSaved
  <2> QED
    BY <2>2, <2>3
<1>6. CASE TruncateRecord(q)
  <2>1. engine[q].phase \in SavingPhases
    BY <1>0, <1>6 DEF TruncateRecord, SavesInPhase
  <2> QED
    BY <1>0, <1>6, <2>1, TruncateFacts
    DEF Remembers, Keeps, SavingPhases, Failed, Succeeded
<1>7. CASE WriteRecord(q)
  <2>1. engine[q].phase \in SavingPhases
    BY <1>0, <1>7 DEF WriteRecord, SavesInPhase
  <2> QED
    BY <1>0, <1>7, <2>1, WriteFacts, RememberSaved
<1>8. ASSUME NEW r \in PipelineRuns, EngineStep(r)
      PROVE  Remembers(engine'[q])
  <2>1. CASE r = q
    BY <1>1, <1>2, <1>3, <1>4, <1>5, <1>6, <1>7, <1>8, <1>r, <2>1
    DEF EngineStep, CommandEnds, ThreadGoesOn
  <2>2. CASE r # q
    BY <1>8, <1>b, <2>2, EngineFacts DEF OnlyThread
  <2> QED
    BY <2>1, <2>2
<1>9. ASSUME NEW r \in PipelineRuns, DeleteRun(r)
      PROVE  Remembers(engine'[q])
  <2>1. /\ engine'[q].phase = engine[q].phase /\ engine'[q].i = engine[q].i
        /\ engine'[q].steps = engine[q].steps
        /\ engine'[q].record = engine[q].record
    BY <1>0, <1>9, DeleteFacts
  <2>2. engine[q].phase = "untriggered" => engine'[q] = engine[q]
    BY <1>0, <1>9, DeleteFacts DEF SavesInPhase, SavingPhases
  <2> QED
    BY <1>0, <2>1, <2>2 DEF Remembers, Failed, Succeeded
<1>10. CASE PipelineRestart
  <2>1. CASE engine[q].phase = "untriggered"
    <3>1. engine'[q] = engine[q]
      BY <1>10, <2>1 DEF PipelineRestart
    <3> QED
      BY <1>b, <3>1
  <2>2. CASE engine[q].phase # "untriggered"
    <3>1. engine'[q].phase = "over"
      BY <1>10, <2>2 DEF PipelineRestart, Untriggered
    <3> QED
      BY <3>1 DEF Remembers
  <2> QED
    BY <2>1, <2>2
<1> QED
  BY <1>8, <1>9, <1>10, <1>b
  DEF PipelineNext, ClientStep, PutRun, PutTruncates, PutWrites, pipelineVars

(* Every step keeps the files true to their runs.                          *)
LEMMA NextFiled ==
  PipelineTypes /\ ThreadInv /\ FilesInv /\ [PipelineNext]_pipelineVars
    => FilesInv'
<1> SUFFICES ASSUME PipelineTypes, ThreadInv, FilesInv,
                    [PipelineNext]_pipelineVars, ~crossed',
                    NEW q \in PipelineRuns
             PROVE  Filed(q)'
  BY DEF FilesInv
<1>0. PipelineTypeOK /\ SavesInPhase /\ GoneRun # TornRun
      /\ runFile \in [PipelineRuns -> RunRecord \cup {GoneRun, TornRun}]
  BY NoSuchRecord DEF PipelineTypes, PipelineTypeOK
<1>a. ~crossed /\ \A r \in PipelineRuns : Filed(r)
  BY CrossedStays DEF PipelineTypes, FilesInv
<1>e. editor # NoEdit => editor \in Edit /\ editor.run \in PipelineRuns
                         /\ editor.record \in RunRecord
  BY <1>0 DEF PipelineTypeOK, Edit
<1>b. /\ \A r \in PipelineRuns \ rewritten : Remembers(engine[r])
      /\ \A r \in PipelineRuns : r \notin rewritten' => r \notin rewritten
  BY <1>a, RewrittenStays DEF ThreadInv
<1>1. ASSUME NEW r \in PipelineRuns, EngineStep(r), Noting
      PROVE  Filed(q)'
  <2>1. CASE q = r
    BY <1>1, <1>a, <1>b, <2>1, EngineFiled
  <2>2. CASE q # r
    <3>1. /\ OnlyThread(r) /\ editor' = editor /\ deleted' = deleted
          /\ runFile'[q] = runFile[q] /\ rewritten' = rewritten
      BY <1>1, <2>2, EngineFacts
    <3> QED
      BY <1>a, <2>2, <3>1, FiledStays DEF OnlyThread, EditorAt
  <2> QED
    BY <2>1, <2>2
<1>2. ASSUME NEW r \in PipelineRuns, PutRun(r), Noting
      PROVE  Filed(q)'
  <2>1. /\ editor = NoEdit /\ r \in Readable
        /\ UNCHANGED <<runFile, engine, deleted>>
        /\ editor' \in Edit
        /\ editor'.run = r /\ editor'.saving = "truncate"
        /\ r \notin rewritten' =>
             editor'.record.steps = runFile[r].steps
    BY <1>2, PutFacts
  <2>3. ~EditorAt(q) /\ ~Meeting(r)' /\ IsRecord(runFile[r])
    BY <1>2, <2>1, NotCrossed DEF EditorAt, Readable, IsRecord
  <2>4. CASE q # r
    <3>1. ~EditorAt(q)'
      BY <2>1, <2>4 DEF EditorAt
    <3> QED
      BY <1>a, <1>b, <2>1, <2>3, <3>1, FiledStays
  <2>5. CASE q = r
    <3>1. EditorAt(q)'
      BY <2>1, <2>5, NoSuchRecord DEF EditorAt
    <3>2. engine[r].phase # "over"
      BY <2>1, <2>3, <2>5, <3>1 DEF Meeting
    <3>5. r \notin rewritten' => Fits(engine[r], editor'.record)
      BY <1>a, <1>b, <2>1, <2>3, <3>2 DEF Filed, Fits
    <3> QED
      BY <1>a, <1>b, <2>1, <2>3, <2>5, <3>1, <3>5
      DEF Filed, LeftBy, IsRecord
  <2> QED
    BY <2>4, <2>5
<1>3. CASE PutTruncates /\ Noting
  <2> DEFINE e == editor.run
  <2>1. /\ editor # NoEdit /\ editor.saving = "truncate"
        /\ runFile' = [runFile EXCEPT ![e] = TornRun]
        /\ editor' = [editor EXCEPT !.saving = "write"]
        /\ UNCHANGED <<engine, deleted, rewritten>>
    BY <1>3 DEF PutTruncates, NoEdit
  <2>2. /\ editor'.saving = "write" /\ editor'.run = e
        /\ editor'.record = editor.record /\ editor' # NoEdit
    BY <1>e, <2>1 DEF Edit, NoEdit
  <2>3. CASE q # e
    <3>1. ~EditorAt(q) /\ ~EditorAt(q)' /\ runFile'[q] = runFile[q]
      BY <1>0, <2>1, <2>2, <2>3 DEF EditorAt
    <3> QED
      BY <1>a, <2>1, <3>1, FiledStays
  <2>4. CASE q = e
    <3>1. EditorAt(q) /\ EditorAt(q)' /\ runFile'[q] = TornRun
      BY <1>0, <2>1, <2>2, <2>4 DEF EditorAt
    <3>2. IsRecord(runFile[q])
      BY <1>a, <2>1, <3>1 DEF Filed, LeftBy
    <3>3. q \notin deleted
          /\ engine[q].phase \notin {"untriggered", "numbered"}
      BY <1>a, <3>2 DEF Filed, IsRecord
    <3>4. engine[q].saving \notin {"truncate", "write", "unlinked"}
          /\ ~Meeting(q)'
      BY <1>3, <1>a, <3>1, NotCrossed DEF Filed, Meeting
    <3> QED
      BY <1>0, <1>a, <2>1, <2>2, <3>1, <3>3, <3>4
      DEF Filed, LeftBy, IsRecord, Writing
  <2> QED
    BY <2>3, <2>4
<1>4. CASE PutWrites /\ Noting
  <2> DEFINE e == editor.run
  <2>1. /\ editor # NoEdit /\ editor.saving \in {"write", "unlinked"}
        /\ editor' = NoEdit
        /\ UNCHANGED <<engine, deleted, rewritten>>
        /\ editor.saving = "unlinked" => runFile' = runFile
        /\ editor.saving = "write" =>
             runFile' = [runFile EXCEPT ![e] = editor.record]
    BY <1>4 DEF PutWrites, NoEdit
  <2>2. ~EditorAt(q)'
    BY <2>1 DEF EditorAt
  <2>3. CASE q # e
    <3>1. ~EditorAt(q) /\ runFile'[q] = runFile[q]
      BY <1>0, <2>1, <2>3 DEF EditorAt
    <3> QED
      BY <1>a, <2>1, <2>2, <3>1, FiledStays
  <2>4. CASE q = e
    <3>1. EditorAt(q)
      BY <2>1, <2>4 DEF EditorAt
    <3>2. engine[q].saving \notin {"truncate", "write", "unlinked"}
      BY <1>a, <3>1 DEF Filed, Meeting
    <3>3. CASE editor.saving = "unlinked"
      <4>1. runFile'[q] = GoneRun /\ runFile[q] = GoneRun
        BY <1>a, <2>1, <3>1, <3>3 DEF Filed, LeftBy
      <4> QED
        BY <1>0, <1>a, <2>1, <2>2, <3>2, <4>1
        DEF Filed, LeftBy, IsRecord, Writing
    <3>4. CASE editor.saving = "write"
      <4>1. runFile[q] = TornRun
        BY <1>a, <3>1, <3>4 DEF Filed, LeftBy
      <4>2. q \notin deleted
            /\ engine[q].phase \notin {"untriggered", "numbered"}
        BY <1>0, <1>a, <4>1 DEF Filed
      <4>3. runFile'[q] = editor.record /\ editor.record \in RunRecord
        BY <1>0, <1>e, <2>1, <2>4, <3>4
      <4>4. q \notin rewritten => Fits(engine[q], editor.record)
        BY <1>a, <3>1, <3>4 DEF Filed
      <4>5. runFile'[q] # TornRun /\ IsRecord(runFile'[q])
        BY <4>3, NoSuchRecord DEF IsRecord
      <4> QED
        BY <2>1, <2>2, <3>2, <4>2, <4>3, <4>4, <4>5
        DEF Filed, LeftBy, Writing
    <3> QED
      BY <2>1, <3>3, <3>4
  <2> QED
    BY <2>3, <2>4
<1>5. ASSUME NEW r \in PipelineRuns, DeleteRun(r), Noting
      PROVE  Filed(q)'
  <2>1. /\ runFile[r] # GoneRun
        /\ runFile' = [runFile EXCEPT ![r] = GoneRun]
        /\ deleted' = deleted \cup {r} /\ rewritten' = rewritten
    BY <1>5 DEF DeleteRun
  <2>2. /\ engine'[q].phase = engine[q].phase /\ engine'[q].i = engine[q].i
        /\ engine'[q].steps = engine[q].steps
        /\ engine'[q].record = engine[q].record
        /\ q # r \/ engine[q].saving # "write" => engine'[q] = engine[q]
        /\ engine[r].saving = "write" => engine'[r].saving = "unlinked"
    BY <1>0, <1>5, DeleteFacts
  <2>3. /\ ~EditorAt(r) => editor' = editor
        /\ EditorAt(r) =>
             /\ editor' = [editor EXCEPT !.saving = Unlinked(editor.saving)]
             /\ editor'.run = editor.run /\ editor' # NoEdit
             /\ editor'.saving = Unlinked(editor.saving)
    <3>1. ~EditorAt(r) => editor' = editor
      BY <1>5 DEF DeleteRun, EditorAt
    <3>2. ASSUME EditorAt(r)
          PROVE  /\ editor' = [editor EXCEPT !.saving = Unlinked(editor.saving)]
                 /\ editor'.run = editor.run /\ editor' # NoEdit
                 /\ editor'.saving = Unlinked(editor.saving)
      <4>1. editor' = [editor EXCEPT !.saving = Unlinked(editor.saving)]
        BY <1>5, <3>2 DEF DeleteRun, EditorAt
      <4>2. editor \in Edit /\ Unlinked(editor.saving) \in Saving \ {"no"}
        BY <1>e, <3>2 DEF EditorAt, Edit, Unlinked, Saving
      <4>3. editor' \in Edit /\ editor'.run = editor.run
            /\ editor'.saving = Unlinked(editor.saving)
        BY <4>1, <4>2 DEF Edit
      <4> QED
        BY <4>1, <4>3, NoSuchRecord
    <3> QED
      BY <3>1, <3>2
  <2>4. CASE q # r
    <3>1. runFile'[q] = runFile[q] /\ engine'[q] = engine[q]
          /\ (q \in deleted' <=> q \in deleted)
      BY <1>0, <2>1, <2>2, <2>4
    <3>2. EditorAt(q) => ~EditorAt(r)
      BY <2>4 DEF EditorAt
    <3>3. EditorAt(q)' => EditorAt(q)
      BY <2>3 DEF EditorAt
    <3> QED
      BY <1>a, <2>1, <2>3, <3>1, <3>2, <3>3, FiledStays
  <2>5. CASE q = r
    <3>1. runFile'[r] = GoneRun
      BY <1>0, <2>1
    <3>2. /\ r \notin deleted /\ ~Reviving(r) /\ ~Meeting(r)'
          /\ engine[r].phase \notin {"untriggered", "numbered"}
      BY <1>5, <1>a, <2>1, NotCrossed DEF Filed
    <3>3. engine'[r].saving \notin {"truncate", "write"}
      <4>1. CASE engine[r].saving = "write"
        BY <2>2, <4>1
      <4>2. CASE engine[r].saving # "write"
        BY <2>2, <2>5, <3>2, <4>2 DEF Reviving
      <4> QED
        BY <4>1, <4>2
    <3>4. EditorAt(r)' => EditorAt(r) /\ editor'.saving = "unlinked"
      <4>1. EditorAt(r)' => EditorAt(r)
        BY <2>3 DEF EditorAt
      <4>2. ASSUME EditorAt(r) PROVE editor'.saving = "unlinked"
        <5>1. editor.saving \in {"truncate", "write", "unlinked"}
              /\ editor.saving # "truncate"
          BY <1>a, <3>2, <4>2 DEF Filed, Reviving
        <5> QED
          BY <2>3, <4>2, <5>1 DEF Unlinked
      <4> QED
        BY <4>1, <4>2
    <3> QED
      BY <1>0, <2>1, <2>2, <2>5, <3>1, <3>2, <3>3, <3>4
      DEF Filed, LeftBy, IsRecord, Writing
  <2> QED
    BY <2>4, <2>5
<1>6. CASE PipelineRestart /\ crossed' = (crossed \/ Unfinished)
  <2>1. editor' = NoEdit /\ UNCHANGED <<runFile, deleted, rewritten>>
    BY <1>6 DEF PipelineRestart
  <2>2. engine[q].phase \in {"untriggered", "over"}
    BY <1>6 DEF Unfinished
  <2>3. engine[q].saving = "no"
    BY <1>0, <2>2 DEF SavesInPhase, SavingPhases
  <2>4. ~EditorAt(q)'
    BY <2>1 DEF EditorAt
  <2>5. runFile[q] # TornRun
    <3>1. engine[q].phase = "over" => ~EditorAt(q)
      BY <1>a DEF Filed, Meeting
    <3> QED
      BY <1>0, <1>a, <2>2, <2>3, <3>1 DEF Filed
  <2>6. /\ engine'[q].phase = engine[q].phase
        /\ engine'[q].saving = "no"
    BY <1>6, <2>2, <2>3 DEF PipelineRestart, Untriggered
  <2> QED
    BY <1>a, <2>1, <2>2, <2>3, <2>4, <2>5, <2>6
    DEF Filed, LeftBy, Writing, Fits
<1>7. CASE UNCHANGED pipelineVars
  BY <1>7, <1>a, FiledStays DEF pipelineVars, EditorAt
<1> QED
  BY <1>1, <1>2, <1>3, <1>4, <1>5, <1>6, <1>7 DEF PipelineNext, ClientStep

-----------------------------------------------------------------------------
(* A run carries a number: its record has it, or one that is about to be   *)
(* written there.  What carries a number keeps it, and no two carry the    *)
(* same, if neither was numbered while the other could not be seen and no  *)
(* client wrote it.                                                        *)
Carries(r, n) ==
  \/ IsRecord(runFile[r]) /\ runFile[r].number = n
  \/ engine[r].phase = "numbered" /\ engine[r].record.number = n
  \/ engine[r].saving \in {"truncate", "write"} /\ engine[r].record.number = n
  \/ /\ EditorAt(r) /\ editor.saving \in {"truncate", "write"}
     /\ editor.record.number = n
Numbers == 1..Cardinality(PipelineRuns)
NumberInv ==
  ~crossed => \A r, q \in PipelineRuns \ rewritten : \A n, m \in Numbers :
    Carries(r, n) /\ Carries(q, m) =>
      /\ r = q => n = m
      /\ r # q /\ <<r, q>> \notin miscounted /\ <<q, r>> \notin miscounted
           => n # m

(* Only the numbering gives a run a number, or a client who writes it.     *)
LEMMA CarriedBefore ==
  ASSUME PipelineTypes, [PipelineNext]_pipelineVars,
         NEW q \in PipelineRuns \ rewritten', ~NumberRun(q),
         NEW n, Carries(q, n)'
  PROVE  Carries(q, n)
<1>0. PipelineTypeOK /\ SavesInPhase /\ GoneRun # TornRun
      /\ runFile \in [PipelineRuns -> RunRecord \cup {GoneRun, TornRun}]
  BY NoSuchRecord DEF PipelineTypes, PipelineTypeOK
<1>a. ASSUME engine'[q] = engine[q], runFile'[q] = runFile[q],
             editor' = editor
      PROVE  Carries(q, n)
  BY <1>a DEF Carries, EditorAt
<1>e. editor # NoEdit => editor \in Edit /\ editor.run \in PipelineRuns
                         /\ editor.record \in RunRecord
  BY <1>0 DEF PipelineTypeOK, Edit
<1>1. ASSUME NEW r \in PipelineRuns, r # q, EngineStep(r)
      PROVE  Carries(q, n)
  BY <1>1, <1>a, EngineFacts DEF OnlyThread
<1>2. CASE CreateRun(q)
  <2>1. /\ engine[q].phase = "numbered" /\ editor' = editor
        /\ runFile'[q] = engine[q].record
    BY <1>0, <1>2 DEF CreateRun, Phase, outside
  <2>2. engine'[q].phase = "load" /\ engine'[q].saving = "no"
    BY <1>0, <1>2, CreateFacts
  <2> QED
    BY <2>1, <2>2 DEF Carries, EditorAt
<1>3. CASE LoadRun(q)
  <2>1. runFile' = runFile /\ editor' = editor
    BY <1>3 DEF LoadRun, outside
  <2>2. engine'[q].phase \in {"begin", "over"}
        /\ engine'[q].saving \in {"read", "no"}
    BY <1>0, <1>3, LoadFacts
  <2> QED
    BY <2>1, <2>2 DEF Carries, EditorAt
<1>4. CASE ExecuteStep(q)
  <2>1. runFile' = runFile /\ editor' = editor
    BY <1>4 DEF ExecuteStep, outside
  <2>2. engine'[q].phase = "result" /\ engine'[q].saving = "read"
    BY <1>0, <1>4, ExecuteFacts
  <2> QED
    BY <2>1, <2>2 DEF Carries, EditorAt
<1>r. CASE StepRaises(q)
  <2>1. runFile' = runFile /\ editor' = editor
    BY <1>r DEF StepRaises, outside
  <2>2. engine'[q].phase = "raised" /\ engine'[q].saving = "read"
    BY <1>0, <1>r, RaiseFacts
  <2> QED
    BY <2>1, <2>2 DEF Carries, EditorAt
<1>s. ASSUME engine[q].saving # "no"
      PROVE  /\ engine[q].phase \in SavingPhases
             /\ Saved(q).phase # "numbered"
             /\ Saved(q).saving \in {"no", "read"}
  BY <1>0, <1>s, SavedFacts DEF SavesInPhase
<1>5. CASE ReadRecord(q)
  <2>1. runFile' = runFile /\ editor' = editor /\ engine[q].saving = "read"
    BY <1>5 DEF ReadRecord, outside
  <2>2. CASE q \in Readable
    <3>1. /\ engine'[q].phase = engine[q].phase
          /\ engine'[q].record = Changed(q, runFile[q])
      BY <1>0, <1>5, <2>2, ReadFacts
    <3>2. IsRecord(runFile[q]) /\ runFile[q] \in RunRecord
      BY <1>0, <2>2 DEF Readable, IsRecord
    <3>3. engine'[q].record.number = runFile[q].number
      BY <1>0, <3>1, <3>2, ChangedFacts
    <3>4. engine'[q].phase # "numbered"
      BY <1>s, <2>1, <3>1 DEF SavingPhases
    <3> QED
      BY <2>1, <3>2, <3>3, <3>4 DEF Carries, EditorAt
  <2>3. CASE q \notin Readable
    <3>1. engine'[q] = Saved(q)
      BY <1>0, <1>5, <2>3, ReadFacts
    <3> QED
      BY <1>s, <2>1, <3>1 DEF Carries, EditorAt
  <2> QED
    BY <2>2, <2>3
<1>6. CASE TruncateRecord(q)
  <2>1. runFile'[q] = TornRun /\ editor' = editor
        /\ engine[q].saving = "truncate"
    BY <1>0, <1>6 DEF TruncateRecord, outside
  <2>2. /\ engine'[q].phase = engine[q].phase
        /\ engine'[q].record = engine[q].record
    BY <1>0, <1>6, TruncateFacts
  <2> QED
    BY <2>1, <2>2 DEF Carries, EditorAt, IsRecord
<1>7. CASE WriteRecord(q)
  <2>1. /\ editor' = editor /\ engine[q].saving # "no"
        /\ \/ runFile' = runFile
           \/ engine[q].saving = "write" /\ runFile'[q] = engine[q].record
    BY <1>0, <1>7 DEF WriteRecord, outside
  <2>2. engine'[q] = Saved(q)
    BY <1>0, <1>7, WriteFacts
  <2> QED
    BY <1>s, <2>1, <2>2 DEF Carries, EditorAt
<1>8. ASSUME NEW r \in PipelineRuns, PutRun(r)
      PROVE  Carries(q, n)
  <2>1. /\ r \in Readable /\ UNCHANGED <<runFile, engine>>
        /\ editor = NoEdit /\ editor'.run = r
        /\ r \notin rewritten' =>
             editor'.record.number = runFile[r].number
    BY <1>8, PutFacts
  <2>2. IsRecord(runFile[r])
    BY <2>1 DEF Readable, IsRecord
  <2> QED
    BY <2>1, <2>2 DEF Carries, EditorAt
<1>9. CASE PutTruncates
  <2>1. /\ editor # NoEdit /\ editor.saving = "truncate"
        /\ runFile' = [runFile EXCEPT ![editor.run] = TornRun]
        /\ editor' = [editor EXCEPT !.saving = "write"]
        /\ engine' = engine
    BY <1>9 DEF PutTruncates, NoEdit
  <2>2. /\ editor'.run = editor.run /\ editor'.record = editor.record
        /\ runFile'[q] \in {runFile[q], TornRun}
    BY <1>0, <1>e, <2>1 DEF Edit
  <2> QED
    BY <2>1, <2>2 DEF Carries, EditorAt, IsRecord
<1>10. CASE PutWrites
  <2>1. /\ editor # NoEdit /\ editor' = NoEdit /\ engine' = engine
        /\ \/ runFile' = runFile
           \/ /\ editor.saving = "write"
              /\ runFile' = [runFile EXCEPT ![editor.run] = editor.record]
    BY <1>10 DEF PutWrites, NoEdit
  <2>2. \/ runFile'[q] = runFile[q]
        \/ EditorAt(q) /\ editor.saving = "write"
             /\ runFile'[q] = editor.record
    BY <1>0, <2>1 DEF EditorAt
  <2> QED
    BY <2>1, <2>2 DEF Carries, EditorAt
<1>11. ASSUME NEW r \in PipelineRuns, DeleteRun(r)
       PROVE  Carries(q, n)
  <2>1. runFile'[q] \in {runFile[q], GoneRun}
    BY <1>0, <1>11 DEF DeleteRun
  <2>2. /\ engine'[q].phase = engine[q].phase
        /\ engine'[q].record = engine[q].record
        /\ engine'[q].saving \in {"truncate", "write"} =>
             engine'[q] = engine[q]
    <3>1. q # r \/ engine[q].saving # "write" => engine'[q] = engine[q]
      BY <1>0, <1>11, DeleteFacts
    <3> QED
      BY <1>0, <1>11, <3>1, DeleteFacts
  <2>3. EditorAt(q)' /\ editor'.saving \in {"truncate", "write"} =>
          editor' = editor
    <3>1. CASE ~EditorAt(r)
      BY <1>11, <3>1 DEF DeleteRun, EditorAt
    <3>2. CASE EditorAt(r)
      <4>1. editor' = [editor EXCEPT !.saving = Unlinked(editor.saving)]
        BY <1>11, <3>2 DEF DeleteRun, EditorAt
      <4>2. editor \in Edit
        BY <1>e, <3>2 DEF EditorAt
      <4>3. editor'.saving = Unlinked(editor.saving)
            /\ (editor.saving # "write" => editor' = editor)
        BY <4>1, <4>2 DEF Edit, Unlinked
      <4> QED
        BY <4>3 DEF Unlinked
    <3> QED
      BY <3>1, <3>2
  <2> QED
    BY <2>1, <2>2, <2>3 DEF Carries, EditorAt, IsRecord
<1>12. CASE PipelineRestart
  <2>1. editor' = NoEdit /\ runFile' = runFile
    BY <1>12 DEF PipelineRestart
  <2>2. engine'[q] = engine[q]
        \/ engine'[q] = [Untriggered EXCEPT !.phase = "over"]
    BY <1>12 DEF PipelineRestart
  <2>3. [Untriggered EXCEPT !.phase = "over"].phase = "over"
        /\ [Untriggered EXCEPT !.phase = "over"].saving = "no"
    BY DEF Untriggered
  <2> QED
    BY <2>1, <2>2, <2>3 DEF Carries, EditorAt
<1>13. CASE UNCHANGED pipelineVars
  BY <1>13, <1>a DEF pipelineVars
<1> QED
  BY <1>1, <1>2, <1>3, <1>4, <1>5, <1>6, <1>7, <1>8, <1>9, <1>10, <1>11,
     <1>12, <1>13, <1>r
  DEF PipelineNext, EngineStep, CommandEnds, ThreadGoesOn, ClientStep

(* A run that is numbered is the only one to get a number, and the number  *)
(* exceeds that of every run it can see.                                   *)
LEMMA NumberedApart ==
  ASSUME PipelineTypes, FilesInv, NumberInv, ~crossed,
         NEW r \in PipelineRuns, NumberRun(r)
  PROVE  /\ \A n : Carries(r, n)' => n = Highest + 1
         /\ \A q \in PipelineRuns : q # r =>
              \A n : Carries(q, n)' <=> Carries(q, n)
         /\ \A q \in PipelineRuns \ rewritten, n \in Numbers :
              q # r /\ q \notin Unseen(r) /\ Carries(q, n) => n <= Highest
<1>0. PipelineTypeOK /\ SavesInPhase
      /\ \A q \in PipelineRuns : Filed(q)
  BY DEF PipelineTypes, FilesInv
<1>1. /\ runFile' = runFile /\ editor' = editor
      /\ engine[r].phase = "untriggered"
  BY DEF NumberRun, Phase, outside
<1>2. /\ engine'[r].saving = "no" /\ engine'[r].phase = "numbered"
      /\ engine'[r].record.number = Highest + 1
      /\ \A q \in PipelineRuns \ {r} : engine'[q] = engine[q]
  BY NumberFacts DEF OnlyThread
<1>3. runFile[r] = GoneRun
  BY <1>0, <1>1 DEF Filed
<1>4. ~(EditorAt(r) /\ editor.saving \in {"truncate", "write"})
  BY <1>0, <1>3, NoSuchRecord DEF Filed, LeftBy, IsRecord
<1>5. \A n : Carries(r, n)' => n = Highest + 1
  BY <1>1, <1>2, <1>3, <1>4 DEF Carries, IsRecord, EditorAt
<1>6. \A q \in PipelineRuns : q # r =>
        \A n : Carries(q, n)' <=> Carries(q, n)
  BY <1>1, <1>2 DEF Carries, EditorAt
<1>7. ASSUME NEW q \in PipelineRuns \ rewritten, NEW n \in Numbers, q # r,
             q \notin Unseen(r), Carries(q, n)
      PROVE  n <= Highest
  <2>1. runFile[q] # TornRun
    BY <1>7 DEF Unseen
  <2>2. engine[q].phase # "numbered"
    <3>1. engine[q].phase = "numbered" => engine[q].saving = "no"
      BY <1>0 DEF SavesInPhase, SavingPhases
    <3> QED
      BY <1>7, <3>1 DEF Unseen, Phase
  <2>3. IsRecord(runFile[q])
    BY <1>0, <1>7, <2>1, <2>2 DEF Carries, Filed, LeftBy
  <2>4. runFile[q] \in RunRecord /\ q \in Readable
    BY <1>0, <2>3 DEF IsRecord, PipelineTypeOK, Readable
  <2>5. runFile[q].number \in Numbers
    BY <2>4 DEF RunRecord, Numbers
  <2>6. Carries(q, runFile[q].number)
    BY <2>3 DEF Carries
  <2>7. n = runFile[q].number
    BY <1>7, <2>5, <2>6 DEF NumberInv
  <2> QED
    BY <1>0, <2>4, <2>7, HighestFacts
<1> QED
  BY <1>5, <1>6, <1>7

(* At the start nobody has a number.                                       *)
LEMMA InitNumbered == PipelineInit => NumberInv
<1> SUFFICES ASSUME PipelineInit, NEW r \in PipelineRuns, NEW n
             PROVE  ~Carries(r, n)
  BY DEF NumberInv
<1> QED
  BY DEF PipelineInit, Carries, IsRecord, EditorAt, Untriggered

(* Every step keeps the numbers apart.                                     *)
LEMMA NextNumbered ==
  PipelineTypes /\ FilesInv /\ NumberInv /\ [PipelineNext]_pipelineVars
    => NumberInv'
<1> SUFFICES ASSUME PipelineTypes, FilesInv, NumberInv,
                    [PipelineNext]_pipelineVars, ~crossed',
                    NEW r \in PipelineRuns \ rewritten',
                    NEW q \in PipelineRuns \ rewritten',
                    NEW n \in Numbers, NEW m \in Numbers,
                    Carries(r, n)', Carries(q, m)'
             PROVE  /\ r = q => n = m
                    /\ r # q /\ <<r, q>> \notin miscounted'
                           /\ <<q, r>> \notin miscounted' => n # m
  BY DEF NumberInv, Numbers
<1>1. ~crossed /\ rewritten \subseteq rewritten'
  BY CrossedStays, RewrittenStays
<1>2. miscounted \subseteq miscounted'
  BY DEF PipelineNext, Noting, pipelineVars
<1>a. ASSUME NEW p \in PipelineRuns, NEW o \in PipelineRuns, NumberRun(p),
             <<p, o>> \notin miscounted'
      PROVE  o \notin Unseen(p)
  <2>1. Noting
    <3>1. CASE PipelineRestart
      <4>1. engine'[p] = engine[p] /\ engine[p].phase = "untriggered"
        BY <1>a, <3>1 DEF NumberRun, PipelineRestart, Phase
      <4> QED
        BY <1>a, <4>1, NumberFacts
    <3>2. CASE UNCHANGED pipelineVars
      BY <1>a, <3>2, NumberFacts DEF pipelineVars, NumberRun, Phase
    <3> QED
      BY <3>1, <3>2 DEF PipelineNext
  <2>2. Phase(p, "untriggered") /\ Phase(p, "numbered")'
    BY <1>a, NumberFacts DEF NumberRun, Phase
  <2>3. <<p, o>> \in PipelineRuns \X PipelineRuns
        /\ <<p, o>>[1] = p /\ <<p, o>>[2] = o
    OBVIOUS
  <2> QED
    BY <1>a, <2>1, <2>2, <2>3 DEF Noting
<1>3. CASE ~NumberRun(r) /\ ~NumberRun(q)
  <2>1. Carries(r, n) /\ Carries(q, m)
    BY <1>3, CarriedBefore
  <2> QED
    BY <1>1, <1>2, <2>1 DEF NumberInv
<1>4. CASE r = q /\ NumberRun(r)
  BY <1>1, <1>4, NumberedApart
<1>b. ASSUME NEW p \in PipelineRuns, NEW o \in PipelineRuns \ rewritten',
             p # o, NumberRun(p), <<p, o>> \notin miscounted',
             NEW k \in Numbers, NEW l \in Numbers,
             Carries(p, k)', Carries(o, l)'
      PROVE  k # l
  <2>1. k = Highest + 1 /\ l <= Highest
    BY <1>1, <1>a, <1>b, NumberedApart
  <2>2. l \in Nat /\ Highest \in Nat
    BY RunCount, HighestFacts DEF Numbers, PipelineTypes
  <2> QED
    BY <2>1, <2>2
<1>5. CASE r # q /\ NumberRun(r)
  BY <1>5, <1>b
<1>6. CASE r # q /\ NumberRun(q)
  BY <1>6, <1>b
<1> QED
  BY <1>3, <1>4, <1>5, <1>6

-----------------------------------------------------------------------------
(* The invariant of the pipelines.                                         *)
PipelineInv == PipelineTypes /\ ThreadInv /\ FilesInv /\ NumberInv

(* All of it together is inductive.                                        *)
LEMMA PipelineInvariant == PipelineSpec => []PipelineInv
<1>1. PipelineInit => PipelineInv
  BY InitTypes, InitThread, InitFiled, InitNumbered DEF PipelineInv
<1>2. PipelineInv /\ [PipelineNext]_pipelineVars => PipelineInv'
  BY NextTypes, NextThread, NextFiled, NextNumbered DEF PipelineInv
<1> QED
  BY <1>1, <1>2, PTL DEF PipelineSpec

(* The runs of the pipelines keep their types: a number stays within the   *)
(* count of the runs, a step within the steps of the pipeline.             *)
THEOREM PipelineTypeCorrect == PipelineSpec => []PipelineTypeOK
<1>1. PipelineInv => PipelineTypeOK
  BY DEF PipelineInv, PipelineTypes
<1> QED
  BY <1>1, PipelineInvariant, PTL

(* A step is not begun before all that come earlier have succeeded.        *)
InOrder(steps) ==
  \A i, j \in 1..StepCount :
    i < j /\ steps[j] \notin {"PENDING", "SKIPPED"} => steps[i] = "SUCCESS"

(* Steps done up to one of them are in order.                              *)
LEMMA UptoInOrder ==
  ASSUME NEW steps, NEW i \in 1..StepCount, NEW status,
         NEW rest \in {"PENDING", "SKIPPED"}, Upto(steps, i, status, rest)
  PROVE  InOrder(steps)
  BY PipelineAssumption DEF Upto, InOrder

(* A record that fits its run has its steps in order.                      *)
LEMMA FitsInOrder ==
  ASSUME PipelineTypeOK, NEW r \in PipelineRuns, NEW record,
         Remembers(engine[r]),
         engine[r].phase \notin {"untriggered", "numbered"},
         Fits(engine[r], record)
  PROVE  InOrder(record.steps)
<1> DEFINE t == engine[r]
<1>0. t.i \in 1..StepCount /\ t.phase \in Phases
  BY NextSteps DEF PipelineTypeOK, Thread
<1>1. CASE t.phase \in {"load", "begin"}
  BY <1>1 DEF Fits, InOrder, AllPending
<1>2. CASE t.phase \in {"step", "result", "skip"}
  BY <1>0, <1>2, UptoInOrder DEF Fits
<1>3. CASE t.phase \in {"execute", "raised"}
  BY <1>0, <1>3, UptoInOrder DEF Fits, Remembers
<1>4. CASE t.phase = "final"
  BY <1>0, <1>4, UptoInOrder DEF Fits, Remembers, Failed, Succeeded
<1>5. CASE t.phase = "over"
  BY <1>5, UptoInOrder DEF Fits, Told
<1> QED
  BY <1>0, <1>1, <1>2, <1>3, <1>4, <1>5 DEF Phases

(* A record that tells of a run that is over tells one of its three ends.  *)
LEMMA ToldEnd ==
  ASSUME NEW record, Told(record)
  PROVE  \/ /\ record.status = "SUCCESS"
            /\ \A i \in 1..StepCount : record.steps[i] = "SUCCESS"
         \/ /\ record.status = "FAILED"
            /\ \/ Stopped(record.steps, "FAILED", "SKIPPED")
               \/ Stopped(record.steps, "RUNNING", "PENDING")
<1>1. PICK i \in 1..StepCount :
        \/ /\ record.status = "FAILED"
           /\ \/ Upto(record.steps, i, "FAILED", "SKIPPED")
              \/ Upto(record.steps, i, "RUNNING", "PENDING")
        \/ /\ record.status = "SUCCESS" /\ i = StepCount
           /\ Upto(record.steps, i, "SUCCESS", "SKIPPED")
  BY DEF Told
<1>2. \A at, rest : Upto(record.steps, i, at, rest)
        => Stopped(record.steps, at, rest)
  BY PipelineAssumption DEF Upto, Stopped
<1>3. i = StepCount /\ Upto(record.steps, i, "SUCCESS", "SKIPPED")
        => \A j \in 1..StepCount : record.steps[j] = "SUCCESS"
  BY PipelineAssumption DEF Upto
<1> QED
  BY <1>1, <1>2, <1>3

(* Whatever status a client writes between two savings of a run's thread,  *)
(* the record shows no step that began before its time, and at the end     *)
(* success at every step, or a failed one with the rest skipped, or the    *)
(* one whose exception ended the run with the rest untouched.  Left out    *)
(* are the runs whose steps or number a client wrote, and a client's or a  *)
(* restart's crossing of a thread's own steps.                             *)
THEOREM PipelineRecordTellsRun == PipelineSpec => []RecordTellsRun
<1>1. ASSUME PipelineInv, ~crossed, NEW r \in Readable \ rewritten
      PROVE  LET steps == runFile[r].steps IN
             /\ InOrder(steps)
             /\ engine[r].phase = "over" =>
                  \/ /\ runFile[r].status = "SUCCESS"
                     /\ \A i \in 1..StepCount : steps[i] = "SUCCESS"
                  \/ /\ runFile[r].status = "FAILED"
                     /\ \/ Stopped(steps, "FAILED", "SKIPPED")
                        \/ Stopped(steps, "RUNNING", "PENDING")
  <2>1. /\ r \in PipelineRuns \ rewritten
        /\ IsRecord(runFile[r]) /\ Filed(r)
        /\ PipelineTypeOK /\ Remembers(engine[r])
    BY <1>1 DEF PipelineInv, PipelineTypes, ThreadInv, FilesInv, Readable,
                IsRecord
  <2>2. /\ engine[r].phase \notin {"untriggered", "numbered"}
        /\ Fits(engine[r], runFile[r])
    BY <2>1 DEF Filed, IsRecord
  <2>3. InOrder(runFile[r].steps)
    BY <2>1, <2>2, FitsInOrder
  <2>4. engine[r].phase = "over" => Told(runFile[r])
    BY <2>2 DEF Fits
  <2> QED
    BY <2>3, <2>4, ToldEnd
<1>2. PipelineInv => RecordTellsRun
  BY <1>1 DEF RecordTellsRun, InOrder
<1> QED
  BY <1>2, PipelineInvariant, PTL

(* A run whose deletion was answered stays deleted, though its thread goes *)
(* on and saves, unless the deletion fell between a read and its write.    *)
THEOREM PipelineDeletedStays == PipelineSpec => []DeletedStaysDeleted
<1>1. PipelineInv => DeletedStaysDeleted
  BY DEF PipelineInv, PipelineTypes, PipelineTypeOK, FilesInv, Filed,
         DeletedStaysDeleted
<1> QED
  BY <1>1, PipelineInvariant, PTL

(* Two runs whose numbers no client has written have the same number only  *)
(* when one of the two was numbered while the other's record was being     *)
(* saved or its number waited for its record: no third run's saving,       *)
(* deletion or number makes them collide.                                  *)
THEOREM PipelineNumbersDistinct == PipelineSpec => []NumbersDistinct
<1>1. ASSUME PipelineInv, ~crossed,
             NEW r \in Readable \ rewritten, NEW q \in Readable \ rewritten,
             runFile[r].number = runFile[q].number
      PROVE  r = q \/ <<r, q>> \in miscounted \/ <<q, r>> \in miscounted
  <2>1. /\ r \in PipelineRuns \ rewritten /\ q \in PipelineRuns \ rewritten
        /\ runFile[r] \in RunRecord
        /\ IsRecord(runFile[r]) /\ IsRecord(runFile[q])
    BY <1>1 DEF PipelineInv, PipelineTypes, PipelineTypeOK, Readable, IsRecord
  <2>2. runFile[r].number \in Numbers
    BY <2>1 DEF RunRecord, Numbers
  <2>3. Carries(r, runFile[r].number) /\ Carries(q, runFile[r].number)
    BY <1>1, <2>1 DEF Carries
  <2> QED
    BY <1>1, <2>1, <2>2, <2>3 DEF PipelineInv, NumberInv
<1>2. PipelineInv => NumbersDistinct
  BY <1>1 DEF NumbersDistinct
<1> QED
  BY <1>2, PipelineInvariant, PTL
=============================================================================
