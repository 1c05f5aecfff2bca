----------------------------- MODULE MCDispatch -----------------------------
(* Instances of Dispatch for TLC.                                          *)
EXTENDS Dispatch

CONSTANTS w1, w2

TwoRuns == 1..2
NoRuns == {}
FirstRun == {1}
OneWorker == {w1}
TwoWorkers == {w1, w2}

(* No requirements, and a first run pinned to one worker. *)
AnyWorker == [r \in Runs |-> Workers]
FirstPinned == [r \in Runs |-> IF r = 1 THEN {w1} ELSE Workers]

(* One worker's requests may be answered too late. *)
OneLate == [w \in Workers |-> IF w = w1 THEN 1 ELSE 0]

(* What the console posts, and what any client may post besides. *)
Queued == {[status |-> "QUEUED", worker |-> NoWorker]}
Preset == Queued \cup
  {[status |-> "QUEUED", worker |-> w2], [status |-> "RUNNING", worker |-> w1]}
=============================================================================
