--------------------------- MODULE MCRecordStore ---------------------------
(* Instances of RecordStore for TLC.                                       *)
EXTENDS RecordStore

CONSTANTS w1, w2, create, claim1, claim2, cancel, stop, recover1, recover2,
          finish1, finish2, patch, heal, delete

TwoWorkers == {w1, w2}

LockingRequests == {create, claim1, claim2, cancel, stop, recover1, recover2}
MixedRequests == {create, claim1, claim2, cancel, finish1, patch, heal, delete}
FinishAndRecover == {create, claim1, finish1, recover1}

(* A record queued again. *)
SomeBodies == {[status |-> "QUEUED", owner |-> NoWorker]}

KindOf == [q \in Requests |->
  CASE q = create -> "create"
    [] q \in {claim1, claim2} -> "claim"
    [] q = cancel -> "cancel"
    [] q = stop -> "stop"
    [] q \in {recover1, recover2} -> "recover"
    [] q \in {finish1, finish2} -> "finish"
    [] q = patch -> "patch"
    [] q = heal -> "heal"
    [] q = delete -> "delete"]

WorkerOf == [q \in Requests |->
  CASE q \in {claim1, finish1, heal} -> w1
    [] q \in {claim2, finish2} -> w2
    [] OTHER -> NoWorker]
=============================================================================
