-------------------------- MODULE ExecutionStatus --------------------------
(***************************************************************************)
(* The status machine of an execution record, as declared by               *)
(* storage/executions_store.py.  Every component that writes a record's    *)
(* status is specified over these definitions.                             *)
(***************************************************************************)

FINAL_STATUSES == {"CANCELED", "SUCCESS", "FAILED"}

Statuses == {"QUEUED", "RUNNING", "CANCELING"} \cup FINAL_STATUSES

(* The record's file does not exist: not yet created, or unlinked by       *)
(* delete_execution and the retention policy.                              *)
Absent == {"NONE", "GONE"}

ALLOWED_TRANSITIONS ==
  { <<"QUEUED", "RUNNING">>,  <<"QUEUED", "CANCELED">>,
    <<"RUNNING", "SUCCESS">>, <<"RUNNING", "FAILED">>,
    <<"RUNNING", "CANCELING">>,
    <<"CANCELING", "CANCELED">>, <<"CANCELING", "FAILED">> }

(* validate_status_transition returns without raising.                     *)
ValidTransition(from, to) == from = to \/ <<from, to>> \in ALLOWED_TRANSITIONS
=============================================================================
