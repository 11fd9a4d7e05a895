----------------------------- MODULE StopLedger -----------------------------
(***************************************************************************)
(* The vocabulary of the durable stop ledger and the decisions the storage *)
(* contract takes on its rows: the tables `runs' and                       *)
(* `managed_stop_operations' of the Supervisor's SQLite database, as       *)
(* crates/storage/src/stop_contract.rs and recovery_contract.rs use them.  *)
(*                                                                         *)
(* Only what the stop protocol tells apart is kept of a row.  Timestamps,  *)
(* exit details and profile snapshots are left out; the compare-and-swap   *)
(* on `updated_at' is the atomicity of one action here, because the        *)
(* repository is the database's only writer.                               *)
(***************************************************************************)

CONSTANTS Runs, Operations,
          None    \* no run, no operation

(* RunState: the closed set of the `state' column. *)
RunState ==
  {"STARTING", "RUNNING", "STOP_REQUESTED", "GRACEFUL_STOPPING",
   "FORCE_STOPPING", "EXITED", "FAILED", "RECOVERED",
   "EXITED_WHILE_OFFLINE", "IDENTITY_MISMATCH", "ORPHANED"}

LiveRunState     == {"RUNNING", "RECOVERED"}
StoppingRunState == {"STOP_REQUESTED", "GRACEFUL_STOPPING", "FORCE_STOPPING"}
TerminalRunState ==
  {"EXITED", "EXITED_WHILE_OFFLINE", "IDENTITY_MISMATCH", "ORPHANED", "FAILED"}

(* Operators named Faulty... are wrong variants of the definition that *)
(* follows them, kept to show which property each mistake would break. *)

(* The states a starting Supervisor must reconcile before it serves. *)
RecoveryCandidate == {"STARTING"} \cup LiveRunState \cup StoppingRunState

Kind         == {"GRACEFUL", "FORCE"}
ActiveStatus == {"REQUESTED", "SIGNAL_PENDING", "IN_PROGRESS", "TIMED_OUT"}
FinalStatus  == {"COMPLETED", "SUPERSEDED"}
Disposition  == {"DELIVERED", "UNAVAILABLE"}
Outcome      == {"EXITED", "ALREADY_EXITED", "IDENTITY_MISMATCH", "ORPHANED",
                 "SIGNAL_UNAVAILABLE", "FAILED"}

(* One row per operation id; an id nobody has used has status ABSENT. *)
OperationRow ==
  [run         : Runs \cup {None},
   kind        : Kind,
   status      : ActiveStatus \cup FinalStatus \cup {"ABSENT"},
   disposition : Disposition \cup {"NONE"},
   outcome     : Outcome \cup {"NONE"},
   supersedes  : Operations \cup {None}]

AbsentRow ==
  [run |-> None, kind |-> "GRACEFUL", status |-> "ABSENT",
   disposition |-> "NONE", outcome |-> "NONE", supersedes |-> None]

(* insert_stop_operation with status REQUESTED. *)
RequestedRow(r, k, superseded) ==
  [run |-> r, kind |-> k, status |-> "REQUESTED",
   disposition |-> "NONE", outcome |-> "NONE", supersedes |-> superseded]

(* A row that is COMPLETED with an outcome keeps what it recorded before. *)
CompletedRow(row, outcome) ==
  [row EXCEPT !.status = "COMPLETED", !.outcome = outcome]

(* The run state an active row needs: what project_stop_result accepts. *)
(* A row that does not satisfy it cannot even be read.                  *)
Eligible(kind, status, runState) ==
  \/ /\ status \in {"REQUESTED", "SIGNAL_PENDING"}
     /\ \/ runState = "STOP_REQUESTED"
        \/ kind = "FORCE" /\ runState = "GRACEFUL_STOPPING"
  \/ /\ status \in {"IN_PROGRESS", "TIMED_OUT"}
     /\ kind = "GRACEFUL"
     /\ runState = "GRACEFUL_STOPPING"
  \/ /\ status = "IN_PROGRESS"
     /\ kind = "FORCE"
     /\ runState = "FORCE_STOPPING"

(* The consistency of one operation row with its run that every read       *)
(* validates: the disposition is recorded exactly after the signal stage   *)
(* of an operation that is still active, the outcome exactly at completion,*)
(* and a completed row's outcome says what its run became.                 *)
ValidResult(row, runState) ==
  /\ row.status \in ActiveStatus => Eligible(row.kind, row.status, runState)
  /\ row.status \in {"REQUESTED", "SIGNAL_PENDING"} => row.disposition = "NONE"
  /\ row.status \in {"IN_PROGRESS", "TIMED_OUT"} => row.disposition # "NONE"
  /\ (row.status = "COMPLETED") <=> (row.outcome # "NONE")
  /\ row.outcome = "SIGNAL_UNAVAILABLE" => row.disposition = "UNAVAILABLE"
  /\ row.status = "SUPERSEDED" => row.kind = "GRACEFUL"
  /\ \/ row.outcome = "NONE"
     \/ row.outcome = "EXITED" /\ runState = "EXITED"
     \/ row.outcome = "ALREADY_EXITED"
        /\ runState \in {"EXITED", "EXITED_WHILE_OFFLINE"}
     \/ row.outcome = "IDENTITY_MISMATCH" /\ runState = "IDENTITY_MISMATCH"
     \/ row.outcome \in {"ORPHANED", "SIGNAL_UNAVAILABLE"} /\ runState = "ORPHANED"
     \/ row.outcome = "FAILED" /\ runState = "FAILED"

FaultyCompletable(row, runState, outcome) ==   \* takes any row that can be read
  outcome = "SIGNAL_UNAVAILABLE" => row.disposition = "UNAVAILABLE"

(* complete_stop accepts an active operation whose run is in step; a    *)
(* missing signal can be reported only when that was what was recorded. *)
Completable(row, runState, outcome) ==
  /\ row.status \in ActiveStatus
  /\ Eligible(row.kind, row.status, runState)
  /\ outcome = "SIGNAL_UNAVAILABLE" => row.disposition = "UNAVAILABLE"

(* completion_run_update: the run state an outcome leaves behind. *)
RunStateAfter(outcome) ==
  CASE outcome \in {"EXITED", "ALREADY_EXITED"}        -> "EXITED"
    [] outcome = "IDENTITY_MISMATCH"                   -> "IDENTITY_MISMATCH"
    [] outcome \in {"ORPHANED", "SIGNAL_UNAVAILABLE"}  -> "ORPHANED"
    [] outcome = "FAILED"                              -> "FAILED"

FaultyOutcomeOfFinishedRun(runState) == runState   \* the state taken for an outcome

(* completed_outcome_for_run: what a stop of a finished run reports. *)
OutcomeOfFinishedRun(runState) ==
  CASE runState \in {"EXITED", "EXITED_WHILE_OFFLINE"} -> "ALREADY_EXITED"
    [] runState = "IDENTITY_MISMATCH"                  -> "IDENTITY_MISMATCH"
    [] runState = "ORPHANED"                           -> "ORPHANED"
    [] runState = "FAILED"                             -> "FAILED"

(* mark_stop_signal_attempted: the run state of a signalled stop. *)
SignalledRunState(kind) ==
  IF kind = "FORCE" THEN "FORCE_STOPPING" ELSE "GRACEFUL_STOPPING"

(* What startup may find out about a run, and what that makes of a stop *)
(* which was still active.                                              *)
RecoveryOutcome ==
  {"RECOVERED", "EXITED_WHILE_OFFLINE", "IDENTITY_MISMATCH", "ORPHANED"}

StopOutcomeAfterRecovery(recovery) ==
  CASE recovery = "EXITED_WHILE_OFFLINE" -> "ALREADY_EXITED"
    [] recovery = "IDENTITY_MISMATCH"    -> "IDENTITY_MISMATCH"
    [] recovery = "ORPHANED"             -> "ORPHANED"
=============================================================================
