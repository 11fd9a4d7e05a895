--------------------------- MODULE StopRefinement ---------------------------
(***************************************************************************)
(* The managed stop implements the life cycle of its operations.           *)
(***************************************************************************)
EXTENDS ManagedStop

StageOf(status) ==
  CASE status = "ABSENT"         -> "Unused"
    [] status = "REQUESTED"      -> "Requested"
    [] status = "SIGNAL_PENDING" -> "Reserved"
    [] status = "IN_PROGRESS"    -> "Signalled"
    [] status = "TIMED_OUT"      -> "TimedOut"
    [] status = "COMPLETED"      -> "Resolved"
    [] status = "SUPERSEDED"     -> "Replaced"

Lifecycle == INSTANCE StopLifecycle WITH
  stage    <- [o \in Operations |-> StageOf(ops[o].status)],
  target   <- [o \in Operations |-> ops[o].run],
  attempts <- attempts

(* Whatever the worker, the retries and the restarts do, a client sees the *)
(* life cycle it was promised; the late attempt belongs to it only where a *)
(* request may be committed and answered with an error.                    *)
ImplementsLifecycle == Lifecycle!LifecycleSpec

=============================================================================
