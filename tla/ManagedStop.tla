---------------------------- MODULE ManagedStop ----------------------------
(***************************************************************************)
(* Stopping managed runs: ManagedRunService of                             *)
(* crates/supervisor/src/managed_runs.rs on macOS.                         *)
(*                                                                         *)
(* One asynchronous mutex serialises the service, so every handler and     *)
(* every step of a stop worker is one action.  A step that writes the      *)
(* ledger has the outcomes the database has: refused without effect (the   *)
(* worker retries: a stuttering step), applied and acknowledged, or        *)
(* applied while the caller sees an error.  The Supervisor may crash       *)
(* between any two steps; the ledger and the processes survive it.         *)
(***************************************************************************)
EXTENDS Naturals, StopLedger, MacosProcess

CONSTANTS
  TerminalRuns,       \* runs with a pty: their natural exit is monitored
  MaxCrashes,         \* bound: how often the Supervisor crashes
  BeginMayLoseReply,  \* a stop request may be committed and answered with an error
  GroupsMayStray      \* a root may leave its process group

ASSUME NoneIsNothing     == None \notin Runs \cup Operations
ASSUME TerminalRunsAreRuns == TerminalRuns \subseteq Runs
ASSUME CrashBound        == MaxCrashes \in Nat
ASSUME SwitchesAreBoolean == BeginMayLoseReply \in BOOLEAN /\ GroupsMayStray \in BOOLEAN

VARIABLES
  runs,       \* ledger: the state of every run
  ops,        \* ledger: the row of every operation id
  controls,   \* memory: the control the service holds for every run
  serving,    \* memory: startup reconciliation is over
  pending,    \* memory: runs startup has still to reconcile
  world,      \* the operating system's side of every run
  attempts,   \* history: signal attempts made for every operation
  crashes     \* bound on Crash

ledger == <<runs, ops>>
memory == <<controls, serving, pending>>
vars   == <<runs, ops, controls, serving, pending, world, attempts, crashes>>

Phase == {"Requested", "SignalPending", "SignalAttempted", "Monitoring",
          "TimedOut", "CompletionPending"}

(* PlatformRunControl with StoppingManagedProcess: the fields of a control *)
(* that is not Stopping hold neutral values.  late: the deadline passed.   *)
Control ==
  [tag         : {"None", "Running", "Stopping", "Quarantined"},
   evidence    : Evidence,
   op          : Operations \cup {None},
   phase       : Phase \cup {"NONE"},
   disposition : Disposition \cup {"NONE"},
   outcome     : Outcome \cup {"NONE"},
   late        : BOOLEAN]

PlainControl(tag, evidence) ==
  [tag |-> tag, evidence |-> evidence, op |-> None, phase |-> "NONE",
   disposition |-> "NONE", outcome |-> "NONE", late |-> FALSE]

Owned     == [owned |-> TRUE, confirmed |-> FALSE]
Recovered == [owned |-> FALSE, confirmed |-> FALSE]
NoControl == PlainControl("None", Recovered)

StoppingControl(evidence, o, phase, disposition, late) ==
  [tag |-> "Stopping", evidence |-> evidence, op |-> o, phase |-> phase,
   disposition |-> disposition, outcome |-> "NONE", late |-> late]

TypeOK ==
  /\ runs \in [Runs -> RunState]
  /\ ops \in [Operations -> OperationRow]
  /\ controls \in [Runs -> Control]
  /\ serving \in BOOLEAN
  /\ pending \subseteq Runs
  /\ world \in [Runs -> World]
  /\ attempts \in [Operations -> Nat]
  /\ crashes \in 0..MaxCrashes

(* How start_platform_run leaves a run: running under an owned control, *)
(* failed, or STARTING because recording the failure failed.            *)
LaunchResult ==
  {<<"RUNNING", PlainControl("Running", Owned), "GROUP">>,
   <<"FAILED", NoControl, "GONE">>,
   <<"STARTING", NoControl, "GONE">>}

Init ==
  /\ \E launched \in [Runs -> LaunchResult] :
       /\ runs     = [r \in Runs |-> launched[r][1]]
       /\ controls = [r \in Runs |-> launched[r][2]]
       /\ world    = [r \in Runs |-> launched[r][3]]
  /\ ops      = [o \in Operations |-> AbsentRow]
  /\ serving  = TRUE
  /\ pending  = {}
  /\ attempts = [o \in Operations |-> 0]
  /\ crashes  = 0

Stopping(r)     == controls[r].tag = "Stopping"
InPhase(r, p)   == serving /\ Stopping(r) /\ controls[r].phase = p
ActiveOf(r)     == {o \in Operations : ops[o].run = r /\ ops[o].status \in ActiveStatus}
ReadableResult(o) == ValidResult(ops[o], runs[ops[o].run])

-----------------------------------------------------------------------------
(* Stop requests: begin_supervisor_stop. *)

(* Operators named Faulty... are wrong variants of the definition that *)
(* follows them, kept to show which property each mistake would break. *)

FaultySupersessionBlocked(r) ==   \* takes over a signal that is not on record
  Stopping(r) /\ controls[r].phase = "CompletionPending"

(* A force stop may not take over a graceful one whose signal or result is *)
(* known only in memory; the caller is told to retry.                      *)
SupersessionBlocked(r) ==
  Stopping(r) /\ controls[r].phase \in {"SignalAttempted", "CompletionPending"}

UnsafeForceSupersession(r, o, superseded) ==
  /\ SupersessionBlocked(r)
  /\ controls[r].op # o
  /\ controls[r].op = superseded

(* take_process_for_stop *)
ProcessTakeable(r, superseded) ==
  \/ controls[r].tag = "Running" /\ superseded = None
  \/ Stopping(r) /\ superseded # None /\ controls[r].op = superseded

(* control_phase_from_result *)
PhaseOfStatus(status) ==
  CASE status = "REQUESTED"      -> "Requested"
    [] status = "SIGNAL_PENDING" -> "SignalPending"
    [] status = "IN_PROGRESS"    -> "Monitoring"
    [] status = "TIMED_OUT"      -> "TimedOut"

(* What follows the committed request: the operation takes the process *)
(* over, or finds none to take and is completed as orphaned (which may *)
(* fail and leave it active), or the handler fails before either.      *)
AttachControl(r, o, newOps, newRuns) ==
  LET row == newOps[o] IN
  \/ /\ ProcessTakeable(r, row.supersedes)
     /\ ops' = newOps /\ runs' = newRuns
     /\ controls' = [controls EXCEPT ![r] =
          StoppingControl(@.evidence, o, PhaseOfStatus(row.status), row.disposition, FALSE)]
  \/ /\ ~ProcessTakeable(r, row.supersedes)
     /\ \/ /\ Completable(row, newRuns[r], "ORPHANED")
           /\ ops'  = [newOps EXCEPT ![o] = CompletedRow(@, "ORPHANED")]
           /\ runs' = [newRuns EXCEPT ![r] = RunStateAfter("ORPHANED")]
        \/ ops' = newOps /\ runs' = newRuns
     /\ UNCHANGED controls
  \/ /\ BeginMayLoseReply
     /\ ops' = newOps /\ runs' = newRuns
     /\ UNCHANGED controls

(* A new stop of a live run. *)
BeginLive(r, o, k) ==
  /\ serving
  /\ ops[o].status = "ABSENT" /\ ActiveOf(r) = {} /\ runs[r] \in LiveRunState
  /\ AttachControl(r, o, [ops EXCEPT ![o] = RequestedRow(r, k, None)],
                         [runs EXCEPT ![r] = "STOP_REQUESTED"])
  /\ UNCHANGED <<serving, pending, world, attempts, crashes>>

(* A new stop of a finished run is born completed. *)
BeginFinished(r, o, k) ==
  /\ serving
  /\ ops[o].status = "ABSENT" /\ ActiveOf(r) = {} /\ runs[r] \in TerminalRunState
  /\ ops' = [ops EXCEPT ![o] =
       CompletedRow(RequestedRow(r, k, None), OutcomeOfFinishedRun(runs[r]))]
  /\ UNCHANGED <<runs, memory, world, attempts, crashes>>

FaultyBeginSupersedeAnyRun(r, o, g) ==   \* g may be a stop of another run
  /\ serving
  /\ ops[o].status = "ABSENT"
  /\ ops[g].status \in ActiveStatus /\ ops[g].kind = "GRACEFUL" /\ ReadableResult(g)
  /\ runs[ops[g].run] \in {"STOP_REQUESTED", "GRACEFUL_STOPPING"}
  /\ ~UnsafeForceSupersession(r, o, g)
  /\ AttachControl(r, o, [ops EXCEPT ![g].status = "SUPERSEDED",
                                     ![o] = RequestedRow(r, "FORCE", g)], runs)
  /\ UNCHANGED <<serving, pending, world, attempts, crashes>>

(* A force stop that names the active graceful stop replaces it. *)
BeginSupersede(r, o, g) ==
  /\ serving
  /\ ops[o].status = "ABSENT"
  /\ g \in ActiveOf(r) /\ ops[g].kind = "GRACEFUL" /\ ReadableResult(g)
  /\ runs[r] \in {"STOP_REQUESTED", "GRACEFUL_STOPPING"}
  /\ ~UnsafeForceSupersession(r, o, g)
  /\ AttachControl(r, o, [ops EXCEPT ![g].status = "SUPERSEDED",
                                     ![o] = RequestedRow(r, "FORCE", g)], runs)
  /\ UNCHANGED <<serving, pending, world, attempts, crashes>>

(* The same operation id again.  Nothing is written; an operation whose *)
(* control was never moved gets it now.                                 *)
BeginReplay(r, o) ==
  /\ serving
  /\ o \in ActiveOf(r) /\ ReadableResult(o)
  /\ ~UnsafeForceSupersession(r, o, ops[o].supersedes)
  /\ ~(Stopping(r) /\ controls[r].op = o)
  /\ AttachControl(r, o, ops, runs)
  /\ UNCHANGED <<serving, pending, world, attempts, crashes>>

-----------------------------------------------------------------------------
(* The stop worker of a run: advance_stop_worker, one phase per action. *)
(* Each step first reads its own operation row.                         *)

Advance(r, phase) == controls' = [controls EXCEPT ![r].phase = phase]

Conclude(r, outcome) ==
  controls' = [controls EXCEPT ![r].phase = "CompletionPending", ![r].outcome = outcome]

FaultyReserveInMemory(r) ==   \* goes on before the reservation is durable
  LET o == controls[r].op IN
  /\ InPhase(r, "Requested")
  /\ ReadableResult(o)
  /\ ops[o].status = "REQUESTED"
  /\ Advance(r, "SignalPending")
  /\ UNCHANGED <<ledger, serving, pending, world, attempts, crashes>>

(* Phase Requested: reserve the one signal attempt in the ledger. *)
ReserveSignal(r) ==
  LET o == controls[r].op IN
  /\ InPhase(r, "Requested")
  /\ ReadableResult(o)
  /\ \/ /\ ops[o].status = "REQUESTED"
        /\ ops' = [ops EXCEPT ![o].status = "SIGNAL_PENDING"]
        /\ Advance(r, "SignalPending") \/ UNCHANGED controls
     \/ /\ ops[o].status = "SIGNAL_PENDING"
        /\ UNCHANGED ops
        /\ Advance(r, "SignalPending")
  /\ UNCHANGED <<runs, serving, pending, world, attempts, crashes>>

(* Phase SignalPending: revalidate and signal.  The ledger is not read. *)
SendSignal(r) ==
  LET o == controls[r].op IN
  /\ InPhase(r, "SignalPending")
  /\ \E result \in SignalResults(controls[r].evidence, world[r]) :
       \/ /\ result \in Disposition
          /\ controls' = [controls EXCEPT ![r].phase = "SignalAttempted",
                                          ![r].disposition = result]
          /\ attempts' = [attempts EXCEPT ![o] = @ + 1]
       \/ /\ result \notin Disposition
          /\ Conclude(r, result)
          /\ UNCHANGED attempts
  /\ UNCHANGED <<ledger, serving, pending, world, crashes>>

(* Phase SignalAttempted: record the attempt; only then does the *)
(* confirmation window start.                                    *)
RecordAttempt(r) ==
  LET o       == controls[r].op
      monitor == controls' = [controls EXCEPT ![r].phase = "Monitoring", ![r].late = FALSE]
  IN
  /\ InPhase(r, "SignalAttempted")
  /\ ReadableResult(o)
  /\ \/ /\ ops[o].status = "SIGNAL_PENDING"
        /\ ops' = [ops EXCEPT ![o].status = "IN_PROGRESS",
                              ![o].disposition = controls[r].disposition]
        /\ runs' = [runs EXCEPT ![ops[o].run] = SignalledRunState(ops[o].kind)]
        /\ monitor \/ UNCHANGED controls
     \/ /\ ops[o].status = "IN_PROGRESS"
        /\ ops[o].disposition = controls[r].disposition
        /\ UNCHANGED ledger
        /\ monitor
  /\ UNCHANGED <<serving, pending, world, attempts, crashes>>

FaultyObserveExitUntilTimeout(r) ==   \* a timed-out stop is no longer polled
  /\ InPhase(r, "Monitoring")
  /\ "EXITED" \in PollResults(controls[r].evidence, world[r])
  /\ controls' = [controls EXCEPT ![r].phase = "CompletionPending",
                                  ![r].outcome = "EXITED",
                                  ![r].evidence.confirmed = TRUE]
  /\ UNCHANGED <<ledger, serving, pending, world, attempts, crashes>>

(* Phases Monitoring and TimedOut: the exit is seen. *)
ObserveExit(r) ==
  /\ InPhase(r, "Monitoring") \/ InPhase(r, "TimedOut")
  /\ "EXITED" \in PollResults(controls[r].evidence, world[r])
  /\ controls' = [controls EXCEPT ![r].phase = "CompletionPending",
                                  ![r].outcome = "EXITED",
                                  ![r].evidence.confirmed = TRUE]
  /\ UNCHANGED <<ledger, serving, pending, world, attempts, crashes>>

(* Phases Monitoring and TimedOut: an owned root outlives its group. *)
ObserveLostBoundary(r) ==
  /\ InPhase(r, "Monitoring") \/ InPhase(r, "TimedOut")
  /\ "BOUNDARY_LOST" \in PollResults(controls[r].evidence, world[r])
  /\ Conclude(r, "ORPHANED")
  /\ UNCHANGED <<ledger, serving, pending, world, attempts, crashes>>

(* Phase Monitoring, graceful, after the deadline and without an exit. *)
GracefulTimeout(r) ==
  LET o == controls[r].op IN
  /\ InPhase(r, "Monitoring") /\ controls[r].late /\ ops[o].kind = "GRACEFUL"
  /\ PollResults(controls[r].evidence, world[r]) \cap {"RUNNING", "ERROR"} # {}
  /\ ReadableResult(o)
  /\ \/ /\ ops[o].status = "IN_PROGRESS"
        /\ ops' = [ops EXCEPT ![o].status = "TIMED_OUT"]
        /\ Advance(r, "TimedOut") \/ UNCHANGED controls
     \/ /\ ops[o].status = "TIMED_OUT"
        /\ UNCHANGED ops
        /\ Advance(r, "TimedOut")
  /\ UNCHANGED <<runs, serving, pending, world, attempts, crashes>>

FaultyForceTimeout(r) ==   \* a delivered SIGKILL is waited for without end
  /\ InPhase(r, "Monitoring") /\ controls[r].late /\ ops[controls[r].op].kind = "FORCE"
  /\ "RUNNING" \in PollResults(controls[r].evidence, world[r])
  /\ controls[r].disposition = "UNAVAILABLE"
  /\ Conclude(r, "SIGNAL_UNAVAILABLE")
  /\ UNCHANGED <<ledger, serving, pending, world, attempts, crashes>>

(* Phase Monitoring, force, after the deadline and without an exit. *)
ForceTimeout(r) ==
  /\ InPhase(r, "Monitoring") /\ controls[r].late /\ ops[controls[r].op].kind = "FORCE"
  /\ \E poll \in PollResults(controls[r].evidence, world[r]) \cap {"RUNNING", "ERROR"} :
       IF poll = "RUNNING" /\ controls[r].disposition = "UNAVAILABLE"
       THEN Conclude(r, "SIGNAL_UNAVAILABLE")
       ELSE Conclude(r, "ORPHANED")
  /\ UNCHANGED <<ledger, serving, pending, world, attempts, crashes>>

(* finalize_stop_control: ownership ends only with a confirmed exit. *)
FinalizeControl(r) ==
  controls' = [controls EXCEPT ![r] =
    IF @.outcome = "EXITED" THEN NoControl ELSE PlainControl("Quarantined", @.evidence)]

(* Phase CompletionPending: write the result, then give the control up. *)
CompleteStop(r) ==
  LET o == controls[r].op IN
  /\ InPhase(r, "CompletionPending")
  /\ ReadableResult(o)
  /\ \/ /\ Completable(ops[o], runs[ops[o].run], controls[r].outcome)
        /\ ops'  = [ops EXCEPT ![o] = CompletedRow(@, controls[r].outcome)]
        /\ runs' = [runs EXCEPT ![ops[o].run] = RunStateAfter(controls[r].outcome)]
        /\ FinalizeControl(r) \/ UNCHANGED controls
     \/ /\ ops[o].status = "COMPLETED" /\ ops[o].outcome = controls[r].outcome
        /\ UNCHANGED ledger
        /\ FinalizeControl(r)
  /\ UNCHANGED <<serving, pending, world, attempts, crashes>>

(* The confirmation window of a monitored stop ends. *)
ElapseDeadline(r) ==
  /\ InPhase(r, "Monitoring") /\ ~controls[r].late
  /\ controls' = [controls EXCEPT ![r].late = TRUE]
  /\ UNCHANGED <<ledger, serving, pending, world, attempts, crashes>>

WorkerStep(r) ==
  \/ ReserveSignal(r)
  \/ SendSignal(r)
  \/ RecordAttempt(r)
  \/ ObserveExit(r)
  \/ ObserveLostBoundary(r)
  \/ GracefulTimeout(r)
  \/ ForceTimeout(r)
  \/ CompleteStop(r)

-----------------------------------------------------------------------------
(* The natural-exit monitor of a terminal run.  It only looks at a control *)
(* that is still Running: a stop takes the run away from it.               *)

Monitored(r) ==
  /\ serving
  /\ r \in TerminalRuns
  /\ controls[r].tag = "Running"
  /\ controls[r].evidence.owned

ConfirmNaturalExit(r) ==
  /\ Monitored(r)
  /\ ~controls[r].evidence.confirmed
  /\ "EXITED" \in PollResults(controls[r].evidence, world[r])
  /\ controls' = [controls EXCEPT ![r].evidence.confirmed = TRUE]
  /\ UNCHANGED <<ledger, serving, pending, world, attempts, crashes>>

FaultyPersistNaturalExit(r) ==   \* gives the control up even if the write failed
  /\ Monitored(r)
  /\ controls[r].evidence.confirmed
  /\ runs[r] = "RUNNING"
  /\ runs' \in {runs, [runs EXCEPT ![r] = "EXITED"]}
  /\ controls' = [controls EXCEPT ![r] = NoControl]
  /\ UNCHANGED <<ops, serving, pending, world, attempts, crashes>>

(* mark_running_run_exited; writing the same exit again is accepted. *)
PersistNaturalExit(r) ==
  /\ Monitored(r)
  /\ controls[r].evidence.confirmed
  /\ \/ /\ runs[r] = "RUNNING"
        /\ runs' = [runs EXCEPT ![r] = "EXITED"]
        /\ controls' = [controls EXCEPT ![r] = NoControl] \/ UNCHANGED controls
     \/ /\ runs[r] = "EXITED"
        /\ UNCHANGED runs
        /\ controls' = [controls EXCEPT ![r] = NoControl]
  /\ UNCHANGED <<ops, serving, pending, world, attempts, crashes>>

-----------------------------------------------------------------------------
(* Crash and startup: reconcile_startup_managed_runs. *)

Crash ==
  /\ crashes < MaxCrashes
  /\ crashes'  = crashes + 1
  /\ controls' = [r \in Runs |-> NoControl]
  /\ serving'  = FALSE
  /\ pending'  = {r \in Runs : runs[r] \in RecoveryCandidate}
  /\ UNCHANGED <<ledger, world, attempts>>

FaultyResumePhase(row, runState) ==   \* a reserved signal is simply sent again
  CASE ~Eligible(row.kind, row.status, runState) -> "NONE"
    [] row.status = "REQUESTED"                  -> "Requested"
    [] row.status = "SIGNAL_PENDING"             -> "SignalPending"
    [] row.status = "IN_PROGRESS"                -> "Monitoring"
    [] row.status = "TIMED_OUT"                  -> "TimedOut"

(* recovered_control_plan for an active operation: the phase to resume in. *)
(* SIGNAL_PENDING has none: whether the signal went out is not known.      *)
ResumePhase(row, runState) ==
  CASE ~Eligible(row.kind, row.status, runState) -> "NONE"
    [] row.status = "REQUESTED"                  -> "Requested"
    [] row.status = "IN_PROGRESS"                -> "Monitoring"
    [] row.status = "TIMED_OUT"                  -> "TimedOut"
    [] OTHER                                     -> "NONE"

MayRegainControl(r) ==
  IF ActiveOf(r) = {}
  THEN runs[r] \in LiveRunState
  ELSE \A o \in ActiveOf(r) : ResumePhase(ops[o], runs[r]) # "NONE"

RecoveredControl(r) ==
  IF ActiveOf(r) = {}
  THEN PlainControl("Running", Recovered)
  ELSE LET o == CHOOSE o \in ActiveOf(r) : TRUE
           phase == ResumePhase(ops[o], runs[r])
       IN StoppingControl(Recovered, o, phase, ops[o].disposition, phase # "Requested")

(* One candidate: probe, reconcile the ledger, then publish the control. *)
(* A launch that never got past STARTING may have no identity to probe.  *)
Reconcile(r) ==
  /\ ~serving /\ r \in pending
  /\ \A o \in ActiveOf(r) : ReadableResult(o)
  /\ \E probe \in ProbeResults(world[r])
                  \cup (IF runs[r] = "STARTING" THEN {"ORPHANED"} ELSE {}) :
       \/ /\ probe = "RECOVERED" /\ MayRegainControl(r)
          /\ runs' = [runs EXCEPT ![r] = IF ActiveOf(r) = {} THEN "RECOVERED" ELSE @]
          /\ controls' = [controls EXCEPT ![r] = RecoveredControl(r)]
          /\ UNCHANGED ops
       \/ LET found == IF probe = "RECOVERED" THEN "ORPHANED" ELSE probe IN
          /\ probe = "RECOVERED" => ~MayRegainControl(r)
          /\ runs' = [runs EXCEPT ![r] = found]
          /\ ops' = [o \in Operations |->
               IF o \in ActiveOf(r)
               THEN CompletedRow(ops[o], StopOutcomeAfterRecovery(found))
               ELSE ops[o]]
          /\ UNCHANGED controls
  /\ pending' = pending \ {r}
  /\ UNCHANGED <<serving, world, attempts, crashes>>

(* Every candidate is reconciled before any request or worker runs. *)
Serve ==
  /\ ~serving /\ pending = {}
  /\ serving' = TRUE
  /\ UNCHANGED <<ledger, controls, pending, world, attempts, crashes>>

-----------------------------------------------------------------------------
(* The operating system. *)
ProcessChanges(r) ==
  /\ \E to \in WorldStep(world[r], HoldsPid(controls[r].evidence), GroupsMayStray) :
       world' = [world EXCEPT ![r] = to]
  /\ UNCHANGED <<ledger, memory, attempts, crashes>>

Request(r) ==
  \E o \in Operations :
    \/ \E k \in Kind : BeginLive(r, o, k) \/ BeginFinished(r, o, k)
    \/ \E g \in Operations : BeginSupersede(r, o, g)
    \/ BeginReplay(r, o)

Next ==
  \/ \E r \in Runs :
       \/ Request(r)
       \/ WorkerStep(r)
       \/ ElapseDeadline(r)
       \/ ConfirmNaturalExit(r)
       \/ PersistNaturalExit(r)
       \/ Reconcile(r)
       \/ ProcessChanges(r)
  \/ Crash
  \/ Serve

Spec == Init /\ [][Next]_vars

(* Workers, monitors and startup are tasks that keep running, clocks     *)
(* advance, and a write that keeps being retried is eventually answered. *)
(* Nothing is assumed of clients or of the processes.                    *)
Fairness ==
  /\ \A r \in Runs : WF_vars(WorkerStep(r))
  /\ \A r \in Runs : WF_vars(ElapseDeadline(r))
  /\ \A r \in Runs : WF_vars(ConfirmNaturalExit(r))
  /\ \A r \in Runs : WF_vars(PersistNaturalExit(r))
  /\ \A r \in Runs : WF_vars(Reconcile(r))
  /\ WF_vars(Serve)

FairSpec == Spec /\ Fairness

-----------------------------------------------------------------------------
(* Safety. *)

(* A stop operation makes at most one signal attempt in its life, whatever *)
(* requests are repeated, writes lose their answer and crashes intervene:  *)
(* the reservation is durable before the signal, and a restart that finds  *)
(* it takes no control back.                                               *)
AtMostOneAttempt == \A o \in Operations : attempts[o] <= 1

(* The two tables never contradict each other: every operation reads back *)
(* as valid with its run, a run has at most one active stop, and it is in *)
(* a stopping state exactly while it has one.                             *)
LedgerCoherent ==
  /\ \A o \in Operations : ops[o].status # "ABSENT" => ReadableResult(o)
  /\ \A r \in Runs : \A o1, o2 \in ActiveOf(r) : o1 = o2
  /\ \A r \in Runs : runs[r] \in StoppingRunState <=> ActiveOf(r) # {}

(* The ledger statuses a worker may find its operation in: the one it left *)
(* there, or the one a write left there whose answer was lost.             *)
StatusSeenInPhase ==
  [p \in Phase |->
     CASE p = "Requested"         -> {"REQUESTED", "SIGNAL_PENDING"}
       [] p = "SignalPending"     -> {"SIGNAL_PENDING"}
       [] p = "SignalAttempted"   -> {"SIGNAL_PENDING", "IN_PROGRESS"}
       [] p = "Monitoring"        -> {"IN_PROGRESS", "TIMED_OUT"}
       [] p = "TimedOut"          -> {"TIMED_OUT"}
       [] p = "CompletionPending" -> ActiveStatus \cup {"COMPLETED"}]

(* Memory and ledger never contradict each other.  While the service runs  *)
(* nothing alive is forgotten: a run the ledger calls live has a Running   *)
(* control, a run being stopped has the control of its active operation.   *)
(* And the next write of a stop worker is one the ledger will take, so the *)
(* worker cannot get stuck: the result it is about to write is the one     *)
(* already written, or one that complete_stop accepts.                     *)
ControlsAgreeWithLedger ==
  /\ serving => \A r \in Runs :
       /\ runs[r] \in LiveRunState => controls[r].tag = "Running"
       /\ runs[r] \in StoppingRunState => Stopping(r) /\ controls[r].op \in ActiveOf(r)
  /\ \A r \in Runs : Stopping(r) =>
       LET row == ops[controls[r].op] IN
       /\ row.run = r
       /\ row.status \in StatusSeenInPhase[controls[r].phase]
       /\ controls[r].phase = "CompletionPending" =>
            \/ Completable(row, runs[r], controls[r].outcome)
            \/ row.status = "COMPLETED" /\ row.outcome = controls[r].outcome

-----------------------------------------------------------------------------
(* Action properties. *)

(* A result, once written, is never rewritten: neither the state of a run *)
(* that ended nor an operation that was completed or superseded.          *)
ResultsAreFinal ==
  [][/\ \A r \in Runs : runs[r] \in TerminalRunState => runs'[r] = runs[r]
     /\ \A o \in Operations : ops[o].status \in FinalStatus => ops'[o] = ops[o]]_vars

(* A run whose child the service owns is recorded as exited only when its *)
(* whole group is gone: a surviving descendant or a root that left its    *)
(* group is never mistaken for a complete exit.                           *)
OwnedExitIsComplete ==
  [][\A r \in Runs :
       /\ runs[r] # "EXITED" /\ runs'[r] = "EXITED"
       /\ controls[r].evidence.owned
       => world[r] \in {"GONE", "REUSED"}]_vars

(* The same for every control, recovered ones included. *)
ExitIsComplete ==
  [][\A r \in Runs :
       runs[r] # "EXITED" /\ runs'[r] = "EXITED"
       => world[r] \in {"GONE", "REUSED"}]_vars

-----------------------------------------------------------------------------
(* Liveness. *)

Unresolved(o) == ops[o].status \in {"REQUESTED", "SIGNAL_PENDING", "IN_PROGRESS"}

(* Every stop reaches a result or, when graceful, at least its timeout; a *)
(* force stop never waits for the process and always reaches a result.    *)
StopsComplete ==
  \A o \in Operations :
    /\ Unresolved(o) ~> ~Unresolved(o)
    /\ (ops[o].status \in ActiveStatus /\ ops[o].kind = "FORCE") ~> ops[o].status = "COMPLETED"

(* After its timeout a graceful stop still notices that the process is *)
(* gone, unless a force stop replaces it first.                        *)
TimedOutStopNoticesExit ==
  \A r \in Runs : \A o \in Operations :
    (ops[o].run = r /\ ops[o].status = "TIMED_OUT" /\ world[r] = "GONE")
      ~> ops[o].status \in FinalStatus

(* A force stop that was turned away because the graceful one was      *)
(* committing evidence is turned away only for a while: the error says *)
(* retry, and a retry must eventually be let through.                  *)
BlockedSupersessionClears ==
  \A r \in Runs : SupersessionBlocked(r) ~> ~SupersessionBlocked(r)

(* Neither a stop that timed out nor one that is in the way of a force *)
(* stop stays so for ever.                                             *)
NoStopIsStuck == TimedOutStopNoticesExit /\ BlockedSupersessionClears

=============================================================================
