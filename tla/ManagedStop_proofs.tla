------------------------- MODULE ManagedStop_proofs -------------------------
(***************************************************************************)
(* Theorems about the managed stop, for any sets of runs and operations,   *)
(* any number of crashes, and whether or not replies are lost: first what  *)
(* the ledger keeps, then what the service remembers beside it, a complete *)
(* exit, and the life cycle that clients see.                              *)
(***************************************************************************)
EXTENDS StopRefinement, TLAPS

USE NoneIsNothing, TerminalRunsAreRuns, CrashBound, SwitchesAreBoolean

(* What a stopping control remembers belongs to an operation of its run, *)
(* and is complete for the phase the worker is in.                       *)
ControlsNameTheirStop ==
  \A r \in Runs : Stopping(r) =>
    /\ controls[r].op \in Operations
    /\ ops[controls[r].op].run = r
    /\ ops[controls[r].op].status # "ABSENT"
    /\ controls[r].phase \in Phase
    /\ controls[r].phase = "SignalAttempted" => controls[r].disposition \in Disposition
    /\ controls[r].phase = "CompletionPending" => controls[r].outcome \in Outcome

(* An attempt needs a reservation, and a worker that has still to make its *)
(* attempt has not made it.                                                *)
AttemptsFollowReservations ==
  /\ \A o \in Operations : attempts[o] <= 1
  /\ \A o \in Operations : attempts[o] = 1 => ops[o].status \notin {"ABSENT", "REQUESTED"}
  /\ \A r \in Runs :
       Stopping(r) /\ controls[r].phase \in {"Requested", "SignalPending"}
         => attempts[controls[r].op] = 0
  /\ \A r \in Runs :
       Stopping(r) /\ controls[r].phase = "SignalPending"
         => ops[controls[r].op].status # "REQUESTED"

OneActiveStop == \A r \in Runs : \A o1, o2 \in ActiveOf(r) : o1 = o2

(* An active operation that a control could still be moved to, because it *)
(* is not the one the control works for, has not been started.            *)
UnclaimedStopsAreFresh ==
  \A r \in Runs : \A o \in ActiveOf(r) :
    \/ controls[r].tag \notin {"Running", "Stopping"}
    \/ Stopping(r) /\ controls[r].op = o
    \/ ops[o].status = "REQUESTED"

StopInv ==
  /\ TypeOK
  /\ ControlsNameTheirStop
  /\ AttemptsFollowReservations
  /\ OneActiveStop
  /\ UnclaimedStopsAreFresh

------------------------------------------------------------
(* The rows and controls that the actions build have their types. *)

(* insert_stop_operation writes a row of the table. *)
LEMMA RequestedRowType ==
  ASSUME NEW r \in Runs, NEW k \in Kind, NEW s \in Operations \cup {None}
  PROVE  RequestedRow(r, k, s) \in OperationRow
BY DEF RequestedRow, OperationRow, ActiveStatus

(* A completed row is a row of the table. *)
LEMMA CompletedRowType ==
  ASSUME NEW row \in OperationRow, NEW outcome \in Outcome
  PROVE  CompletedRow(row, outcome) \in OperationRow
BY DEF CompletedRow, OperationRow, FinalStatus

(* Controls are built with the fields of their kind. *)
LEMMA ControlTypes ==
  ASSUME NEW e \in Evidence, NEW o \in Operations \cup {None},
         NEW p \in Phase, NEW d \in Disposition \cup {"NONE"}, NEW l \in BOOLEAN
  PROVE  /\ StoppingControl(e, o, p, d, l) \in Control
         /\ \A t \in {"None", "Running", "Quarantined"} : PlainControl(t, e) \in Control
         /\ NoControl \in Control
BY DEF StoppingControl, PlainControl, NoControl, Recovered, Control, Evidence

(* Changing one field of a control or a row keeps its type. *)
LEMMA FieldUpdates ==
  /\ \A c \in Control :
       /\ \A p \in Phase : [c EXCEPT !.phase = p] \in Control
       /\ \A x \in Outcome : [c EXCEPT !.outcome = x] \in Control
       /\ \A d \in Disposition : [c EXCEPT !.disposition = d] \in Control
       /\ \A l \in BOOLEAN : [c EXCEPT !.late = l] \in Control
       /\ [c EXCEPT !.evidence.confirmed = TRUE] \in Control
  /\ \A row \in OperationRow :
       /\ \A s \in ActiveStatus \cup FinalStatus : [row EXCEPT !.status = s] \in OperationRow
       /\ \A d \in Disposition \cup {"NONE"} : [row EXCEPT !.disposition = d] \in OperationRow
<1>1. ASSUME NEW c \in Control
      PROVE  /\ \A p \in Phase : [c EXCEPT !.phase = p] \in Control
             /\ \A x \in Outcome : [c EXCEPT !.outcome = x] \in Control
             /\ \A d \in Disposition : [c EXCEPT !.disposition = d] \in Control
             /\ \A l \in BOOLEAN : [c EXCEPT !.late = l] \in Control
  BY DEF Control
<1>2. ASSUME NEW c \in Control
      PROVE  [c EXCEPT !.evidence.confirmed = TRUE] \in Control
  BY DEF Control, Evidence
<1>3. ASSUME NEW row \in OperationRow
      PROVE  /\ \A s \in ActiveStatus \cup FinalStatus : [row EXCEPT !.status = s] \in OperationRow
             /\ \A d \in Disposition \cup {"NONE"} : [row EXCEPT !.disposition = d] \in OperationRow
  BY DEF OperationRow
<1> QED BY <1>1, <1>2, <1>3

(* The phase of a stored status, and the state an outcome leaves behind. *)
LEMMA DecisionTypes ==
  /\ \A status \in ActiveStatus : PhaseOfStatus(status) \in Phase
  /\ \A outcome \in Outcome : RunStateAfter(outcome) \in TerminalRunState
  /\ \A state \in TerminalRunState : OutcomeOfFinishedRun(state) \in Outcome
  /\ \A kind : SignalledRunState(kind) \in StoppingRunState
  /\ TerminalRunState \subseteq RunState /\ StoppingRunState \subseteq RunState
  /\ StoppingRunState \cap TerminalRunState = {}
  /\ LiveRunState \cap (StoppingRunState \cup TerminalRunState) = {}
BY DEF ActiveStatus, PhaseOfStatus, Phase, Outcome, RunStateAfter, TerminalRunState,
       OutcomeOfFinishedRun, SignalledRunState, StoppingRunState, RunState, LiveRunState

(* Attaching a control to rows and run states that have their types leaves *)
(* everything with its type.                                               *)
LEMMA AttachTypes ==
  ASSUME TypeOK, NEW r \in Runs, NEW o \in Operations,
         NEW newOps \in [Operations -> OperationRow], NEW newRuns \in [Runs -> RunState],
         newOps[o].status \in ActiveStatus,
         AttachControl(r, o, newOps, newRuns)
  PROVE  /\ ops' \in [Operations -> OperationRow]
         /\ runs' \in [Runs -> RunState]
         /\ controls' \in [Runs -> Control]
<1> DEFINE row == newOps[o]
<1>1. CASE /\ ops' = newOps /\ runs' = newRuns
           /\ controls' = [controls EXCEPT ![r] =
                StoppingControl(@.evidence, o, PhaseOfStatus(row.status), row.disposition, FALSE)]
  <2>1. controls[r].evidence \in Evidence
    BY DEF TypeOK, Control
  <2>2. row.disposition \in Disposition \cup {"NONE"}
    BY DEF OperationRow
  <2>3. PhaseOfStatus(row.status) \in Phase
    BY DecisionTypes
  <2>4. StoppingControl(controls[r].evidence, o, PhaseOfStatus(row.status),
                        row.disposition, FALSE) \in Control
    BY <2>1, <2>2, <2>3, ControlTypes
  <2> QED BY <1>1, <2>4 DEF TypeOK
<1>2. CASE /\ ops' = [newOps EXCEPT ![o] = CompletedRow(@, "ORPHANED")]
           /\ runs' = [newRuns EXCEPT ![r] = RunStateAfter("ORPHANED")]
           /\ UNCHANGED controls
  BY <1>2, CompletedRowType, DecisionTypes DEF Outcome, TypeOK
<1>3. CASE ops' = newOps /\ runs' = newRuns /\ UNCHANGED controls
  BY <1>3 DEF TypeOK
<1> QED BY <1>1, <1>2, <1>3 DEF AttachControl

(* Initially everything has its type. *)
LEMMA InitTypes == Init => TypeOK
<1> SUFFICES ASSUME Init PROVE TypeOK
  OBVIOUS
<1>1. /\ Owned \in Evidence /\ Recovered \in Evidence
      /\ PlainControl("Running", Owned) \in Control /\ NoControl \in Control
  BY DEF Owned, Recovered, Evidence, PlainControl, NoControl, Control
<1>2. PICK launched \in [Runs -> LaunchResult] :
        /\ runs     = [r \in Runs |-> launched[r][1]]
        /\ controls = [r \in Runs |-> launched[r][2]]
        /\ world    = [r \in Runs |-> launched[r][3]]
  BY DEF Init
<1>3. \A x \in LaunchResult : x[1] \in RunState /\ x[2] \in Control /\ x[3] \in World
  BY <1>1 DEF LaunchResult, RunState, World
<1>4. AbsentRow \in OperationRow
  BY DEF AbsentRow, OperationRow, Kind
<1> QED BY <1>2, <1>3, <1>4 DEF Init, TypeOK

(* Every step keeps everything in its type. *)
LEMMA StepTypes ==
  ASSUME TypeOK, ControlsNameTheirStop, Next
  PROVE  TypeOK'
<1>1. ASSUME NEW r \in Runs, NEW o \in Operations, NEW k \in Kind, BeginLive(r, o, k)
      PROVE  TypeOK'
  <2> DEFINE newOps  == [ops EXCEPT ![o] = RequestedRow(r, k, None)]
             newRuns == [runs EXCEPT ![r] = "STOP_REQUESTED"]
  <2>1. newOps \in [Operations -> OperationRow] /\ newOps[o].status \in ActiveStatus
    BY RequestedRowType DEF TypeOK, RequestedRow, ActiveStatus
  <2>2. newRuns \in [Runs -> RunState]
    BY DEF TypeOK, RunState
  <2>3. AttachControl(r, o, newOps, newRuns)
    BY <1>1 DEF BeginLive
  <2> QED BY <1>1, <2>1, <2>2, <2>3, AttachTypes DEF BeginLive, TypeOK
<1>2. ASSUME NEW r \in Runs, NEW o \in Operations, NEW k \in Kind, BeginFinished(r, o, k)
      PROVE  TypeOK'
  BY <1>2, DecisionTypes, RequestedRowType, CompletedRowType DEF BeginFinished, TypeOK, memory
<1>3. ASSUME NEW r \in Runs, NEW o \in Operations, NEW g \in Operations,
             BeginSupersede(r, o, g)
      PROVE  TypeOK'
  <2> DEFINE newOps == [ops EXCEPT ![g].status = "SUPERSEDED",
                                   ![o] = RequestedRow(r, "FORCE", g)]
  <2>1. RequestedRow(r, "FORCE", g) \in OperationRow
    BY RequestedRowType DEF Kind
  <2>2. [ops[g] EXCEPT !.status = "SUPERSEDED"] \in OperationRow
    BY DEF TypeOK, OperationRow, FinalStatus
  <2>3. newOps \in [Operations -> OperationRow] /\ newOps[o].status \in ActiveStatus
    BY <2>1, <2>2 DEF TypeOK, RequestedRow, ActiveStatus
  <2>4. AttachControl(r, o, newOps, runs)
    BY <1>3 DEF BeginSupersede
  <2> QED BY <1>3, <2>3, <2>4, AttachTypes DEF BeginSupersede, TypeOK
<1>4. ASSUME NEW r \in Runs, NEW o \in Operations, BeginReplay(r, o)
      PROVE  TypeOK'
  BY <1>4, AttachTypes DEF BeginReplay, ActiveOf, TypeOK
<1>5. ASSUME NEW r \in Runs, WorkerStep(r)
      PROVE  TypeOK'
  <2>1. CASE ReserveSignal(r)
    <3>1. "SIGNAL_PENDING" \in ActiveStatus /\ "SignalPending" \in Phase
      BY DEF ActiveStatus, Phase
    <3>2. ops' \in [Operations -> OperationRow]
      BY <2>1, <3>1, FieldUpdates DEF ReserveSignal, TypeOK
    <3>3. controls' \in [Runs -> Control]
      <4>1. Advance(r, "SignalPending") \/ UNCHANGED controls
        BY <2>1 DEF ReserveSignal
      <4>2. [controls[r] EXCEPT !.phase = "SignalPending"] \in Control
        BY <3>1, FieldUpdates DEF TypeOK
      <4> QED BY <4>1, <4>2 DEF Advance, TypeOK
    <3> QED BY <2>1, <3>2, <3>3 DEF ReserveSignal, TypeOK
  <2>2. CASE SendSignal(r)
    <3>1. {"SignalAttempted", "CompletionPending"} \subseteq Phase
      BY DEF Phase
    <3>2. controls[r] \in Control /\ controls[r].op \in Operations
      BY <2>2 DEF ControlsNameTheirStop, SendSignal, InPhase, TypeOK
    <3>3. PICK result \in SignalResults(controls[r].evidence, world[r]) :
            \/ /\ result \in Disposition
               /\ controls' = [controls EXCEPT ![r].phase = "SignalAttempted",
                                               ![r].disposition = result]
               /\ attempts' = [attempts EXCEPT ![controls[r].op] = @ + 1]
            \/ /\ result \notin Disposition
               /\ Conclude(r, result)
               /\ UNCHANGED attempts
      BY <2>2 DEF SendSignal
    <3>4. result \in Disposition \cup Outcome
      BY DEF TypeOK, World, SignalResults, Disposition, Outcome
    <3>5. attempts' \in [Operations -> Nat]
      BY <3>2, <3>3 DEF TypeOK
    <3>6. controls' \in [Runs -> Control]
      <4>1. CASE result \in Disposition
        <5>1. controls' = [controls EXCEPT ![r] =
                             [[controls[r] EXCEPT !.phase = "SignalAttempted"]
                                           EXCEPT !.disposition = result]]
          BY <3>2, <3>3, <4>1 DEF TypeOK
        <5> QED BY <3>1, <3>2, <4>1, <5>1, FieldUpdates DEF TypeOK
      <4>2. CASE result \notin Disposition
        <5>1. [[controls[r] EXCEPT !.phase = "CompletionPending"] EXCEPT !.outcome = result]
                \in Control
          BY <3>1, <3>2, <3>4, <4>2, FieldUpdates
        <5> QED BY <3>3, <4>2, <5>1 DEF Conclude, TypeOK
      <4> QED BY <4>1, <4>2
    <3> QED BY <2>2, <3>5, <3>6 DEF SendSignal, TypeOK, ledger
  <2>3. CASE RecordAttempt(r)
    <3> DEFINE o == controls[r].op
    <3>1. o \in Operations /\ controls[r] \in Control
      BY <2>3 DEF ControlsNameTheirStop, RecordAttempt, InPhase, TypeOK
    <3>2. ops' \in [Operations -> OperationRow]
      <4>1. controls[r].disposition \in Disposition \cup {"NONE"} /\ "IN_PROGRESS" \in ActiveStatus
        BY <3>1 DEF Control, ActiveStatus
      <4> QED BY <2>3, <3>1, <4>1, FieldUpdates DEF RecordAttempt, TypeOK, ledger
    <3>3. runs' \in [Runs -> RunState]
      BY <2>3, DecisionTypes DEF RecordAttempt, TypeOK, ledger
    <3>4. controls' \in [Runs -> Control]
      BY <2>3, <3>1 DEF RecordAttempt, TypeOK, Control, Phase
    <3> QED BY <2>3, <3>2, <3>3, <3>4 DEF RecordAttempt, TypeOK
  <2>4. CASE ObserveExit(r)
    BY <2>4, FieldUpdates DEF Phase, Outcome, ObserveExit, TypeOK, ledger
  <2>5. CASE ObserveLostBoundary(r)
    BY <2>5, FieldUpdates DEF Phase, Outcome, ObserveLostBoundary, Conclude, TypeOK, ledger
  <2>6. CASE GracefulTimeout(r)
    <3>1. "TimedOut" \in Phase /\ "TIMED_OUT" \in ActiveStatus
      BY DEF Phase, ActiveStatus
    <3>2. controls' \in [Runs -> Control]
      <4>1. Advance(r, "TimedOut") \/ UNCHANGED controls
        BY <2>6 DEF GracefulTimeout
      <4>2. [controls[r] EXCEPT !.phase = "TimedOut"] \in Control
        BY <3>1, FieldUpdates DEF TypeOK
      <4> QED BY <4>1, <4>2 DEF Advance, TypeOK
    <3>3. ops' \in [Operations -> OperationRow]
      BY <2>6, <3>1, FieldUpdates DEF GracefulTimeout, TypeOK
    <3> QED BY <2>6, <3>2, <3>3 DEF GracefulTimeout, TypeOK
  <2>7. CASE ForceTimeout(r)
    <3>1. "CompletionPending" \in Phase /\ {"ORPHANED", "SIGNAL_UNAVAILABLE"} \subseteq Outcome
      BY DEF Phase, Outcome
    <3>2. PICK outcome \in {"ORPHANED", "SIGNAL_UNAVAILABLE"} : Conclude(r, outcome)
      BY <2>7 DEF ForceTimeout
    <3>3. [[controls[r] EXCEPT !.phase = "CompletionPending"] EXCEPT !.outcome = outcome] \in Control
      BY <3>1, FieldUpdates DEF TypeOK
    <3>4. controls' \in [Runs -> Control]
      BY <3>2, <3>3 DEF Conclude, TypeOK
    <3> QED BY <2>7, <3>4 DEF ForceTimeout, TypeOK, ledger
  <2>8. CASE CompleteStop(r)
    <3> DEFINE o == controls[r].op
    <3>1. o \in Operations /\ controls[r].outcome \in Outcome /\ controls[r].evidence \in Evidence
      BY <2>8 DEF ControlsNameTheirStop, CompleteStop, InPhase, TypeOK, Control
    <3>2. ops' \in [Operations -> OperationRow]
      BY <2>8, <3>1, CompletedRowType DEF CompleteStop, TypeOK, ledger
    <3>3. runs' \in [Runs -> RunState]
      BY <2>8, <3>1, DecisionTypes DEF CompleteStop, TypeOK, ledger
    <3>4. controls' \in [Runs -> Control]
      <4>1. NoControl \in Control /\ PlainControl("Quarantined", controls[r].evidence) \in Control
        BY <3>1 DEF PlainControl, NoControl, Recovered, Control, Evidence
      <4> QED BY <2>8, <4>1 DEF CompleteStop, FinalizeControl, TypeOK
    <3> QED BY <2>8, <3>2, <3>3, <3>4 DEF CompleteStop, TypeOK
  <2> QED BY <1>5, <2>1, <2>2, <2>3, <2>4, <2>5, <2>6, <2>7, <2>8 DEF WorkerStep
<1>6. ASSUME NEW r \in Runs, ElapseDeadline(r)
      PROVE  TypeOK'
  BY <1>6, FieldUpdates DEF ElapseDeadline, TypeOK, ledger
<1>7. ASSUME NEW r \in Runs, ConfirmNaturalExit(r)
      PROVE  TypeOK'
  BY <1>7, FieldUpdates DEF ConfirmNaturalExit, TypeOK, ledger
<1>8. ASSUME NEW r \in Runs, PersistNaturalExit(r)
      PROVE  TypeOK'
  <2>1. NoControl \in Control
    BY DEF PlainControl, NoControl, Recovered, Control, Evidence
  <2> QED BY <1>8, <2>1 DEF PersistNaturalExit, TypeOK, RunState
<1>9. ASSUME NEW r \in Runs, Reconcile(r)
      PROVE  TypeOK'
  <2>1. CASE /\ MayRegainControl(r)
             /\ runs' = [runs EXCEPT ![r] = IF ActiveOf(r) = {} THEN "RECOVERED" ELSE @]
             /\ controls' = [controls EXCEPT ![r] = RecoveredControl(r)]
             /\ UNCHANGED ops
    <3>1. RecoveredControl(r) \in Control
      <4>1. CASE ActiveOf(r) = {}
        BY <4>1 DEF RecoveredControl, PlainControl, Recovered, Control, Evidence
      <4>2. CASE ActiveOf(r) # {}
        <5> DEFINE o == CHOOSE o \in ActiveOf(r) : TRUE
                   phase == ResumePhase(ops[o], runs[r])
        <5>1. o \in Operations /\ o \in ActiveOf(r)
          BY <4>2 DEF ActiveOf
        <5>2. phase \in Phase
          BY <2>1, <4>2, <5>1 DEF MayRegainControl, ResumePhase, Phase
        <5>3. ops[o].disposition \in Disposition \cup {"NONE"} /\ Recovered \in Evidence
          BY <5>1 DEF TypeOK, OperationRow, Recovered, Evidence
        <5> HIDE DEF o, phase
        <5>4. StoppingControl(Recovered, o, phase, ops[o].disposition, phase # "Requested") \in Control
          BY <5>1, <5>2, <5>3, ControlTypes
        <5> QED BY <4>2, <5>4 DEF RecoveredControl, o, phase
      <4> QED BY <4>1, <4>2
    <3> QED BY <1>9, <2>1, <3>1 DEF Reconcile, TypeOK, RunState
  <2>2. ASSUME NEW found \in {"EXITED_WHILE_OFFLINE", "IDENTITY_MISMATCH", "ORPHANED"},
               runs' = [runs EXCEPT ![r] = found],
               ops' = [o \in Operations |->
                 IF o \in ActiveOf(r)
                 THEN CompletedRow(ops[o], StopOutcomeAfterRecovery(found))
                 ELSE ops[o]],
               UNCHANGED controls
        PROVE  TypeOK'
    BY <1>9, <2>2, CompletedRowType DEF StopOutcomeAfterRecovery, Outcome, TypeOK, Reconcile,
       RunState
  <2>3. ProbeResults(world[r]) \subseteq RecoveryOutcome
    BY DEF TypeOK, World, ProbeResults, RecoveryOutcome
  <2> QED BY <1>9, <2>1, <2>2, <2>3 DEF Reconcile, RecoveryOutcome
<1>10. ASSUME NEW r \in Runs, ProcessChanges(r)
       PROVE  TypeOK'
  BY <1>10 DEF ProcessChanges, WorldStep, TypeOK, World, ledger, memory
<1>11. CASE Crash
  <2>1. NoControl \in Control
    BY DEF PlainControl, NoControl, Recovered, Control, Evidence
  <2>2. UNCHANGED <<runs, ops, world, attempts>>
    BY <1>11 DEF Crash, ledger
  <2>3. crashes' \in 0..MaxCrashes
    BY <1>11 DEF Crash, TypeOK
  <2>4. controls' \in [Runs -> Control] /\ pending' \subseteq Runs /\ serving' \in BOOLEAN
    BY <1>11, <2>1 DEF Crash
  <2> QED BY <2>2, <2>3, <2>4 DEF TypeOK
<1>12. CASE Serve
  BY <1>12 DEF Serve, TypeOK, ledger
<1> QED BY <1>1, <1>2, <1>3, <1>4, <1>5, <1>6, <1>7, <1>8, <1>9, <1>10, <1>11, <1>12
        DEF Next, Request

------------------------------------------------------------
(* How far a step reaches. *)

(* A request touches only the control of its run and, of what was to be    *)
(* written, only the row of its operation.  The control it moves works for *)
(* the operation from now on.                                              *)
LEMMA AttachReach ==
  ASSUME TypeOK, NEW r \in Runs, NEW o \in Operations,
         NEW newOps \in [Operations -> OperationRow], NEW newRuns \in [Runs -> RunState],
         AttachControl(r, o, newOps, newRuns)
  PROVE  /\ \A q \in Runs \ {r} : controls'[q] = controls[q]
         /\ \A p \in Operations \ {o} : ops'[p] = newOps[p]
         /\ ops'[o].run = newOps[o].run
         /\ ops'[o] = newOps[o] \/ ops'[o].status = "COMPLETED"
         /\ \/ controls' = controls
            \/ /\ ProcessTakeable(r, newOps[o].supersedes)
               /\ ops' = newOps
               /\ controls'[r].tag = "Stopping" /\ controls'[r].op = o
               /\ controls'[r].phase = PhaseOfStatus(newOps[o].status)
<1>1. CASE /\ ProcessTakeable(r, newOps[o].supersedes)
           /\ ops' = newOps /\ runs' = newRuns
           /\ controls' = [controls EXCEPT ![r] = StoppingControl(@.evidence, o,
                PhaseOfStatus(newOps[o].status), newOps[o].disposition, FALSE)]
  BY <1>1 DEF TypeOK, StoppingControl
<1>2. CASE /\ ops' = [newOps EXCEPT ![o] = CompletedRow(@, "ORPHANED")]
           /\ UNCHANGED controls
  BY <1>2 DEF CompletedRow, OperationRow
<1>3. CASE ops' = newOps /\ UNCHANGED controls
  BY <1>3
<1> QED BY <1>1, <1>2, <1>3 DEF AttachControl

(* A worker touches only its own control and its own operation.  It never *)
(* revives an operation, and it signals only out of the SignalPending     *)
(* phase, which it leaves by doing so.                                    *)
LEMMA WorkerReach ==
  ASSUME TypeOK, ControlsNameTheirStop, NEW r \in Runs, WorkerStep(r)
  PROVE  LET o == controls[r].op IN
         /\ Stopping(r)
         /\ \A q \in Runs \ {r} : controls'[q] = controls[q]
         /\ \A p \in Operations \ {o} : ops'[p] = ops[p] /\ attempts'[p] = attempts[p]
         /\ ops'[o].run = r
         /\ ops'[o] = ops[o] \/ ops'[o].status \notin {"ABSENT", "REQUESTED"}
         /\ ops'[o].status \in ActiveStatus => ops[o].status \in ActiveStatus
         /\ \/ controls'[r].tag \in {"None", "Quarantined"}
            \/ /\ controls'[r].tag = "Stopping" /\ controls'[r].op = o
               /\ controls'[r].phase \in Phase
               /\ controls'[r].phase = "SignalAttempted" => controls'[r].disposition \in Disposition
               /\ controls'[r].phase = "CompletionPending" => controls'[r].outcome \in Outcome
         /\ \/ attempts'[o] = attempts[o]
            \/ /\ controls[r].phase = "SignalPending"
               /\ attempts'[o] = attempts[o] + 1
               /\ controls'[r].phase = "SignalAttempted"
         /\ controls'[r].tag = "Stopping" /\ controls'[r].phase \in {"Requested", "SignalPending"}
              => /\ controls[r].phase \in {"Requested", "SignalPending"}
                 /\ attempts'[o] = attempts[o]
         /\ controls'[r].tag = "Stopping" /\ controls'[r].phase = "SignalPending"
              => ops'[o].status # "REQUESTED"
<1> DEFINE o == controls[r].op
<1>1. /\ Stopping(r) /\ o \in Operations /\ ops[o].run = r /\ ops[o].status # "ABSENT"
      /\ controls[r] \in Control /\ ops[o] \in OperationRow /\ controls[r].phase \in Phase
  BY DEF WorkerStep, ReserveSignal, SendSignal, RecordAttempt, ObserveExit, ObserveLostBoundary,
         GracefulTimeout, ForceTimeout, CompleteStop, InPhase, ControlsNameTheirStop, TypeOK
<1>2. CASE ReserveSignal(r)
  BY <1>1, <1>2
    DEF ReserveSignal, InPhase, Advance, Stopping, TypeOK, Control, OperationRow, ActiveStatus,
        Phase
<1>3. CASE SendSignal(r)
  <2>1. UNCHANGED ops
    BY <1>3 DEF SendSignal, ledger
  <2>2. PICK result \in SignalResults(controls[r].evidence, world[r]) :
          \/ /\ result \in Disposition
             /\ controls' = [controls EXCEPT ![r].phase = "SignalAttempted",
                                             ![r].disposition = result]
             /\ attempts' = [attempts EXCEPT ![o] = @ + 1]
          \/ /\ result \notin Disposition
             /\ Conclude(r, result)
             /\ UNCHANGED attempts
    BY <1>3 DEF SendSignal
  <2>3. result \in Disposition \cup Outcome
    BY <2>2 DEF SignalResults, Disposition, Outcome, TypeOK, World
  <2>4. CASE result \in Disposition
    <3>1. /\ \A q \in Runs \ {r} : controls'[q] = controls[q]
          /\ controls'[r].tag = "Stopping" /\ controls'[r].op = o
          /\ controls'[r].phase = "SignalAttempted" /\ controls'[r].disposition = result
      BY <1>1, <2>2, <2>4 DEF Stopping, TypeOK, Control
    <3>2. /\ \A p \in Operations \ {o} : attempts'[p] = attempts[p]
          /\ attempts'[o] = attempts[o] + 1
      BY <1>1, <2>2, <2>4 DEF TypeOK
    <3> QED BY <1>1, <1>3, <2>1, <2>4, <3>1, <3>2 DEF SendSignal, InPhase, Phase
  <2>5. CASE result \notin Disposition
    <3>1. /\ \A q \in Runs \ {r} : controls'[q] = controls[q]
          /\ controls'[r].tag = "Stopping" /\ controls'[r].op = o
          /\ controls'[r].phase = "CompletionPending" /\ controls'[r].outcome = result
      BY <1>1, <2>2, <2>5 DEF Conclude, Stopping, TypeOK, Control
    <3> QED BY <1>1, <2>1, <2>2, <2>3, <2>5, <3>1 DEF Phase
  <2> QED BY <2>4, <2>5
<1>4. CASE RecordAttempt(r)
  <2>1. UNCHANGED attempts /\ controls[r].phase = "SignalAttempted"
    BY <1>4 DEF RecordAttempt, InPhase
  <2>2. /\ ops' = [ops EXCEPT ![o].status = "IN_PROGRESS", ![o].disposition = controls[r].disposition]
           \/ UNCHANGED ops
        /\ ops[o].status \in {"SIGNAL_PENDING", "IN_PROGRESS"}
    BY <1>4 DEF RecordAttempt, ledger
  <2>3. /\ \A p \in Operations \ {o} : ops'[p] = ops[p]
        /\ ops'[o].run = r
        /\ ops'[o].status \notin {"ABSENT", "REQUESTED"}
        /\ ops[o].status \in ActiveStatus
    BY <1>1, <2>2 DEF TypeOK, OperationRow, ActiveStatus
  <2>4. controls' = [controls EXCEPT ![r].phase = "Monitoring", ![r].late = FALSE]
        \/ UNCHANGED controls
    BY <1>4 DEF RecordAttempt
  <2> QED BY <1>1, <2>1, <2>3, <2>4 DEF ControlsNameTheirStop, Stopping, TypeOK, Control, Phase
<1>5. CASE ObserveExit(r)
  <2>1. UNCHANGED <<ops, attempts>>
    BY <1>5 DEF ObserveExit, ledger
  <2>2. "EXITED" \in Outcome /\ "CompletionPending" \in Phase
    BY DEF Outcome, Phase
  <2>3. /\ \A q \in Runs \ {r} : controls'[q] = controls[q]
        /\ controls'[r].tag = "Stopping" /\ controls'[r].op = o
        /\ controls'[r].phase = "CompletionPending" /\ controls'[r].outcome = "EXITED"
    BY <1>1, <1>5 DEF ObserveExit, Stopping, TypeOK, Control
  <2> QED BY <1>1, <2>1, <2>2, <2>3
<1>6. CASE ObserveLostBoundary(r)
  <2>1. UNCHANGED <<ops, attempts>>
    BY <1>6 DEF ObserveLostBoundary, ledger
  <2>2. "ORPHANED" \in Outcome /\ "CompletionPending" \in Phase
    BY DEF Outcome, Phase
  <2>3. /\ \A q \in Runs \ {r} : controls'[q] = controls[q]
        /\ controls'[r].tag = "Stopping" /\ controls'[r].op = o
        /\ controls'[r].phase = "CompletionPending" /\ controls'[r].outcome = "ORPHANED"
    BY <1>1, <1>6 DEF ObserveLostBoundary, Conclude, Stopping, TypeOK, Control
  <2> QED BY <1>1, <2>1, <2>2, <2>3
<1>7. CASE GracefulTimeout(r)
  <2>1. UNCHANGED attempts /\ controls[r].phase = "Monitoring"
    BY <1>7 DEF GracefulTimeout, InPhase
  <2>2. /\ ops' = [ops EXCEPT ![o].status = "TIMED_OUT"] \/ UNCHANGED ops
        /\ ops[o].status \in {"IN_PROGRESS", "TIMED_OUT"}
    BY <1>7 DEF GracefulTimeout
  <2>3. /\ \A p \in Operations \ {o} : ops'[p] = ops[p]
        /\ ops'[o].run = r
        /\ ops'[o].status \notin {"ABSENT", "REQUESTED"}
        /\ ops[o].status \in ActiveStatus
    BY <1>1, <2>2 DEF TypeOK, OperationRow, ActiveStatus
  <2>4. controls' = [controls EXCEPT ![r].phase = "TimedOut"] \/ UNCHANGED controls
    BY <1>7 DEF GracefulTimeout, Advance
  <2> QED BY <1>1, <2>1, <2>3, <2>4 DEF ControlsNameTheirStop, Stopping, TypeOK, Control, Phase
<1>8. CASE ForceTimeout(r)
  <2>1. UNCHANGED <<ops, attempts>>
    BY <1>8 DEF ForceTimeout, ledger
  <2>2. {"ORPHANED", "SIGNAL_UNAVAILABLE"} \subseteq Outcome /\ "CompletionPending" \in Phase
    BY DEF Outcome, Phase
  <2>3. PICK outcome \in {"ORPHANED", "SIGNAL_UNAVAILABLE"} : Conclude(r, outcome)
    BY <1>8 DEF ForceTimeout
  <2>4. /\ \A q \in Runs \ {r} : controls'[q] = controls[q]
        /\ controls'[r].tag = "Stopping" /\ controls'[r].op = o
        /\ controls'[r].phase = "CompletionPending" /\ controls'[r].outcome = outcome
    BY <1>1, <2>3 DEF Conclude, Stopping, TypeOK, Control
  <2> QED BY <1>1, <2>1, <2>2, <2>4
<1>9. CASE CompleteStop(r)
  <2>1. UNCHANGED attempts /\ controls[r].phase = "CompletionPending"
    BY <1>9 DEF CompleteStop, InPhase
  <2>2. CompletedRow(ops[o], controls[r].outcome).run = r
        /\ CompletedRow(ops[o], controls[r].outcome).status = "COMPLETED"
    BY <1>1 DEF CompletedRow, OperationRow
  <2>3. \/ ops' = [ops EXCEPT ![o] = CompletedRow(@, controls[r].outcome)]
        \/ UNCHANGED ops /\ ops[o].status = "COMPLETED"
    BY <1>9 DEF CompleteStop, ledger
  <2>4. /\ \A p \in Operations \ {o} : ops'[p] = ops[p]
        /\ ops'[o].run = r
        /\ ops'[o].status = "COMPLETED"
    BY <1>1, <2>2, <2>3 DEF TypeOK
  <2>5. \/ controls' = controls
        \/ /\ \A q \in Runs \ {r} : controls'[q] = controls[q]
           /\ controls'[r].tag \in {"None", "Quarantined"}
    BY <1>9 DEF CompleteStop, FinalizeControl, NoControl, PlainControl, TypeOK
  <2>6. "COMPLETED" \notin ActiveStatus
    BY DEF ActiveStatus
  <2> QED BY <1>1, <2>1, <2>4, <2>5, <2>6 DEF ControlsNameTheirStop, Stopping, TypeOK
<1> QED BY <1>2, <1>3, <1>4, <1>5, <1>6, <1>7, <1>8, <1>9 DEF WorkerStep

------------------------------------------------------------
(* The inductive invariant behind AtMostOneAttempt. *)

(* A request keeps the invariant if its operation is, among the rows it  *)
(* was to write, the only active one of its run and has not been started *)
(* when a control is moved to it.                                        *)
LEMMA AttachKeepsStopInv ==
  ASSUME StopInv, NEW r \in Runs, NEW o \in Operations,
         NEW newOps \in [Operations -> OperationRow], NEW newRuns \in [Runs -> RunState],
         AttachControl(r, o, newOps, newRuns), UNCHANGED attempts, TypeOK',
         newOps[o].run = r,
         newOps[o].status \in ActiveStatus,
         \A p \in Operations \ {o} :
           /\ newOps[p].run = ops[p].run
           /\ newOps[p].status = ops[p].status \/ newOps[p].status = "SUPERSEDED"
           /\ newOps[p].run = r => newOps[p].status \notin ActiveStatus,
         newOps[o] = ops[o] \/ (ops[o].status = "ABSENT" /\ newOps[o].status = "REQUESTED"),
         ops[o].status # "ABSENT" => ops[o].run = r,
         ProcessTakeable(r, newOps[o].supersedes) => newOps[o].status = "REQUESTED"
  PROVE  StopInv'
<1>1. /\ \A q \in Runs \ {r} : controls'[q] = controls[q]
      /\ \A p \in Operations \ {o} : ops'[p] = newOps[p]
      /\ ops'[o].run = newOps[o].run
      /\ ops'[o] = newOps[o] \/ ops'[o].status = "COMPLETED"
      /\ \/ controls' = controls
         \/ /\ ProcessTakeable(r, newOps[o].supersedes)
            /\ ops' = newOps
            /\ controls'[r].tag = "Stopping" /\ controls'[r].op = o
            /\ controls'[r].phase = PhaseOfStatus(newOps[o].status)
  BY AttachReach DEF StopInv
<1>2. /\ ops'[o].run = r
      /\ ops'[o].status # "ABSENT"
      /\ \A p \in Operations \ {o} :
           /\ ops'[p].run = ops[p].run
           /\ ops'[p].status = ops[p].status \/ ops'[p].status = "SUPERSEDED"
           /\ ops'[p].run = r => ops'[p].status \notin ActiveStatus
  BY <1>1 DEF ActiveStatus
<1>3. \/ controls' = controls
      \/ /\ controls'[r].tag = "Stopping" /\ controls'[r].op = o
         /\ controls'[r].phase = "Requested"
         /\ ops'[o].status = "REQUESTED" /\ attempts[o] = 0
  <2>1. attempts[o] \in Nat /\ attempts[o] <= 1
        /\ (attempts[o] = 1 => ops[o].status \notin {"ABSENT", "REQUESTED"})
    BY DEF StopInv, AttemptsFollowReservations, TypeOK
  <2>2. newOps[o].status = "REQUESTED" => ops[o].status \in {"ABSENT", "REQUESTED"}
    OBVIOUS
  <2>3. newOps[o].status = "REQUESTED" => attempts[o] = 0
    BY <2>1, <2>2
  <2> QED BY <1>1, <2>3 DEF PhaseOfStatus
<1>4. ControlsNameTheirStop'
  BY <1>1, <1>2, <1>3 DEF StopInv, ControlsNameTheirStop, Stopping, Phase
<1>5. AttemptsFollowReservations'
  <2>1. \A p \in Operations : attempts'[p] <= 1
    BY DEF StopInv, AttemptsFollowReservations
  <2>2. \A p \in Operations : attempts'[p] = 1 => ops'[p].status \notin {"ABSENT", "REQUESTED"}
    BY <1>1, <1>2 DEF StopInv, AttemptsFollowReservations
  <2>3. ASSUME NEW q \in Runs, Stopping(q)', controls'[q].phase \in {"Requested", "SignalPending"}
        PROVE  attempts'[controls'[q].op] = 0
    BY <1>1, <1>3, <2>3 DEF StopInv, AttemptsFollowReservations, Stopping
  <2>4. ASSUME NEW q \in Runs, Stopping(q)', controls'[q].phase = "SignalPending"
        PROVE  ops'[controls'[q].op].status # "REQUESTED"
    BY <1>1, <1>2, <1>3, <2>4
       DEF StopInv, AttemptsFollowReservations, ControlsNameTheirStop, Stopping
  <2> QED BY <2>1, <2>2, <2>3, <2>4 DEF AttemptsFollowReservations
<1>6. OneActiveStop'
  BY <1>2 DEF StopInv, OneActiveStop, ActiveOf, ActiveStatus
<1>7. UnclaimedStopsAreFresh'
  <2> SUFFICES ASSUME NEW q \in Runs, NEW p \in ActiveOf(q)'
               PROVE  \/ controls'[q].tag \notin {"Running", "Stopping"}
                      \/ controls'[q].tag = "Stopping" /\ controls'[q].op = p
                      \/ ops'[p].status = "REQUESTED"
    BY DEF UnclaimedStopsAreFresh, Stopping
  <2>1. p \in Operations /\ ops'[p].run = q /\ ops'[p].status \in ActiveStatus
    BY DEF ActiveOf
  <2>2. CASE p # o
    BY <1>1, <1>2, <2>1, <2>2 DEF ActiveOf, ActiveStatus, StopInv, UnclaimedStopsAreFresh,
       Stopping
  <2>3. CASE p = o
    <3>1. q = r /\ ops'[o] = newOps[o]
      BY <1>1, <1>2, <2>1, <2>3 DEF ActiveStatus
    <3>2. CASE newOps[o] = ops[o] /\ controls' = controls
      BY <2>1, <2>3, <3>1, <3>2 DEF ActiveOf, StopInv, UnclaimedStopsAreFresh, Stopping
    <3> QED BY <1>3, <2>3, <3>1, <3>2
  <2> QED BY <2>2, <2>3
<1> QED BY <1>4, <1>5, <1>6, <1>7 DEF StopInv

(* A worker step keeps the invariant. *)
LEMMA WorkerKeepsStopInv ==
  ASSUME StopInv, NEW r \in Runs, WorkerStep(r), TypeOK'
  PROVE  StopInv'
<1> DEFINE o == controls[r].op
<1>0. TypeOK /\ ControlsNameTheirStop /\ AttemptsFollowReservations
  BY DEF StopInv
<1>1. /\ Stopping(r) /\ o \in Operations /\ ops[o].run = r /\ ops[o].status # "ABSENT"
      /\ \A q \in Runs \ {r} : controls'[q] = controls[q]
      /\ \A p \in Operations \ {o} : ops'[p] = ops[p] /\ attempts'[p] = attempts[p]
      /\ ops'[o].run = r
      /\ ops'[o] = ops[o] \/ ops'[o].status \notin {"ABSENT", "REQUESTED"}
      /\ ops'[o].status \in ActiveStatus => ops[o].status \in ActiveStatus
  BY <1>0, WorkerReach DEF ControlsNameTheirStop
<1>2. \/ controls'[r].tag \in {"None", "Quarantined"}
      \/ /\ controls'[r].tag = "Stopping" /\ controls'[r].op = o
         /\ controls'[r].phase \in Phase
         /\ controls'[r].phase = "SignalAttempted" => controls'[r].disposition \in Disposition
         /\ controls'[r].phase = "CompletionPending" => controls'[r].outcome \in Outcome
  BY <1>0, WorkerReach
<1>3. /\ \/ attempts'[o] = attempts[o]
         \/ /\ controls[r].phase = "SignalPending"
            /\ attempts'[o] = attempts[o] + 1
            /\ controls'[r].phase = "SignalAttempted"
      /\ controls'[r].tag = "Stopping" /\ controls'[r].phase \in {"Requested", "SignalPending"}
           => /\ controls[r].phase \in {"Requested", "SignalPending"}
              /\ attempts'[o] = attempts[o]
      /\ controls'[r].tag = "Stopping" /\ controls'[r].phase = "SignalPending"
           => ops'[o].status # "REQUESTED"
  BY <1>0, WorkerReach
<1>4. ASSUME NEW q \in Runs \ {r}, Stopping(q)'
      PROVE  /\ Stopping(q) /\ controls'[q] = controls[q] /\ controls[q].op \in Operations \ {o}
             /\ ops'[controls'[q].op] = ops[controls[q].op]
             /\ attempts'[controls'[q].op] = attempts[controls[q].op]
  BY <1>0, <1>1, <1>4 DEF ControlsNameTheirStop, Stopping
<1> HIDE DEF o
<1>5. ControlsNameTheirStop'
  BY <1>0, <1>1, <1>2, <1>4 DEF ControlsNameTheirStop, Stopping
<1>6. AttemptsFollowReservations'
  <2>1. attempts[o] \in Nat /\ attempts[o] <= 1 /\ (attempts[o] = 1 => ops[o].status # "REQUESTED")
        /\ (controls[r].phase \in {"Requested", "SignalPending"} => attempts[o] = 0)
        /\ (controls[r].phase = "SignalPending" => ops[o].status # "REQUESTED")
    BY <1>0, <1>1 DEF AttemptsFollowReservations, TypeOK, o
  <2>2. attempts'[o] <= 1 /\ (attempts'[o] = 1 => ops'[o].status \notin {"ABSENT", "REQUESTED"})
    BY <1>1, <1>3, <2>1
  <2>3. \A p \in Operations : /\ attempts'[p] <= 1
                              /\ attempts'[p] = 1 => ops'[p].status \notin {"ABSENT", "REQUESTED"}
    BY <1>0, <1>1, <2>2 DEF AttemptsFollowReservations
  <2>4. ASSUME NEW q \in Runs, Stopping(q)', controls'[q].phase \in {"Requested", "SignalPending"}
        PROVE  attempts'[controls'[q].op] = 0
    <3>1. CASE q = r
      BY <1>2, <1>3, <2>1, <2>4, <3>1 DEF Stopping
    <3>2. CASE q # r
      BY <1>0, <1>4, <2>4, <3>2 DEF AttemptsFollowReservations
    <3> QED BY <3>1, <3>2
  <2>5. ASSUME NEW q \in Runs, Stopping(q)', controls'[q].phase = "SignalPending"
        PROVE  ops'[controls'[q].op].status # "REQUESTED"
    <3>1. CASE q = r
      BY <1>2, <1>3, <2>5, <3>1 DEF Stopping
    <3>2. CASE q # r
      BY <1>0, <1>4, <2>5, <3>2 DEF AttemptsFollowReservations
    <3> QED BY <3>1, <3>2
  <2> QED BY <2>3, <2>4, <2>5 DEF AttemptsFollowReservations
<1>7. \A q \in Runs : ActiveOf(q)' \subseteq ActiveOf(q)
  BY <1>1 DEF ActiveOf
<1>8. OneActiveStop'
  BY <1>7 DEF StopInv, OneActiveStop
<1>9. UnclaimedStopsAreFresh'
  <2> SUFFICES ASSUME NEW q \in Runs, NEW p \in ActiveOf(q)'
               PROVE  \/ controls'[q].tag \notin {"Running", "Stopping"}
                      \/ controls'[q].tag = "Stopping" /\ controls'[q].op = p
                      \/ ops'[p].status = "REQUESTED"
    BY DEF UnclaimedStopsAreFresh, Stopping
  <2>1. p \in ActiveOf(q) /\ p \in Operations /\ ops[p].run = q
    BY <1>7 DEF ActiveOf
  <2>2. \/ controls[q].tag \notin {"Running", "Stopping"}
        \/ controls[q].tag = "Stopping" /\ controls[q].op = p
        \/ ops[p].status = "REQUESTED"
    BY <2>1 DEF StopInv, UnclaimedStopsAreFresh, Stopping
  <2>3. CASE q # r
    BY <1>1, <2>1, <2>2, <2>3
  <2>4. CASE q = r
    <3>1. controls[r].tag = "Stopping" /\ controls[r].op = o
      BY <1>1 DEF Stopping, o
    <3> QED BY <1>1, <1>2, <2>1, <2>2, <2>4, <3>1
  <2> QED BY <2>3, <2>4
<1> QED BY <1>5, <1>6, <1>8, <1>9 DEF StopInv

(* Every step keeps the invariant. *)
LEMMA StepKeepsStopInv ==
  ASSUME StopInv, [Next]_vars
  PROVE  StopInv'
<1>0. TypeOK /\ ControlsNameTheirStop /\ AttemptsFollowReservations
      /\ OneActiveStop /\ UnclaimedStopsAreFresh
  BY DEF StopInv
<1>1. CASE UNCHANGED vars
  BY <1>0, <1>1 DEF StopInv, TypeOK, ControlsNameTheirStop, AttemptsFollowReservations,
     OneActiveStop, UnclaimedStopsAreFresh, Stopping, ActiveOf, vars
<1> SUFFICES ASSUME Next PROVE StopInv'
  BY <1>1
<1>2. TypeOK'
  BY <1>0, StepTypes
<1>3. ASSUME NEW r \in Runs, NEW o \in Operations, NEW k \in Kind, BeginLive(r, o, k)
      PROVE  StopInv'
  <2> DEFINE newOps  == [ops EXCEPT ![o] = RequestedRow(r, k, None)]
             newRuns == [runs EXCEPT ![r] = "STOP_REQUESTED"]
  <2>1. newOps \in [Operations -> OperationRow] /\ newRuns \in [Runs -> RunState]
    BY <1>0, RequestedRowType DEF TypeOK, RunState
  <2>2. newOps[o].run = r /\ newOps[o].status = "REQUESTED" /\ ops[o].status = "ABSENT"
    BY <1>0, <1>3 DEF BeginLive, RequestedRow, TypeOK
  <2>3. \A p \in Operations \ {o} : newOps[p] = ops[p]
    BY <1>0 DEF TypeOK
  <2>4. \A p \in Operations \ {o} : ops[p].run = r => ops[p].status \notin ActiveStatus
    BY <1>3 DEF BeginLive, ActiveOf
  <2>5. AttachControl(r, o, newOps, newRuns) /\ UNCHANGED attempts
    BY <1>3 DEF BeginLive
  <2> HIDE DEF newOps, newRuns
  <2> QED BY <1>2, <2>1, <2>2, <2>3, <2>4, <2>5, AttachKeepsStopInv DEF ActiveStatus
<1>4. ASSUME NEW r \in Runs, NEW o \in Operations, NEW k \in Kind, BeginFinished(r, o, k)
      PROVE  StopInv'
  <2>1. UNCHANGED <<controls, attempts>> /\ ops[o].status = "ABSENT"
        /\ \A p \in Operations \ {o} : ops'[p] = ops[p]
    BY <1>0, <1>4 DEF BeginFinished, memory, TypeOK
  <2>2. ops'[o].status = "COMPLETED" /\ ops'[o].run = r
    BY <1>0, <1>4 DEF BeginFinished, TypeOK, CompletedRow, RequestedRow
  <2>3. \A q \in Runs : Stopping(q) => controls[q].op \in Operations \ {o}
    BY <1>0, <2>1 DEF ControlsNameTheirStop
  <2>4. \A q \in Runs : ActiveOf(q)' \subseteq ActiveOf(q)
    BY <2>1, <2>2 DEF ActiveOf, ActiveStatus
  <2>5. ControlsNameTheirStop'
    BY <1>0, <2>1, <2>3 DEF ControlsNameTheirStop, Stopping
  <2>6. AttemptsFollowReservations'
    BY <1>0, <2>1, <2>2, <2>3 DEF AttemptsFollowReservations, Stopping
  <2>7. OneActiveStop' /\ UnclaimedStopsAreFresh'
    BY <1>0, <2>1, <2>2, <2>4
      DEF OneActiveStop, UnclaimedStopsAreFresh, Stopping, ActiveOf, ActiveStatus
  <2> QED BY <1>2, <2>5, <2>6, <2>7 DEF StopInv
<1>5. ASSUME NEW r \in Runs, NEW o \in Operations, NEW g \in Operations, BeginSupersede(r, o, g)
      PROVE  StopInv'
  <2> DEFINE newOps == [ops EXCEPT ![g].status = "SUPERSEDED",
                                   ![o] = RequestedRow(r, "FORCE", g)]
  <2>1. /\ ops[o].status = "ABSENT" /\ ops[g].run = r /\ ops[g].status \in ActiveStatus
        /\ AttachControl(r, o, newOps, runs) /\ UNCHANGED attempts
    BY <1>5 DEF BeginSupersede, ActiveOf
  <2>2. o # g
    BY <2>1 DEF ActiveStatus
  <2>3. [ops[g] EXCEPT !.status = "SUPERSEDED"] \in OperationRow
        /\ RequestedRow(r, "FORCE", g) \in OperationRow
    BY <1>0, FieldUpdates, RequestedRowType DEF TypeOK, FinalStatus, Kind
  <2>4. newOps \in [Operations -> OperationRow] /\ runs \in [Runs -> RunState]
    BY <1>0, <2>3 DEF TypeOK
  <2>5. newOps[o].run = r /\ newOps[o].status = "REQUESTED"
    BY <1>0 DEF TypeOK, RequestedRow
  <2>6. newOps[g].run = r /\ newOps[g].status = "SUPERSEDED"
    BY <1>0, <2>1, <2>2 DEF TypeOK, OperationRow
  <2>7. \A p \in Operations \ {o, g} : newOps[p] = ops[p]
    BY <1>0 DEF TypeOK
  <2>8. \A p \in Operations \ {o, g} : ops[p].run = r => ops[p].status \notin ActiveStatus
    BY <1>0, <2>1 DEF OneActiveStop, ActiveOf
  <2> HIDE DEF newOps
  <2>9. \A p \in Operations \ {o} :
          /\ newOps[p].run = ops[p].run
          /\ newOps[p].status = ops[p].status \/ newOps[p].status = "SUPERSEDED"
          /\ newOps[p].run = r => newOps[p].status \notin ActiveStatus
    BY <2>1, <2>6, <2>7, <2>8 DEF ActiveStatus
  <2> QED BY <1>2, <2>1, <2>4, <2>5, <2>9, AttachKeepsStopInv DEF ActiveStatus
<1>6. ASSUME NEW r \in Runs, NEW o \in Operations, BeginReplay(r, o)
      PROVE  StopInv'
  <2>1. /\ o \in ActiveOf(r) /\ AttachControl(r, o, ops, runs) /\ UNCHANGED attempts
        /\ ~(Stopping(r) /\ controls[r].op = o)
    BY <1>6 DEF BeginReplay
  <2>2. ops[o].run = r /\ ops[o].status \in ActiveStatus
    BY <2>1 DEF ActiveOf
  <2>3. \A p \in Operations \ {o} : ops[p].run = r => ops[p].status \notin ActiveStatus
    BY <1>0, <2>1 DEF OneActiveStop, ActiveOf
  <2>4. ProcessTakeable(r, ops[o].supersedes) => ops[o].status = "REQUESTED"
    BY <1>0, <2>1 DEF UnclaimedStopsAreFresh, ProcessTakeable, Stopping
  <2>5. ops \in [Operations -> OperationRow] /\ runs \in [Runs -> RunState]
    BY <1>0 DEF TypeOK
  <2> DEFINE newOps == ops  newRuns == runs
  <2>6. /\ newOps = ops /\ AttachControl(r, o, newOps, newRuns)
        /\ newOps \in [Operations -> OperationRow] /\ newRuns \in [Runs -> RunState]
        /\ ProcessTakeable(r, newOps[o].supersedes) => newOps[o].status = "REQUESTED"
    BY <2>1, <2>4, <2>5
  <2> HIDE DEF newOps, newRuns
  <2>7. newOps[o] = ops[o] /\ newOps[o].run = r /\ newOps[o].status \in ActiveStatus
    BY <2>2, <2>6
  <2>8. \A p \in Operations \ {o} :
          /\ newOps[p].run = ops[p].run
          /\ newOps[p].status = ops[p].status \/ newOps[p].status = "SUPERSEDED"
          /\ newOps[p].run = r => newOps[p].status \notin ActiveStatus
    BY <2>3, <2>6
  <2> QED BY <1>2, <2>1, <2>2, <2>6, <2>7, <2>8, AttachKeepsStopInv
<1>7. ASSUME NEW r \in Runs, WorkerStep(r)
      PROVE  StopInv'
  BY <1>2, <1>7, WorkerKeepsStopInv
<1>8. ASSUME NEW r \in Runs, ElapseDeadline(r) \/ ConfirmNaturalExit(r)
      PROVE  StopInv'
  <2>1. UNCHANGED <<ops, attempts>>
    BY <1>8 DEF ElapseDeadline, ConfirmNaturalExit, ledger
  <2>2. \/ controls' = [controls EXCEPT ![r].late = TRUE]
        \/ controls' = [controls EXCEPT ![r].evidence.confirmed = TRUE]
    BY <1>8 DEF ElapseDeadline, ConfirmNaturalExit
  <2>3. /\ \A q \in Runs \ {r} : controls'[q] = controls[q]
        /\ \/ controls'[r] = [controls[r] EXCEPT !.late = TRUE]
           \/ controls'[r] = [controls[r] EXCEPT !.evidence.confirmed = TRUE]
        /\ controls[r] \in Control
    BY <1>0, <2>2 DEF TypeOK
  <2>4. /\ controls'[r].tag = controls[r].tag /\ controls'[r].op = controls[r].op
        /\ controls'[r].phase = controls[r].phase /\ controls'[r].outcome = controls[r].outcome
        /\ controls'[r].disposition = controls[r].disposition
    BY <2>3 DEF Control
  <2>5. \A q \in Runs :
          /\ controls'[q].tag = controls[q].tag /\ controls'[q].op = controls[q].op
          /\ controls'[q].phase = controls[q].phase /\ controls'[q].outcome = controls[q].outcome
          /\ controls'[q].disposition = controls[q].disposition
    BY <2>3, <2>4
  <2> QED BY <1>0, <1>2, <2>1, <2>5 DEF StopInv, ControlsNameTheirStop,
          AttemptsFollowReservations, OneActiveStop, UnclaimedStopsAreFresh, Stopping, ActiveOf
<1>9. ASSUME UNCHANGED <<ops, attempts>>,
             \A q \in Runs : controls'[q] = controls[q] \/ controls'[q] = NoControl
      PROVE  StopInv'
  <2>1. NoControl.tag = "None"
    BY DEF NoControl, PlainControl
  <2> QED BY <1>0, <1>2, <1>9, <2>1 DEF StopInv, ControlsNameTheirStop,
          AttemptsFollowReservations, OneActiveStop, UnclaimedStopsAreFresh, Stopping, ActiveOf
<1>10. ASSUME NEW r \in Runs, PersistNaturalExit(r)
       PROVE  StopInv'
  BY <1>0, <1>9, <1>10 DEF PersistNaturalExit, TypeOK
<1>11. ASSUME NEW r \in Runs, ProcessChanges(r)
       PROVE  StopInv'
  BY <1>9, <1>11 DEF ProcessChanges, ledger, memory
<1>12. CASE Crash
  BY <1>9, <1>12 DEF Crash, ledger
<1>13. CASE Serve
  BY <1>9, <1>13 DEF Serve, ledger
<1>14. ASSUME NEW r \in Runs, Reconcile(r)
       PROVE  StopInv'
  <2>1. UNCHANGED attempts
    BY <1>14 DEF Reconcile
  <2>2. CASE /\ MayRegainControl(r)
             /\ controls' = [controls EXCEPT ![r] = RecoveredControl(r)]
             /\ UNCHANGED ops
    <3>1. controls'[r] = RecoveredControl(r) /\ \A q \in Runs \ {r} : controls'[q] = controls[q]
      BY <1>0, <2>2 DEF TypeOK
    <3>2. CASE ActiveOf(r) = {}
      <4>1. controls'[r].tag = "Running"
        BY <3>1, <3>2 DEF RecoveredControl, PlainControl
      <4> QED BY <1>0, <1>2, <2>1, <2>2, <3>1, <3>2, <4>1 DEF StopInv, ControlsNameTheirStop,
              AttemptsFollowReservations, OneActiveStop, UnclaimedStopsAreFresh, Stopping, ActiveOf
    <3>3. CASE ActiveOf(r) # {}
      <4>1. PICK o \in Operations :
              /\ o \in ActiveOf(r)
              /\ RecoveredControl(r) = StoppingControl(Recovered, o, ResumePhase(ops[o], runs[r]),
                   ops[o].disposition, ResumePhase(ops[o], runs[r]) # "Requested")
        BY <3>3 DEF RecoveredControl, ActiveOf
      <4>2. ResumePhase(ops[o], runs[r]) # "NONE"
        BY <2>2, <3>3, <4>1 DEF MayRegainControl
      <4>3. /\ ResumePhase(ops[o], runs[r]) \in {"Requested", "Monitoring", "TimedOut"}
            /\ ResumePhase(ops[o], runs[r]) = "Requested" => ops[o].status = "REQUESTED"
        BY <4>2 DEF ResumePhase
      <4>4. /\ controls'[r].tag = "Stopping" /\ controls'[r].op = o
            /\ controls'[r].phase = ResumePhase(ops[o], runs[r])
        BY <3>1, <4>1 DEF StoppingControl
      <4>5. ops[o].run = r /\ ops[o].status \in ActiveStatus /\ ActiveOf(r) = {o}
        BY <1>0, <4>1 DEF OneActiveStop, ActiveOf
      <4>6. controls'[r].phase = "Requested" => attempts[o] = 0
        BY <1>0, <4>3, <4>4 DEF AttemptsFollowReservations, TypeOK
      <4>7. ControlsNameTheirStop'
        BY <1>0, <2>2, <3>1, <4>3, <4>4, <4>5
          DEF ControlsNameTheirStop, Stopping, ActiveStatus, Phase
      <4>8. AttemptsFollowReservations'
        BY <1>0, <2>1, <2>2, <3>1, <4>3, <4>4, <4>6 DEF AttemptsFollowReservations, Stopping
      <4>9. OneActiveStop' /\ UnclaimedStopsAreFresh'
        BY <1>0, <2>2, <3>1, <4>4, <4>5
          DEF OneActiveStop, UnclaimedStopsAreFresh, Stopping, ActiveOf
      <4> QED BY <1>2, <4>7, <4>8, <4>9 DEF StopInv
    <3> QED BY <3>2, <3>3
  <2>3. ASSUME NEW outcome,
               ops' = [o \in Operations |->
                 IF o \in ActiveOf(r) THEN CompletedRow(ops[o], outcome) ELSE ops[o]],
               UNCHANGED controls
        PROVE  StopInv'
    <3>1. \A o \in Operations : CompletedRow(ops[o], outcome).run = ops[o].run
                              /\ CompletedRow(ops[o], outcome).status = "COMPLETED"
      BY <1>0 DEF TypeOK, OperationRow, CompletedRow
    <3>2. \A o \in Operations :
            /\ ops'[o].run = ops[o].run
            /\ ops'[o].status = ops[o].status \/ ops'[o].status = "COMPLETED"
      BY <2>3, <3>1
    <3>3. UNCHANGED controls
      BY <2>3
    <3>4. ControlsNameTheirStop'
      BY <1>0, <3>2, <3>3 DEF ControlsNameTheirStop, Stopping
    <3>5. AttemptsFollowReservations'
      BY <1>0, <2>1, <3>2, <3>3 DEF AttemptsFollowReservations, ControlsNameTheirStop, Stopping
    <3>6. OneActiveStop' /\ UnclaimedStopsAreFresh'
      BY <1>0, <3>2, <3>3
        DEF OneActiveStop, UnclaimedStopsAreFresh, Stopping, ActiveOf, ActiveStatus
    <3> QED BY <1>2, <3>4, <3>5, <3>6 DEF StopInv
  <2> QED BY <1>14, <2>2, <2>3 DEF Reconcile
<1> QED BY <1>3, <1>4, <1>5, <1>6, <1>7, <1>8, <1>10, <1>11, <1>12, <1>13, <1>14 DEF Next, Request

(* Nothing is stopped initially. *)
LEMMA InitStopInv == Init => StopInv
<1> SUFFICES ASSUME Init PROVE StopInv
  OBVIOUS
<1>1. TypeOK
  BY InitTypes
<1>2. \A o \in Operations : ops[o].status = "ABSENT" /\ attempts[o] = 0
  BY DEF Init, AbsentRow
<1>3. \A r \in Runs : ActiveOf(r) = {}
  BY <1>2 DEF ActiveOf, ActiveStatus
<1>4. \A r \in Runs : controls[r].tag \in {"Running", "None"}
  <2>1. \A x \in LaunchResult : x[2].tag \in {"Running", "None"}
    BY DEF LaunchResult, PlainControl, NoControl
  <2>2. PICK launched \in [Runs -> LaunchResult] : controls = [r \in Runs |-> launched[r][2]]
    BY DEF Init
  <2>3. \A r \in Runs : controls[r] = launched[r][2] /\ launched[r] \in LaunchResult
    BY <2>2
  <2> HIDE DEF LaunchResult
  <2> QED BY <2>1, <2>3
<1>5. ControlsNameTheirStop
  BY <1>4 DEF ControlsNameTheirStop, Stopping
<1>6. AttemptsFollowReservations
  BY <1>2, <1>4 DEF AttemptsFollowReservations, Stopping
<1>7. OneActiveStop /\ UnclaimedStopsAreFresh
  BY <1>3 DEF OneActiveStop, UnclaimedStopsAreFresh
<1> QED BY <1>1, <1>5, <1>6, <1>7 DEF StopInv

LEMMA StopInvariance == Spec => []StopInv
<1>1. StopInv /\ [Next]_vars => StopInv'
  BY StepKeepsStopInv
<1> QED BY <1>1, InitStopInv, PTL DEF Spec

------------------------------------------------------------
(* Every reachable state of the service, its ledger and its processes has *)
(* the declared type.                                                     *)
THEOREM TypeCorrect == Spec => []TypeOK
<1>1. StopInv => TypeOK
  BY DEF StopInv
<1> QED BY <1>1, StopInvariance, PTL

(* However many runs, operations and crashes there are, and even if replies *)
(* to requests are lost, no stop operation ever signals twice.             *)
THEOREM SignalsOnce == Spec => []AtMostOneAttempt
<1>1. StopInv => AtMostOneAttempt
  BY DEF StopInv, AttemptsFollowReservations, AtMostOneAttempt
<1> QED BY <1>1, StopInvariance, PTL

------------------------------------------------------------
(* The changes that the storage contract makes to the two tables, one *)
(* transaction at a time, never make them contradict each other.      *)

RowsOf(rows, r) == {o \in Operations : rows[o].run = r /\ rows[o].status \in ActiveStatus}

(* LedgerCoherent for any contents of the two tables. *)
Coherent(rows, states) ==
  /\ rows \in [Operations -> OperationRow]
  /\ states \in [Runs -> RunState]
  /\ \A o \in Operations : rows[o].status # "ABSENT" =>
       rows[o].run \in Runs /\ ValidResult(rows[o], states[rows[o].run])
  /\ \A r \in Runs : \A o1, o2 \in RowsOf(rows, r) : o1 = o2
  /\ \A r \in Runs : states[r] \in StoppingRunState <=> RowsOf(rows, r) # {}

(* The outcome of a completed row and the state of its run say the same. *)
Agree(outcome, state) ==
  \/ outcome = "EXITED" /\ state = "EXITED"
  \/ outcome = "ALREADY_EXITED" /\ state \in {"EXITED", "EXITED_WHILE_OFFLINE"}
  \/ outcome = "IDENTITY_MISMATCH" /\ state = "IDENTITY_MISMATCH"
  \/ outcome \in {"ORPHANED", "SIGNAL_UNAVAILABLE"} /\ state = "ORPHANED"
  \/ outcome = "FAILED" /\ state = "FAILED"

(* A row that is not active and whose run has not ended was superseded: it *)
(* stays valid whatever becomes of the run.                                *)
LEMMA SettledRowsStayValid ==
  ASSUME NEW row \in OperationRow, NEW s \in RunState \ TerminalRunState, NEW t,
         row.status \notin ActiveStatus, row.status # "ABSENT", ValidResult(row, s)
  PROVE  ValidResult(row, t)
BY DEF OperationRow, RunState, TerminalRunState, ActiveStatus, FinalStatus, ValidResult

(* Completing an active row with an outcome that agrees with the state its *)
(* run gets keeps the tables coherent.                                     *)
LEMMA CompletionKeepsCoherence ==
  ASSUME NEW rows, NEW states, Coherent(rows, states),
         NEW o \in Operations, rows[o].status \in ActiveStatus,
         NEW outcome \in Outcome, NEW t \in TerminalRunState, Agree(outcome, t),
         outcome = "SIGNAL_UNAVAILABLE" => rows[o].disposition = "UNAVAILABLE"
  PROVE  Coherent([rows EXCEPT ![o] = CompletedRow(@, outcome)],
                  [states EXCEPT ![rows[o].run] = t])
<1> DEFINE r == rows[o].run
           newRow == CompletedRow(rows[o], outcome)
           newRows == [rows EXCEPT ![o] = CompletedRow(@, outcome)]
           newStates == [states EXCEPT ![rows[o].run] = t]
<1>1. rows[o] \in OperationRow /\ r \in Runs /\ t \in RunState
      /\ states[r] \in RunState /\ states[r] \in StoppingRunState
  BY DEF Coherent, ActiveStatus, TerminalRunState, RunState, RowsOf
<1>2. newRow \in OperationRow /\ newRow.run = r /\ newRow.status = "COMPLETED"
      /\ newRow.outcome = outcome /\ newRow.kind = rows[o].kind
      /\ newRow.disposition = rows[o].disposition
  BY <1>1 DEF CompletedRow, OperationRow, FinalStatus
<1>3. ValidResult(newRow, t)
  BY <1>1, <1>2 DEF ValidResult, Agree, ActiveStatus, Outcome
<1> HIDE DEF newRow, r
<1>4. newRows[o] = newRow /\ \A p \in Operations \ {o} : newRows[p] = rows[p]
  BY DEF Coherent, newRow
<1>5. newStates[r] = t /\ \A q \in Runs \ {r} : newStates[q] = states[q]
  BY <1>1 DEF Coherent, r
<1>6. newRows \in [Operations -> OperationRow] /\ newStates \in [Runs -> RunState]
  BY <1>1, <1>2 DEF Coherent, newRow, r
<1> HIDE DEF newRows, newStates
<1>7. ASSUME NEW p \in Operations, newRows[p].status # "ABSENT"
      PROVE  newRows[p].run \in Runs /\ ValidResult(newRows[p], newStates[newRows[p].run])
  <2>1. CASE p = o
    BY <1>1, <1>2, <1>3, <1>4, <1>5, <2>1
  <2>2. CASE p # o /\ rows[p].run # r
    BY <1>4, <1>5, <1>7, <2>2 DEF Coherent
  <2>3. CASE p # o /\ rows[p].run = r
    <3>1. rows[p].status \notin ActiveStatus /\ rows[p].status # "ABSENT"
      BY <1>1, <1>4, <1>7, <2>3 DEF Coherent, RowsOf, r
    <3>2. states[r] \in RunState \ TerminalRunState
      BY <1>1 DEF StoppingRunState, TerminalRunState
    <3>3. ValidResult(rows[p], states[r]) /\ rows[p] \in OperationRow
      BY <2>3, <3>1 DEF Coherent
    <3>4. ValidResult(rows[p], t)
      BY <3>1, <3>2, <3>3, SettledRowsStayValid
    <3> QED BY <1>1, <1>4, <1>5, <2>3, <3>4
  <2> QED BY <2>1, <2>2, <2>3
<1>8. \A q \in Runs : RowsOf(newRows, q) = RowsOf(rows, q) \ {o}
  BY <1>2, <1>4 DEF RowsOf, ActiveStatus
<1>9. o \in RowsOf(rows, r) /\ \A q \in Runs \ {r} : o \notin RowsOf(rows, q)
  BY DEF RowsOf, r
<1>10. \A q \in Runs : \A o1, o2 \in RowsOf(newRows, q) : o1 = o2
  BY <1>8 DEF Coherent
<1>11. \A q \in Runs : newStates[q] \in StoppingRunState <=> RowsOf(newRows, q) # {}
  <2>1. RowsOf(newRows, r) = {} /\ t \notin StoppingRunState
    BY <1>1, <1>8, <1>9 DEF Coherent, StoppingRunState, TerminalRunState
  <2>2. \A q \in Runs \ {r} : RowsOf(newRows, q) = RowsOf(rows, q)
    BY <1>8, <1>9
  <2> QED BY <1>5, <2>1, <2>2 DEF Coherent
<1>12. Coherent(newRows, newStates)
  BY <1>6, <1>7, <1>10, <1>11 DEF Coherent
<1> QED BY <1>12 DEF newRows, newStates

(* A change that stays within one run keeps the tables coherent if the *)
(* rows and the state of that run are coherent after it.               *)
LEMMA LocalChangeKeepsCoherence ==
  ASSUME NEW rows, NEW states, Coherent(rows, states), NEW r \in Runs,
         NEW newRows \in [Operations -> OperationRow], NEW newStates \in [Runs -> RunState],
         \A q \in Runs \ {r} : newStates[q] = states[q],
         \A p \in Operations :
           \/ newRows[p] = rows[p] /\ rows[p].run # r
           \/ newRows[p] = rows[p] /\ rows[p].status = "ABSENT"
           \/ /\ newRows[p].run = r /\ ValidResult(newRows[p], newStates[r])
              /\ rows[p].run = r \/ rows[p].status = "ABSENT",
         \A o1, o2 \in RowsOf(newRows, r) : o1 = o2,
         newStates[r] \in StoppingRunState <=> RowsOf(newRows, r) # {}
  PROVE  Coherent(newRows, newStates)
BY DEF Coherent, RowsOf, ActiveStatus

(* A row that stays as it is when its run moves on. *)
LEMMA BystandersStayValid ==
  ASSUME NEW rows, NEW states, Coherent(rows, states), NEW r \in Runs,
         states[r] \notin TerminalRunState, NEW t, NEW p \in Operations,
         rows[p].run = r, rows[p].status \notin ActiveStatus, rows[p].status # "ABSENT"
  PROVE  ValidResult(rows[p], t)
BY SettledRowsStayValid DEF Coherent

(* The first stop of a live run. *)
LEMMA RequestKeepsCoherence ==
  ASSUME NEW rows, NEW states, Coherent(rows, states),
         NEW r \in Runs, NEW o \in Operations, NEW k \in Kind,
         rows[o].status = "ABSENT", RowsOf(rows, r) = {}, states[r] \in LiveRunState
  PROVE  Coherent([rows EXCEPT ![o] = RequestedRow(r, k, None)],
                  [states EXCEPT ![r] = "STOP_REQUESTED"])
<1> DEFINE newRow == RequestedRow(r, k, None)
           newRows == [rows EXCEPT ![o] = newRow]
           newStates == [states EXCEPT ![r] = "STOP_REQUESTED"]
<1>1. /\ newRow \in OperationRow /\ newRow.run = r /\ newRow.status = "REQUESTED"
      /\ ValidResult(newRow, "STOP_REQUESTED")
  BY DEF RequestedRow, OperationRow, ActiveStatus, ValidResult, Eligible
<1> HIDE DEF newRow
<1>2. newRows[o] = newRow /\ \A p \in Operations \ {o} : newRows[p] = rows[p]
  BY DEF Coherent
<1>3. newStates[r] = "STOP_REQUESTED" /\ \A q \in Runs \ {r} : newStates[q] = states[q]
  BY DEF Coherent
<1>4. newRows \in [Operations -> OperationRow] /\ newStates \in [Runs -> RunState]
  BY <1>1 DEF Coherent, RunState
<1> HIDE DEF newRows, newStates
<1>5. RowsOf(newRows, r) = {o}
  BY <1>1, <1>2 DEF RowsOf, ActiveStatus
<1>6. \A p \in Operations \ {o} :
        rows[p].run = r /\ rows[p].status # "ABSENT" => ValidResult(rows[p], "STOP_REQUESTED")
  BY BystandersStayValid DEF LiveRunState, TerminalRunState, RowsOf
<1>7. ASSUME NEW p \in Operations
      PROVE  \/ newRows[p] = rows[p] /\ rows[p].run # r
             \/ newRows[p] = rows[p] /\ rows[p].status = "ABSENT"
             \/ /\ newRows[p].run = r /\ ValidResult(newRows[p], newStates[r])
                /\ rows[p].run = r \/ rows[p].status = "ABSENT"
  <2>1. CASE p = o
    BY <1>1, <1>2, <1>3, <2>1
  <2>2. CASE p # o
    BY <1>2, <1>3, <1>6, <2>2
  <2> QED BY <2>1, <2>2
<1>8. /\ newStates[r] \in StoppingRunState <=> RowsOf(newRows, r) # {}
      /\ \A o1, o2 \in RowsOf(newRows, r) : o1 = o2
  BY <1>3, <1>5 DEF StoppingRunState
<1>9. Coherent(newRows, newStates)
  BY <1>3, <1>4, <1>7, <1>8, LocalChangeKeepsCoherence
<1> QED BY <1>9 DEF newRows, newStates, newRow

(* A stop of a run that has ended. *)
LEMMA FinishedRequestKeepsCoherence ==
  ASSUME NEW rows, NEW states, Coherent(rows, states),
         NEW r \in Runs, NEW o \in Operations, NEW k \in Kind,
         rows[o].status = "ABSENT", states[r] \in TerminalRunState
  PROVE  Coherent([rows EXCEPT ![o] =
           CompletedRow(RequestedRow(r, k, None), OutcomeOfFinishedRun(states[r]))], states)
<1> DEFINE newRow == CompletedRow(RequestedRow(r, k, None), OutcomeOfFinishedRun(states[r]))
           newRows == [rows EXCEPT ![o] = newRow]
<1>1. /\ newRow \in OperationRow /\ newRow.run = r /\ newRow.status = "COMPLETED"
      /\ ValidResult(newRow, states[r])
  BY DEF CompletedRow, RequestedRow, OperationRow, ActiveStatus, FinalStatus, ValidResult, Eligible,
         OutcomeOfFinishedRun, Outcome, TerminalRunState
<1> HIDE DEF newRow
<1>2. newRows[o] = newRow /\ \A p \in Operations \ {o} : newRows[p] = rows[p]
  BY DEF Coherent
<1>3. newRows \in [Operations -> OperationRow] /\ states \in [Runs -> RunState]
  BY <1>1 DEF Coherent
<1> HIDE DEF newRows
<1>4. RowsOf(newRows, r) = RowsOf(rows, r)
  BY <1>1, <1>2 DEF RowsOf, ActiveStatus
<1>5. \A p \in Operations \ {o} :
        rows[p].run = r /\ rows[p].status # "ABSENT" => ValidResult(rows[p], states[r])
  BY DEF Coherent
<1>6. \A p \in Operations :
        \/ newRows[p] = rows[p] /\ rows[p].run # r
        \/ newRows[p] = rows[p] /\ rows[p].status = "ABSENT"
        \/ /\ newRows[p].run = r /\ ValidResult(newRows[p], states[r])
           /\ rows[p].run = r \/ rows[p].status = "ABSENT"
  BY <1>1, <1>2, <1>5
<1>7. /\ \A o1, o2 \in RowsOf(newRows, r) : o1 = o2
      /\ states[r] \in StoppingRunState <=> RowsOf(newRows, r) # {}
  BY <1>4 DEF Coherent
<1>8. Coherent(newRows, states)
  BY <1>3, <1>6, <1>7, LocalChangeKeepsCoherence
<1> QED BY <1>8 DEF newRows, newRow

(* A force stop that supersedes a graceful one. *)
LEMMA SupersessionKeepsCoherence ==
  ASSUME NEW rows, NEW states, Coherent(rows, states),
         NEW r \in Runs, NEW o \in Operations, NEW g \in Operations,
         rows[o].status = "ABSENT", g \in RowsOf(rows, r), rows[g].kind = "GRACEFUL",
         states[r] \in {"STOP_REQUESTED", "GRACEFUL_STOPPING"}
  PROVE  Coherent([rows EXCEPT ![g].status = "SUPERSEDED", ![o] = RequestedRow(r, "FORCE", g)],
                  states)
<1> DEFINE newRow == RequestedRow(r, "FORCE", g)
           oldRow == [rows[g] EXCEPT !.status = "SUPERSEDED"]
           newRows == [rows EXCEPT ![g].status = "SUPERSEDED", ![o] = RequestedRow(r, "FORCE", g)]
<1>1. /\ newRow \in OperationRow /\ newRow.run = r /\ newRow.status = "REQUESTED"
      /\ ValidResult(newRow, states[r])
  BY DEF RequestedRow, OperationRow, Kind, ActiveStatus, ValidResult, Eligible
<1>2. rows[g] \in OperationRow /\ rows[g].run = r /\ rows[g].status \in ActiveStatus
      /\ ValidResult(rows[g], states[r]) /\ o # g
  BY DEF Coherent, RowsOf, ActiveStatus
<1>3. /\ oldRow \in OperationRow /\ oldRow.run = r /\ oldRow.status = "SUPERSEDED"
      /\ ValidResult(oldRow, states[r])
  BY <1>2 DEF OperationRow, ActiveStatus, FinalStatus, ValidResult
<1>4. /\ newRows[o] = newRow /\ newRows[g] = oldRow
      /\ \A p \in Operations \ {o, g} : newRows[p] = rows[p]
  BY <1>2 DEF Coherent
<1>5. newRows \in [Operations -> OperationRow] /\ states \in [Runs -> RunState]
  BY <1>1, <1>3 DEF Coherent
<1> HIDE DEF newRow, oldRow, newRows
<1>6. RowsOf(rows, r) = {g}
  BY DEF Coherent
<1>7. RowsOf(newRows, r) = {o}
  BY <1>1, <1>3, <1>4, <1>6 DEF RowsOf, ActiveStatus
<1>8. \A p \in Operations \ {o, g} :
        rows[p].run = r /\ rows[p].status # "ABSENT" => ValidResult(rows[p], states[r])
  BY DEF Coherent
<1>9. \A p \in Operations :
        \/ newRows[p] = rows[p] /\ rows[p].run # r
        \/ newRows[p] = rows[p] /\ rows[p].status = "ABSENT"
        \/ /\ newRows[p].run = r /\ ValidResult(newRows[p], states[r])
           /\ rows[p].run = r \/ rows[p].status = "ABSENT"
  BY <1>1, <1>2, <1>3, <1>4, <1>8
<1>10. states[r] \in StoppingRunState
  BY DEF StoppingRunState
<1>11. /\ \A o1, o2 \in RowsOf(newRows, r) : o1 = o2
       /\ states[r] \in StoppingRunState <=> RowsOf(newRows, r) # {}
  BY <1>7, <1>10
<1>12. Coherent(newRows, states)
  BY <1>5, <1>9, <1>11, LocalChangeKeepsCoherence
<1> QED BY <1>12 DEF newRows

(* An active stop that goes on to another active status. *)
LEMMA ProgressKeepsCoherence ==
  ASSUME NEW rows, NEW states, Coherent(rows, states),
         NEW r \in Runs, NEW o \in RowsOf(rows, r),
         NEW newRow \in OperationRow, newRow.run = r, newRow.status \in ActiveStatus,
         NEW t \in StoppingRunState, ValidResult(newRow, t)
  PROVE  Coherent([rows EXCEPT ![o] = newRow], [states EXCEPT ![r] = t])
<1> DEFINE newRows == [rows EXCEPT ![o] = newRow]
           newStates == [states EXCEPT ![r] = t]
<1>1. o \in Operations /\ rows[o].run = r /\ RowsOf(rows, r) = {o}
  BY DEF Coherent, RowsOf
<1>2. newRows[o] = newRow /\ \A p \in Operations \ {o} : newRows[p] = rows[p]
  BY <1>1 DEF Coherent
<1>3. newStates[r] = t /\ \A q \in Runs \ {r} : newStates[q] = states[q]
  BY DEF Coherent
<1>4. newRows \in [Operations -> OperationRow] /\ newStates \in [Runs -> RunState]
  BY <1>1 DEF Coherent, RunState, StoppingRunState
<1>5. states[r] \notin TerminalRunState
  BY <1>1 DEF Coherent, StoppingRunState, TerminalRunState
<1> HIDE DEF newRows, newStates
<1>6. RowsOf(newRows, r) = {o}
  BY <1>1, <1>2 DEF RowsOf
<1>7. \A p \in Operations \ {o} :
        rows[p].run = r /\ rows[p].status # "ABSENT" => ValidResult(rows[p], t)
  BY <1>1, <1>5, BystandersStayValid DEF RowsOf
<1>8. \A p \in Operations :
        \/ newRows[p] = rows[p] /\ rows[p].run # r
        \/ newRows[p] = rows[p] /\ rows[p].status = "ABSENT"
        \/ /\ newRows[p].run = r /\ ValidResult(newRows[p], newStates[r])
           /\ rows[p].run = r \/ rows[p].status = "ABSENT"
  BY <1>1, <1>2, <1>3, <1>4, <1>7
<1>9. /\ \A o1, o2 \in RowsOf(newRows, r) : o1 = o2
      /\ newStates[r] \in StoppingRunState <=> RowsOf(newRows, r) # {}
  BY <1>3, <1>6
<1>10. Coherent(newRows, newStates)
  BY <1>3, <1>4, <1>8, <1>9, LocalChangeKeepsCoherence
<1> QED BY <1>10 DEF newRows, newStates

(* The state of a run that nobody is stopping changes. *)
LEMMA RunChangeKeepsCoherence ==
  ASSUME NEW rows, NEW states, Coherent(rows, states), NEW r \in Runs,
         RowsOf(rows, r) = {}, states[r] \notin TerminalRunState,
         NEW t \in RunState \ StoppingRunState
  PROVE  Coherent(rows, [states EXCEPT ![r] = t])
<1> DEFINE newStates == [states EXCEPT ![r] = t]
<1>1. newStates[r] = t /\ \A q \in Runs \ {r} : newStates[q] = states[q]
  BY DEF Coherent
<1>2. rows \in [Operations -> OperationRow] /\ newStates \in [Runs -> RunState]
  BY DEF Coherent
<1> HIDE DEF newStates
<1>3. \A p \in Operations :
        rows[p].run = r /\ rows[p].status # "ABSENT" => ValidResult(rows[p], t)
  BY BystandersStayValid DEF RowsOf
<1>4. Coherent(rows, newStates)
  BY <1>1, <1>2, <1>3, LocalChangeKeepsCoherence
<1> QED BY <1>4 DEF newStates

------------------------------------------------------------
(* What the managed stop leaves in the ledger. *)

(* Startup works only on runs that have not ended, and is over once the *)
(* service runs.                                                        *)
PendingAreCandidates ==
  /\ serving => pending = {}
  /\ \A r \in pending : runs[r] \in RecoveryCandidate

LedgerInv ==
  /\ StopInv
  /\ Coherent(ops, runs)
  /\ PendingAreCandidates

(* The tables are coherent exactly when no read of them is refused. *)
LEMMA CoherentIsLedgerCoherent == Coherent(ops, runs) => LedgerCoherent
BY DEF Coherent, LedgerCoherent, ReadableResult, ActiveOf, RowsOf

(* What a request commits stays coherent when the stop is completed at *)
(* once because there is no process to take.                           *)
LEMMA AttachKeepsCoherence ==
  ASSUME NEW r \in Runs, NEW o \in Operations, NEW newOps, NEW newRuns,
         Coherent(newOps, newRuns), newOps[o].run = r, newOps[o].status \in ActiveStatus,
         AttachControl(r, o, newOps, newRuns)
  PROVE  Coherent(ops', runs')
<1>1. CASE ops' = newOps /\ runs' = newRuns
  BY <1>1
<1>2. CASE /\ ops' = [newOps EXCEPT ![o] = CompletedRow(@, "ORPHANED")]
           /\ runs' = [newRuns EXCEPT ![r] = RunStateAfter("ORPHANED")]
  BY <1>2, CompletionKeepsCoherence DEF Outcome, RunStateAfter, TerminalRunState, Agree
<1> QED BY <1>1, <1>2 DEF AttachControl

(* The outcome a worker writes agrees with the state it leaves. *)
LEMMA OutcomesAgree ==
  /\ \A outcome \in Outcome :
       RunStateAfter(outcome) \in TerminalRunState /\ Agree(outcome, RunStateAfter(outcome))
  /\ \A found \in {"EXITED_WHILE_OFFLINE", "IDENTITY_MISMATCH", "ORPHANED"} :
       /\ found \in TerminalRunState /\ StopOutcomeAfterRecovery(found) \in Outcome
       /\ Agree(StopOutcomeAfterRecovery(found), found)
       /\ StopOutcomeAfterRecovery(found) # "SIGNAL_UNAVAILABLE"
BY DEF Outcome, RunStateAfter, TerminalRunState, Agree, StopOutcomeAfterRecovery

(* A worker's writes keep the tables coherent. *)
LEMMA WorkerKeepsCoherence ==
  ASSUME StopInv, Coherent(ops, runs), NEW r \in Runs, WorkerStep(r)
  PROVE  Coherent(ops', runs')
<1> DEFINE o == controls[r].op
<1>0. /\ o \in Operations /\ ops[o].run = r /\ ops[o] \in OperationRow
      /\ controls[r].phase \in Phase
      /\ controls[r].phase = "SignalAttempted" => controls[r].disposition \in Disposition
      /\ controls[r].phase = "CompletionPending" => controls[r].outcome \in Outcome
  <2>1. Stopping(r) /\ TypeOK /\ ControlsNameTheirStop
    BY DEF StopInv, WorkerStep, ReserveSignal, SendSignal, RecordAttempt, ObserveExit,
       ObserveLostBoundary, GracefulTimeout, ForceTimeout, CompleteStop, InPhase
  <2> QED BY <2>1 DEF ControlsNameTheirStop, TypeOK
<1>1. runs \in [Runs -> RunState]
  BY DEF Coherent
<1>2. ops[o].status \in ActiveStatus =>
        o \in RowsOf(ops, r) /\ runs[r] \in StoppingRunState /\ ValidResult(ops[o], runs[r])
  BY <1>0 DEF Coherent, RowsOf, ActiveStatus
<1>3. CASE UNCHANGED ledger
  BY <1>3 DEF ledger
<1>4. ASSUME NEW row \in OperationRow, row.run = r, row.status \in ActiveStatus,
             NEW t \in StoppingRunState, ValidResult(row, t), ops[o].status \in ActiveStatus,
             ops' = [ops EXCEPT ![o] = row], runs' = [runs EXCEPT ![r] = t]
      PROVE  Coherent(ops', runs')
  BY <1>2, <1>4, ProgressKeepsCoherence
<1>5. CASE ReserveSignal(r)
  <2>1. CASE UNCHANGED ops
    BY <1>3, <1>5, <2>1 DEF ReserveSignal, ledger
  <2>2. CASE ops[o].status = "REQUESTED" /\ ops' = [ops EXCEPT ![o].status = "SIGNAL_PENDING"]
    <3> DEFINE row == [ops[o] EXCEPT !.status = "SIGNAL_PENDING"]
    <3>1. ValidResult(ops[o], runs[r]) /\ runs[r] \in StoppingRunState
      BY <1>2, <2>2 DEF ActiveStatus
    <3>2. /\ row \in OperationRow /\ row.run = r /\ row.status \in ActiveStatus
          /\ ValidResult(row, runs[r])
      BY <1>0, <2>2, <3>1 DEF OperationRow, ActiveStatus, ValidResult, Eligible
    <3>3. ops' = [ops EXCEPT ![o] = row] /\ runs' = [runs EXCEPT ![r] = runs[r]]
      BY <1>1, <1>5, <2>2 DEF ReserveSignal
    <3> QED BY <1>4, <2>2, <3>1, <3>2, <3>3 DEF ActiveStatus
  <2> QED BY <1>5, <2>1, <2>2 DEF ReserveSignal
<1>6. CASE RecordAttempt(r)
  <2>1. CASE UNCHANGED ledger
    BY <1>3, <2>1
  <2>2. CASE /\ ops[o].status = "SIGNAL_PENDING"
             /\ ops' = [ops EXCEPT ![o].status = "IN_PROGRESS",
                                   ![o].disposition = controls[r].disposition]
             /\ runs' = [runs EXCEPT ![ops[o].run] = SignalledRunState(ops[o].kind)]
    <3> DEFINE row == [ops[o] EXCEPT !.status = "IN_PROGRESS", !.disposition = controls[r].disposition]
               t == SignalledRunState(ops[o].kind)
    <3>1. ValidResult(ops[o], runs[r]) /\ controls[r].disposition \in Disposition
      BY <1>0, <1>2, <1>6, <2>2 DEF ActiveStatus, RecordAttempt, InPhase
    <3>2. row \in OperationRow /\ row.run = r /\ row.status = "IN_PROGRESS"
          /\ row.kind = ops[o].kind /\ row.disposition = controls[r].disposition
          /\ row.outcome = ops[o].outcome
      BY <1>0, <3>1 DEF OperationRow, ActiveStatus
    <3>3. t \in StoppingRunState
      BY DEF SignalledRunState, StoppingRunState
    <3>4. ops[o].outcome = "NONE" /\ ops[o].kind \in {"GRACEFUL", "FORCE"}
      BY <1>0, <2>2, <3>1 DEF ValidResult, OperationRow, Kind
    <3>5. ValidResult(row, t)
      BY <3>1, <3>2, <3>4 DEF ActiveStatus, ValidResult, Eligible, SignalledRunState, Disposition
    <3>6. ops' = [ops EXCEPT ![o] = row] /\ runs' = [runs EXCEPT ![r] = t]
      BY <1>0, <2>2
    <3> QED BY <1>4, <2>2, <3>2, <3>3, <3>5, <3>6 DEF ActiveStatus
  <2> QED BY <1>6, <2>1, <2>2 DEF RecordAttempt
<1>7. CASE GracefulTimeout(r)
  <2>1. CASE UNCHANGED ops
    BY <1>3, <1>7, <2>1 DEF GracefulTimeout, ledger
  <2>2. CASE ops[o].status = "IN_PROGRESS" /\ ops' = [ops EXCEPT ![o].status = "TIMED_OUT"]
    <3> DEFINE row == [ops[o] EXCEPT !.status = "TIMED_OUT"]
    <3>1. ValidResult(ops[o], runs[r]) /\ runs[r] \in StoppingRunState /\ ops[o].kind = "GRACEFUL"
      BY <1>2, <1>7, <2>2 DEF ActiveStatus, GracefulTimeout
    <3>2. row \in OperationRow /\ row.run = r /\ row.status \in ActiveStatus
          /\ ValidResult(row, runs[r])
      BY <1>0, <2>2, <3>1 DEF OperationRow, ActiveStatus, ValidResult, Eligible
    <3>3. ops' = [ops EXCEPT ![o] = row] /\ runs' = [runs EXCEPT ![r] = runs[r]]
      BY <1>1, <1>7, <2>2 DEF GracefulTimeout
    <3> QED BY <1>4, <2>2, <3>1, <3>2, <3>3 DEF ActiveStatus
  <2> QED BY <1>7, <2>1, <2>2 DEF GracefulTimeout
<1>8. CASE CompleteStop(r)
  <2>1. CASE UNCHANGED ledger
    BY <1>3, <2>1
  <2>2. CASE /\ Completable(ops[o], runs[ops[o].run], controls[r].outcome)
             /\ ops'  = [ops EXCEPT ![o] = CompletedRow(@, controls[r].outcome)]
             /\ runs' = [runs EXCEPT ![ops[o].run] = RunStateAfter(controls[r].outcome)]
    <3>1. controls[r].outcome \in Outcome
      BY <1>0, <1>8 DEF CompleteStop, InPhase
    <3> QED BY <1>0, <2>2, <3>1, OutcomesAgree, CompletionKeepsCoherence DEF Completable
  <2> QED BY <1>8, <2>1, <2>2 DEF CompleteStop
<1>9. CASE SendSignal(r) \/ ObserveExit(r) \/ ObserveLostBoundary(r) \/ ForceTimeout(r)
  BY <1>3, <1>9 DEF SendSignal, ObserveExit, ObserveLostBoundary, ForceTimeout, ledger
<1> QED BY <1>5, <1>6, <1>7, <1>8, <1>9 DEF WorkerStep

(* Startup's reconciliation of one run keeps the tables coherent. *)
LEMMA ReconcileKeepsCoherence ==
  ASSUME LedgerInv, NEW r \in Runs, Reconcile(r)
  PROVE  Coherent(ops', runs')
<1>0. /\ TypeOK /\ Coherent(ops, runs) /\ runs[r] \in RecoveryCandidate
      /\ ActiveOf(r) = RowsOf(ops, r)
  BY DEF LedgerInv, StopInv, PendingAreCandidates, Reconcile, ActiveOf, RowsOf
<1>1. runs[r] \in RunState /\ runs[r] \notin TerminalRunState
  BY <1>0 DEF RecoveryCandidate, LiveRunState, StoppingRunState, TerminalRunState, RunState
<1>2. CASE /\ runs' = [runs EXCEPT ![r] = IF ActiveOf(r) = {} THEN "RECOVERED" ELSE @]
           /\ UNCHANGED ops
  <2>1. CASE ActiveOf(r) = {}
    <3>1. "RECOVERED" \in RunState \ StoppingRunState
      BY DEF RunState, StoppingRunState
    <3> QED BY <1>0, <1>1, <1>2, <2>1, <3>1, RunChangeKeepsCoherence
  <2>2. CASE ActiveOf(r) # {}
    BY <1>0, <1>2, <2>2 DEF TypeOK
  <2> QED BY <2>1, <2>2
<1>3. ASSUME NEW found \in {"EXITED_WHILE_OFFLINE", "IDENTITY_MISMATCH", "ORPHANED"},
             runs' = [runs EXCEPT ![r] = found],
             ops' = [o \in Operations |->
               IF o \in ActiveOf(r) THEN CompletedRow(ops[o], StopOutcomeAfterRecovery(found))
               ELSE ops[o]]
      PROVE  Coherent(ops', runs')
  <2>1. CASE ActiveOf(r) = {}
    <3>1. ops' = ops
      BY <1>0, <1>3, <2>1 DEF TypeOK
    <3>2. found \in RunState \ StoppingRunState
      BY DEF RunState, StoppingRunState
    <3> QED BY <1>0, <1>1, <1>3, <2>1, <3>1, <3>2, RunChangeKeepsCoherence
  <2>2. CASE ActiveOf(r) # {}
    <3>1. PICK o \in Operations : ActiveOf(r) = {o} /\ ops[o].run = r /\ ops[o].status \in ActiveStatus
      BY <1>0, <2>2 DEF Coherent, RowsOf
    <3>2. ops' = [ops EXCEPT ![o] = CompletedRow(@, StopOutcomeAfterRecovery(found))]
      BY <1>0, <1>3, <3>1 DEF TypeOK
    <3> DEFINE outcome == StopOutcomeAfterRecovery(found)
    <3>3. /\ outcome \in Outcome /\ found \in TerminalRunState /\ Agree(outcome, found)
          /\ outcome # "SIGNAL_UNAVAILABLE"
      BY OutcomesAgree
    <3>4. runs' = [runs EXCEPT ![ops[o].run] = found]
      BY <1>3, <3>1
    <3> HIDE DEF outcome
    <3>5. Coherent([ops EXCEPT ![o] = CompletedRow(@, outcome)], [runs EXCEPT ![ops[o].run] = found])
      BY <1>0, <3>1, <3>3, CompletionKeepsCoherence
    <3> QED BY <3>2, <3>4, <3>5 DEF outcome
  <2> QED BY <2>1, <2>2
<1>4. ProbeResults(world[r]) \subseteq RecoveryOutcome
  BY <1>0 DEF TypeOK, World, ProbeResults, RecoveryOutcome
<1> QED BY <1>2, <1>3, <1>4 DEF Reconcile, RecoveryOutcome

(* Every step keeps the tables coherent. *)
LEMMA StepKeepsCoherence ==
  ASSUME LedgerInv, Next
  PROVE  Coherent(ops', runs')
<1>0. /\ StopInv /\ TypeOK /\ Coherent(ops, runs)
      /\ \A r \in Runs : ActiveOf(r) = RowsOf(ops, r)
  BY DEF LedgerInv, StopInv, ActiveOf, RowsOf
<1>1. ASSUME NEW r \in Runs, NEW o \in Operations, NEW k \in Kind, BeginLive(r, o, k)
      PROVE  Coherent(ops', runs')
  <2> DEFINE newOps  == [ops EXCEPT ![o] = RequestedRow(r, k, None)]
             newRuns == [runs EXCEPT ![r] = "STOP_REQUESTED"]
  <2>1. AttachControl(r, o, newOps, newRuns) /\ Coherent(newOps, newRuns)
    BY <1>0, <1>1, RequestKeepsCoherence DEF BeginLive
  <2>2. newOps[o].run = r /\ newOps[o].status \in ActiveStatus
    BY <1>0 DEF TypeOK, RequestedRow, ActiveStatus
  <2> HIDE DEF newOps, newRuns
  <2> QED BY <2>1, <2>2, AttachKeepsCoherence
<1>2. ASSUME NEW r \in Runs, NEW o \in Operations, NEW k \in Kind, BeginFinished(r, o, k)
      PROVE  Coherent(ops', runs')
  BY <1>0, <1>2, FinishedRequestKeepsCoherence DEF BeginFinished
<1>3. ASSUME NEW r \in Runs, NEW o \in Operations, NEW g \in Operations, BeginSupersede(r, o, g)
      PROVE  Coherent(ops', runs')
  <2> DEFINE newOps == [ops EXCEPT ![g].status = "SUPERSEDED",
                                   ![o] = RequestedRow(r, "FORCE", g)]
             newRuns == runs
  <2>1. AttachControl(r, o, newOps, newRuns) /\ Coherent(newOps, newRuns)
    BY <1>0, <1>3, SupersessionKeepsCoherence DEF BeginSupersede
  <2>2. newOps[o].run = r /\ newOps[o].status \in ActiveStatus
    BY <1>0 DEF TypeOK, RequestedRow, ActiveStatus
  <2> HIDE DEF newOps, newRuns
  <2> QED BY <2>1, <2>2, AttachKeepsCoherence
<1>4. ASSUME NEW r \in Runs, NEW o \in Operations, BeginReplay(r, o)
      PROVE  Coherent(ops', runs')
  <2> DEFINE newOps == ops  newRuns == runs
  <2>1. /\ AttachControl(r, o, newOps, newRuns) /\ Coherent(newOps, newRuns)
        /\ newOps[o].run = r /\ newOps[o].status \in ActiveStatus
    BY <1>0, <1>4 DEF BeginReplay, ActiveOf
  <2> HIDE DEF newOps, newRuns
  <2> QED BY <2>1, AttachKeepsCoherence
<1>5. ASSUME NEW r \in Runs, WorkerStep(r)
      PROVE  Coherent(ops', runs')
  BY <1>0, <1>5, WorkerKeepsCoherence
<1>6. ASSUME NEW r \in Runs, PersistNaturalExit(r)
      PROVE  Coherent(ops', runs')
  <2>1. CASE UNCHANGED <<ops, runs>>
    BY <1>0, <2>1
  <2>2. CASE runs[r] = "RUNNING" /\ runs' = [runs EXCEPT ![r] = "EXITED"] /\ UNCHANGED ops
    BY <1>0, <2>2, RunChangeKeepsCoherence DEF Coherent, StoppingRunState, TerminalRunState,
       RunState
  <2> QED BY <1>6, <2>1, <2>2 DEF PersistNaturalExit
<1>7. ASSUME NEW r \in Runs, Reconcile(r)
      PROVE  Coherent(ops', runs')
  BY <1>7, ReconcileKeepsCoherence
<1>8. ASSUME NEW r \in Runs, ElapseDeadline(r) \/ ConfirmNaturalExit(r) \/ ProcessChanges(r)
      PROVE  Coherent(ops', runs')
  BY <1>0, <1>8 DEF ElapseDeadline, ConfirmNaturalExit, ProcessChanges, ledger
<1>9. CASE Crash \/ Serve
  BY <1>0, <1>9 DEF Crash, Serve, ledger
<1> QED BY <1>1, <1>2, <1>3, <1>4, <1>5, <1>6, <1>7, <1>8, <1>9 DEF Next, Request

(* While startup goes on, only the run being reconciled changes state, and *)
(* it leaves the candidates.                                               *)
LEMMA StepKeepsCandidates ==
  ASSUME LedgerInv, Next
  PROVE  PendingAreCandidates'
<1>0. TypeOK /\ PendingAreCandidates
  BY DEF LedgerInv, StopInv
<1>1. CASE serving /\ serving' = serving /\ pending' = pending
  BY <1>0, <1>1 DEF PendingAreCandidates
<1>2. ASSUME NEW r \in Runs, Request(r) \/ WorkerStep(r) \/ ElapseDeadline(r)
                            \/ ConfirmNaturalExit(r) \/ PersistNaturalExit(r)
      PROVE  PendingAreCandidates'
  <2>1. serving /\ serving' = serving /\ pending' = pending
    BY <1>2 DEF Request, BeginLive, BeginFinished, BeginSupersede, BeginReplay, memory,
       WorkerStep, ReserveSignal, SendSignal, RecordAttempt, ObserveExit, ObserveLostBoundary,
       GracefulTimeout, ForceTimeout, CompleteStop, ElapseDeadline, ConfirmNaturalExit,
       PersistNaturalExit, Monitored, InPhase
  <2> QED BY <1>1, <2>1
<1>3. ASSUME NEW r \in Runs, Reconcile(r)
      PROVE  PendingAreCandidates'
  BY <1>0, <1>3 DEF Reconcile, TypeOK, PendingAreCandidates
<1>4. ASSUME NEW r \in Runs, ProcessChanges(r)
      PROVE  PendingAreCandidates'
  BY <1>0, <1>4 DEF ProcessChanges, PendingAreCandidates, ledger, memory
<1>5. CASE Crash
  BY <1>5 DEF Crash, PendingAreCandidates, ledger
<1>6. CASE Serve
  BY <1>0, <1>6 DEF Serve, PendingAreCandidates, ledger
<1> QED BY <1>2, <1>3, <1>4, <1>5, <1>6 DEF Next

(* Every step keeps the tables coherent and the candidates unfinished. *)
LEMMA StepKeepsLedgerInv ==
  ASSUME LedgerInv, [Next]_vars
  PROVE  LedgerInv'
<1>1. StopInv'
  BY StepKeepsStopInv DEF LedgerInv
<1>2. CASE Next
  BY <1>1, <1>2, StepKeepsCoherence, StepKeepsCandidates DEF LedgerInv, Coherent, RowsOf
<1>3. CASE UNCHANGED vars
  BY <1>1, <1>3 DEF LedgerInv, Coherent, RowsOf, PendingAreCandidates, vars
<1> QED BY <1>2, <1>3

(* Nothing is stopped and nothing is to be recovered at the start. *)
LEMMA InitLedgerInv == Init => LedgerInv
<1> SUFFICES ASSUME Init PROVE LedgerInv
  OBVIOUS
<1>1. StopInv /\ TypeOK
  BY InitStopInv DEF StopInv
<1>2. \A o \in Operations : ops[o].status = "ABSENT"
  BY DEF Init, AbsentRow
<1>3. \A r \in Runs : RowsOf(ops, r) = {}
  BY <1>2 DEF RowsOf, ActiveStatus
<1>4. \A r \in Runs : runs[r] \notin StoppingRunState
  <2>1. \A x \in LaunchResult : x[1] \notin StoppingRunState
    BY DEF LaunchResult, StoppingRunState
  <2>2. PICK launched \in [Runs -> LaunchResult] : runs = [r \in Runs |-> launched[r][1]]
    BY DEF Init
  <2>3. \A r \in Runs : runs[r] = launched[r][1] /\ launched[r] \in LaunchResult
    BY <2>2
  <2> HIDE DEF LaunchResult
  <2> QED BY <2>1, <2>3
<1>5. Coherent(ops, runs)
  BY <1>1, <1>2, <1>3, <1>4 DEF Coherent, TypeOK
<1>6. PendingAreCandidates
  BY DEF Init, PendingAreCandidates
<1> QED BY <1>1, <1>5, <1>6 DEF LedgerInv

LEMMA LedgerInvariance == Spec => []LedgerInv
<1>1. LedgerInv /\ [Next]_vars => LedgerInv'
  BY StepKeepsLedgerInv
<1> QED BY <1>1, InitLedgerInv, PTL DEF Spec

------------------------------------------------------------
(* The runs table and the operations table never contradict each other:   *)
(* every operation can be read, a run has at most one active stop, and it *)
(* is in a stopping state exactly while it has one.                       *)
THEOREM LedgerStaysCoherent == Spec => []LedgerCoherent
<1>1. LedgerInv => LedgerCoherent
  BY CoherentIsLedgerCoherent DEF LedgerInv
<1> QED BY <1>1, LedgerInvariance, PTL

(* A step changes neither the state of a run that ended nor the row of an *)
(* operation that was completed or superseded.                            *)
ResultsKept ==
  /\ \A r \in Runs : runs[r] \in TerminalRunState => runs'[r] = runs[r]
  /\ \A o \in Operations : ops[o].status \in FinalStatus => ops'[o] = ops[o]

(* A request keeps every result: what it writes is not one, and the row of *)
(* its operation is active or new.                                         *)
LEMMA AttachKeepsResults ==
  ASSUME TypeOK, NEW r \in Runs, NEW o \in Operations,
         NEW newOps \in [Operations -> OperationRow], NEW newRuns \in [Runs -> RunState],
         runs[r] \notin TerminalRunState, ops[o].status \notin FinalStatus,
         \A q \in Runs \ {r} : newRuns[q] = runs[q],
         \A p \in Operations \ {o} : ops[p].status \in FinalStatus => newOps[p] = ops[p],
         AttachControl(r, o, newOps, newRuns)
  PROVE  ResultsKept
BY DEF AttachControl, ResultsKept

LEMMA StepKeepsResults ==
  ASSUME LedgerInv, Next
  PROVE  ResultsKept
<1>0. /\ TypeOK /\ ControlsNameTheirStop /\ Coherent(ops, runs) /\ PendingAreCandidates
      /\ StopInv /\ \A r \in Runs : ActiveOf(r) = RowsOf(ops, r)
  BY DEF LedgerInv, StopInv, ActiveOf, RowsOf
<1>1. ActiveStatus \cap FinalStatus = {} /\ "ABSENT" \notin FinalStatus
      /\ StoppingRunState \cap TerminalRunState = {} /\ RecoveryCandidate \cap TerminalRunState = {}
      /\ LiveRunState \cap TerminalRunState = {}
  BY
    DEF ActiveStatus, FinalStatus, StoppingRunState, TerminalRunState, RecoveryCandidate,
        LiveRunState
<1>2. ASSUME NEW r \in Runs, NEW o \in Operations, NEW k \in Kind, BeginLive(r, o, k)
      PROVE  ResultsKept
  <2> DEFINE newOps  == [ops EXCEPT ![o] = RequestedRow(r, k, None)]
             newRuns == [runs EXCEPT ![r] = "STOP_REQUESTED"]
  <2>1. newOps \in [Operations -> OperationRow] /\ newRuns \in [Runs -> RunState]
    BY <1>0, RequestedRowType DEF TypeOK, RunState
  <2>2. /\ \A q \in Runs \ {r} : newRuns[q] = runs[q]
        /\ \A p \in Operations \ {o} : newOps[p] = ops[p]
    BY <1>0 DEF TypeOK
  <2>3. /\ runs[r] \notin TerminalRunState /\ ops[o].status \notin FinalStatus
        /\ AttachControl(r, o, newOps, newRuns)
    BY <1>1, <1>2 DEF BeginLive
  <2> HIDE DEF newOps, newRuns
  <2> QED BY <1>0, <2>1, <2>2, <2>3, AttachKeepsResults
<1>3. ASSUME NEW r \in Runs, NEW o \in Operations, NEW k \in Kind, BeginFinished(r, o, k)
      PROVE  ResultsKept
  BY <1>0, <1>1, <1>3 DEF BeginFinished, ResultsKept, TypeOK
<1>4. ASSUME NEW r \in Runs, NEW o \in Operations, NEW g \in Operations, BeginSupersede(r, o, g)
      PROVE  ResultsKept
  <2> DEFINE newOps == [ops EXCEPT ![g].status = "SUPERSEDED",
                                   ![o] = RequestedRow(r, "FORCE", g)]
             newRuns == runs
  <2>1. /\ RequestedRow(r, "FORCE", g) \in OperationRow
        /\ [ops[g] EXCEPT !.status = "SUPERSEDED"] \in OperationRow
    BY <1>0, RequestedRowType, FieldUpdates DEF TypeOK, Kind, FinalStatus
  <2>2. newOps \in [Operations -> OperationRow] /\ newRuns \in [Runs -> RunState]
    BY <1>0, <2>1 DEF TypeOK
  <2>3. ops[g].status \notin FinalStatus
    BY <1>1, <1>4 DEF BeginSupersede, ActiveOf
  <2>4. /\ \A q \in Runs \ {r} : newRuns[q] = runs[q]
        /\ \A p \in Operations \ {o, g} : newOps[p] = ops[p]
    BY <1>0 DEF TypeOK
  <2>5. runs[r] \notin TerminalRunState
    BY <1>4 DEF BeginSupersede, TerminalRunState
  <2>6. ops[o].status \notin FinalStatus /\ AttachControl(r, o, newOps, newRuns)
    BY <1>1, <1>4 DEF BeginSupersede
  <2> HIDE DEF newOps, newRuns
  <2> QED BY <1>0, <2>2, <2>3, <2>4, <2>5, <2>6, AttachKeepsResults
<1>5. ASSUME NEW r \in Runs, NEW o \in Operations, BeginReplay(r, o)
      PROVE  ResultsKept
  <2> DEFINE newOps == ops  newRuns == runs
  <2>1. /\ AttachControl(r, o, newOps, newRuns)
        /\ newOps \in [Operations -> OperationRow] /\ newRuns \in [Runs -> RunState]
        /\ newOps = ops /\ newRuns = runs
    BY <1>0, <1>5 DEF BeginReplay, TypeOK
  <2>2. ops[o].status \notin FinalStatus /\ runs[r] \notin TerminalRunState
    BY <1>0, <1>1, <1>5 DEF BeginReplay, Coherent, RowsOf
  <2> HIDE DEF newOps, newRuns
  <2> QED BY <1>0, <2>1, <2>2, AttachKeepsResults
<1>6. ASSUME NEW r \in Runs, WorkerStep(r)
      PROVE  ResultsKept
  <2> DEFINE o == controls[r].op
  <2>0. o \in Operations /\ ops[o].run = r
    BY <1>0, <1>6, WorkerReach DEF ControlsNameTheirStop
  <2>1. CASE UNCHANGED ledger
    BY <2>1 DEF ledger, ResultsKept
  <2>2. CASE /\ ops[o].status \in ActiveStatus
             /\ \A q \in Runs \ {r} : runs'[q] = runs[q]
             /\ \A p \in Operations \ {o} : ops'[p] = ops[p]
    BY <1>0, <1>1, <2>0, <2>2 DEF Coherent, RowsOf, ResultsKept
  <2>3. CASE ReserveSignal(r)
    BY <1>0, <2>0, <2>1, <2>2, <2>3 DEF ReserveSignal, TypeOK, ActiveStatus, ledger
  <2>4. CASE RecordAttempt(r)
    BY <1>0, <2>0, <2>1, <2>2, <2>4 DEF RecordAttempt, TypeOK, ActiveStatus, ledger
  <2>5. CASE GracefulTimeout(r)
    BY <1>0, <2>0, <2>1, <2>2, <2>5 DEF GracefulTimeout, TypeOK, ActiveStatus, ledger
  <2>6. CASE CompleteStop(r)
    BY <1>0, <2>0, <2>1, <2>2, <2>6 DEF CompleteStop, Completable, TypeOK, ledger
  <2>7. CASE SendSignal(r) \/ ObserveExit(r) \/ ObserveLostBoundary(r) \/ ForceTimeout(r)
    BY <2>1, <2>7 DEF SendSignal, ObserveExit, ObserveLostBoundary, ForceTimeout, ledger
  <2> QED BY <1>6, <2>3, <2>4, <2>5, <2>6, <2>7 DEF WorkerStep
<1>7. ASSUME NEW r \in Runs, PersistNaturalExit(r)
      PROVE  ResultsKept
  BY <1>0, <1>7 DEF PersistNaturalExit, ResultsKept, TypeOK, TerminalRunState
<1>8. ASSUME NEW r \in Runs, Reconcile(r)
      PROVE  ResultsKept
  <2>1. runs[r] \notin TerminalRunState
    BY <1>0, <1>1, <1>8 DEF Reconcile, PendingAreCandidates
  <2>2. \A q \in Runs \ {r} : runs'[q] = runs[q]
    BY <1>0, <1>8 DEF Reconcile, TypeOK
  <2>3. \A o \in Operations : o \notin ActiveOf(r) => ops'[o] = ops[o]
    BY <1>8 DEF Reconcile
  <2>4. \A o \in Operations : o \in ActiveOf(r) => ops[o].status \notin FinalStatus
    BY <1>1 DEF ActiveOf
  <2> QED BY <2>1, <2>2, <2>3, <2>4 DEF ResultsKept
<1>9. ASSUME NEW r \in Runs, ElapseDeadline(r) \/ ConfirmNaturalExit(r) \/ ProcessChanges(r)
      PROVE  ResultsKept
  BY <1>9 DEF ElapseDeadline, ConfirmNaturalExit, ProcessChanges, ledger, ResultsKept
<1>10. CASE Crash \/ Serve
  BY <1>10 DEF Crash, Serve, ledger, ResultsKept
<1> QED BY <1>2, <1>3, <1>4, <1>5, <1>6, <1>7, <1>8, <1>9, <1>10 DEF Next, Request

(* The recorded end of a run and the recorded result of a stop are never *)
(* rewritten, by no later request, worker, monitor or restart.           *)
THEOREM ResultsStayFinal == Spec => ResultsAreFinal
<1>1. LedgerInv /\ [Next]_vars => [ResultsKept]_vars
  BY StepKeepsResults
<1>2. [][ResultsKept]_vars => ResultsAreFinal
  BY PTL DEF ResultsAreFinal, ResultsKept
<1> QED BY <1>1, <1>2, LedgerInvariance, PTL DEF Spec

------------------------------------------------------------
(* The promised life cycle keeps what it is promised for. *)

VARIABLES stage, target   \* of the life cycle by itself

Promised == INSTANCE StopLifecycle

Stage == {"Unused", "Requested", "Reserved", "Signalled", "TimedOut", "Resolved", "Replaced"}

LifecycleInv ==
  /\ stage \in [Operations -> Stage]
  /\ target \in [Operations -> Runs \cup {None}]
  /\ attempts \in [Operations -> {0, 1}]
  /\ Promised!OneOpenStop
  /\ Promised!AttemptsAreAccountedFor

(* Opening o for a run that has no other open stop. *)
LEMMA OpeningKeepsOneOpenStop ==
  ASSUME LifecycleInv, NEW o \in Operations, NEW r \in Runs \cup {None},
         stage' \in [Operations -> Stage],
         \A p \in Operations \ {o} : stage'[p] \in Promised!OpenStage =>
            stage[p] \in Promised!OpenStage /\ target[p] # r,
         target' = [target EXCEPT ![o] = r]
  PROVE  Promised!OneOpenStop'
BY DEF LifecycleInv, Promised!OneOpenStop, Promised!Open

LEMMA MovesKeepTheirPromise ==
  ASSUME LifecycleInv, NEW o \in Operations, NEW from \in Promised!OpenStage, NEW to \in Stage,
         Promised!Move(o, from, to), to \in {"Signalled", "TimedOut"} => attempts[o] = 1,
         to \notin {"Unused", "Requested"}
  PROVE  LifecycleInv'
<1>1. stage' \in [Operations -> Stage] /\ UNCHANGED <<target, attempts>>
  BY DEF Promised!Move, LifecycleInv
<1>2. Promised!OneOpenStop'
  BY DEF LifecycleInv, Promised!Move, Promised!OneOpenStop, Promised!Open
<1>3. Promised!AttemptsAreAccountedFor'
  BY DEF LifecycleInv, Promised!Move, Promised!AttemptsAreAccountedFor
<1> QED BY <1>1, <1>2, <1>3 DEF LifecycleInv

LEMMA LifecycleStep ==
  LifecycleInv /\ [Promised!LifecycleNext]_(Promised!lifecycleVars) => LifecycleInv'
<1> SUFFICES ASSUME LifecycleInv, [Promised!LifecycleNext]_(Promised!lifecycleVars) PROVE LifecycleInv'
  OBVIOUS
<1> USE DEF Promised!OpenStage
<1>1. ASSUME NEW o \in Operations, NEW r \in Runs, Promised!Accept(o, r) PROVE LifecycleInv'
  <2>1. stage' \in [Operations -> Stage] /\ target' \in [Operations -> Runs \cup {None}]
    BY <1>1 DEF Promised!Accept, LifecycleInv, Stage
  <2>2. Promised!OneOpenStop'
    BY <1>1, <2>1, OpeningKeepsOneOpenStop DEF Promised!Accept, LifecycleInv, Promised!Open
  <2>3. Promised!AttemptsAreAccountedFor'
    BY <1>1 DEF Promised!Accept, LifecycleInv, Promised!AttemptsAreAccountedFor
  <2> QED BY <1>1, <2>1, <2>2, <2>3 DEF Promised!Accept, LifecycleInv
<1>2. ASSUME NEW o \in Operations, NEW g \in Operations, Promised!Replace(o, g) PROVE LifecycleInv'
  <2>1. o # g /\ target[g] \in Runs \cup {None}
    BY <1>2 DEF Promised!Replace, Promised!Open, LifecycleInv
  <2>2. stage' \in [Operations -> Stage] /\ target' \in [Operations -> Runs \cup {None}]
    BY <1>2, <2>1 DEF Promised!Replace, LifecycleInv, Stage
  <2>3. ASSUME NEW p \in Operations \ {o}, stage'[p] \in Promised!OpenStage
        PROVE  stage[p] \in Promised!OpenStage /\ target[p] # target[g]
    BY <1>2, <2>1, <2>3 DEF Promised!Replace, LifecycleInv, Promised!OneOpenStop, Promised!Open
  <2>4. Promised!OneOpenStop'
    BY <1>2, <2>1, <2>2, <2>3, OpeningKeepsOneOpenStop DEF Promised!Replace
  <2>5. Promised!AttemptsAreAccountedFor'
    BY <1>2, <2>1 DEF Promised!Replace, LifecycleInv, Promised!AttemptsAreAccountedFor
  <2> QED BY <1>2, <2>2, <2>4, <2>5 DEF Promised!Replace, LifecycleInv
<1>3. ASSUME NEW o \in Operations, Promised!Reserve(o) PROVE LifecycleInv'
  BY <1>3, MovesKeepTheirPromise DEF Promised!Reserve, Stage
<1>4. ASSUME NEW o \in Operations, Promised!Attempt(o) PROVE LifecycleInv'
  BY <1>4
    DEF Promised!Attempt, LifecycleInv, Promised!OneOpenStop, Promised!Open,
        Promised!AttemptsAreAccountedFor
<1>9. ASSUME NEW o \in Operations, Promised!LateAttempt(o) PROVE LifecycleInv'
  BY <1>9
    DEF Promised!LateAttempt, LifecycleInv, Promised!OneOpenStop, Promised!Open,
        Promised!AttemptsAreAccountedFor
<1>5. ASSUME NEW o \in Operations, Promised!Record(o) PROVE LifecycleInv'
  BY <1>5, MovesKeepTheirPromise DEF Promised!Record, Stage
<1>6. ASSUME NEW o \in Operations, Promised!TimeOut(o) PROVE LifecycleInv'
  BY <1>6, MovesKeepTheirPromise DEF Promised!TimeOut, Promised!Move, LifecycleInv,
     Promised!AttemptsAreAccountedFor, Stage
<1>7. ASSUME NEW o \in Operations, Promised!Resolve(o) PROVE LifecycleInv'
  BY <1>7, MovesKeepTheirPromise DEF Promised!Resolve, Stage
<1>8. CASE UNCHANGED Promised!lifecycleVars
  BY <1>8
    DEF Promised!lifecycleVars, LifecycleInv, Promised!OneOpenStop, Promised!Open,
        Promised!AttemptsAreAccountedFor
<1> QED BY <1>1, <1>2, <1>3, <1>4, <1>5, <1>6, <1>7, <1>8, <1>9 DEF Promised!LifecycleNext

(* What clients are promised: a run has at most one open stop, and each *)
(* operation's stage tells whether its one signal attempt was made.     *)
THEOREM LifecycleKeepsPromises ==
  Promised!LifecycleSpec => [](Promised!OneOpenStop /\ Promised!AttemptsAreAccountedFor)
<1>1. Promised!LifecycleInit => LifecycleInv
  BY
    DEF Promised!LifecycleInit, LifecycleInv, Stage, Promised!OneOpenStop, Promised!Open,
        Promised!OpenStage, Promised!AttemptsAreAccountedFor
<1>2. LifecycleInv => Promised!OneOpenStop /\ Promised!AttemptsAreAccountedFor
  BY DEF LifecycleInv
<1> QED BY <1>1, <1>2, LifecycleStep, PTL DEF Promised!LifecycleSpec

------------------------------------------------------------
(* What the service remembers, and what clients see. *)

(* A run that startup has not reached has no control; every other run has  *)
(* the one its ledger state asks for, or, when the answer to a request was *)
(* lost, still the one it had.                                             *)
RunIsControlled(r) ==
  IF r \in pending
  THEN controls[r].tag = "None"
  ELSE /\ runs[r] \in LiveRunState => controls[r].tag = "Running"
       /\ runs[r] \in StoppingRunState =>
            \/ Stopping(r) /\ controls[r].op \in ActiveOf(r)
            \/ BeginMayLoseReply /\ controls[r].tag \in {"Running", "Stopping"}

(* What the ledger says of the operation a worker works for follows from   *)
(* the phase the worker is in, and so does the signal attempt; only a lost *)
(* answer leaves a worker at an operation that was superseded.             *)
WorkerIsInStep(r) ==
  Stopping(r) =>
    LET row == ops[controls[r].op] IN
    /\ controls[r].phase = "SignalAttempted" => attempts[controls[r].op] = 1
    /\ \/ BeginMayLoseReply /\ row.status = "SUPERSEDED"
       \/ /\ row.status \in StatusSeenInPhase[controls[r].phase]
          /\ controls[r].phase \in {"Monitoring", "TimedOut"} =>
               row.disposition = controls[r].disposition
          /\ controls[r].phase = "CompletionPending" =>
               \/ /\ row.status \in ActiveStatus
                  /\ controls[r].outcome = "SIGNAL_UNAVAILABLE" => row.disposition = "UNAVAILABLE"
               \/ row.status = "COMPLETED" /\ row.outcome = controls[r].outcome

ControlInv ==
  /\ LedgerInv
  /\ \A r \in Runs : RunIsControlled(r) /\ WorkerIsInStep(r)

(* What a worker may find, phase by phase. *)
LEMMA SeenStatuses ==
  /\ StatusSeenInPhase["Requested"] = {"REQUESTED", "SIGNAL_PENDING"}
  /\ StatusSeenInPhase["SignalPending"] = {"SIGNAL_PENDING"}
  /\ StatusSeenInPhase["SignalAttempted"] = {"SIGNAL_PENDING", "IN_PROGRESS"}
  /\ StatusSeenInPhase["Monitoring"] = {"IN_PROGRESS", "TIMED_OUT"}
  /\ StatusSeenInPhase["TimedOut"] = {"TIMED_OUT"}
  /\ StatusSeenInPhase["CompletionPending"] = ActiveStatus \cup {"COMPLETED"}
BY DEF StatusSeenInPhase, Phase

(* The parts of the invariant that the steps below lean on. *)
LEMMA ControlInvParts ==
  ASSUME ControlInv
  PROVE  /\ LedgerInv /\ StopInv /\ TypeOK /\ Coherent(ops, runs)
         /\ ControlsNameTheirStop /\ OneActiveStop /\ PendingAreCandidates
         /\ \A r \in Runs : ActiveOf(r) = RowsOf(ops, r)
BY DEF ControlInv, LedgerInv, StopInv, ActiveOf, RowsOf

(* A step that leaves a run, its control, its operations and their *)
(* attempts alone keeps what is promised of it.                    *)
LEMMA BystandersStayControlled ==
  ASSUME ControlInv, NEW q \in Runs,
         controls'[q] = controls[q], runs'[q] = runs[q],
         q \in pending' <=> q \in pending,
         \A o \in Operations :
           IF ops[o].run = q /\ ops[o].status # "ABSENT"
           THEN ops'[o] = ops[o] /\ attempts'[o] = attempts[o]
           ELSE ops'[o].run # q \/ ops'[o].status \notin ActiveStatus
  PROVE  RunIsControlled(q)' /\ WorkerIsInStep(q)'
<1>1. RunIsControlled(q) /\ WorkerIsInStep(q)
  BY DEF ControlInv
<1>2. ActiveOf(q)' = ActiveOf(q)
  BY DEF ActiveOf, ActiveStatus
<1>3. Stopping(q) => /\ controls[q].op \in Operations
                     /\ ops'[controls[q].op] = ops[controls[q].op]
                     /\ attempts'[controls[q].op] = attempts[controls[q].op]
  BY ControlInvParts DEF ControlsNameTheirStop
<1>4. RunIsControlled(q)'
  BY <1>1, <1>2 DEF RunIsControlled, Stopping
<1>5. WorkerIsInStep(q)'
  BY <1>1, <1>3 DEF WorkerIsInStep, Stopping
<1> QED BY <1>4, <1>5

(* A fresh stop whose control was just taken is controlled and in step. *)
LEMMA TakenControlIsInStep ==
  ASSUME TypeOK, NEW r \in Runs, NEW o \in Operations, NEW d, r \notin pending',
         controls' = [controls EXCEPT ![r] =
           StoppingControl(@.evidence, o, "Requested", d, FALSE)],
         ops'[o].run = r, ops'[o].status = "REQUESTED", runs'[r] \in StoppingRunState
  PROVE  RunIsControlled(r)' /\ WorkerIsInStep(r)'
<1>1. controls'[r].tag = "Stopping" /\ controls'[r].op = o /\ controls'[r].phase = "Requested"
  BY DEF TypeOK, StoppingControl
<1>2. o \in ActiveOf(r)'
  BY DEF ActiveOf, ActiveStatus
<1>3. RunIsControlled(r)'
  BY <1>1, <1>2, DecisionTypes DEF RunIsControlled, Stopping
<1>4. WorkerIsInStep(r)'
  BY <1>1, SeenStatuses DEF WorkerIsInStep
<1> QED BY <1>3, <1>4

(* A request either takes the process over as soon as it is committed, or, *)
(* when its answer is lost, leaves the control as it was, with a worker    *)
(* that may work for a superseded operation.                               *)
LEMMA AttachKeepsControl ==
  ASSUME ControlInv, NEW r \in Runs, NEW o \in Operations, NEW q \in Runs,
         NEW newOps \in [Operations -> OperationRow], NEW newRuns \in [Runs -> RunState],
         AttachControl(r, o, newOps, newRuns), UNCHANGED <<pending, attempts>>, pending = {},
         newOps[o].run = r, newOps[o].status = "REQUESTED", ops[o].status # "ABSENT" => ops[o].run = r,
         newRuns[r] \in StoppingRunState, \A x \in Runs \ {r} : newRuns[x] = runs[x],
         controls[r].tag \in {"Running", "Stopping"}, ~(Stopping(r) /\ controls[r].op = o),
         BeginMayLoseReply \/ ProcessTakeable(r, newOps[o].supersedes),
         \A p \in Operations \ {o} :
           \/ newOps[p] = ops[p]
           \/ newOps[p].status = "SUPERSEDED" /\ newOps[p].run = r /\ ops[p].run = r
  PROVE  RunIsControlled(q)' /\ WorkerIsInStep(q)'
<1>0. TypeOK /\ ControlsNameTheirStop
  BY ControlInvParts
<1>1. /\ \A x \in Runs \ {r} : controls'[x] = controls[x]
      /\ \A p \in Operations \ {o} : ops'[p] = newOps[p]
      /\ ops'[o].run = r
  BY <1>0, AttachReach
<1>2. CASE q # r
  <2>1. controls'[q] = controls[q] /\ runs'[q] = runs[q]
    BY <1>0, <1>1, <1>2 DEF AttachControl, TypeOK
  <2>2. \A p \in Operations :
          IF ops[p].run = q /\ ops[p].status # "ABSENT"
          THEN ops'[p] = ops[p] /\ attempts'[p] = attempts[p]
          ELSE ops'[p].run # q \/ ops'[p].status \notin ActiveStatus
    BY <1>1, <1>2 DEF ActiveStatus
  <2> QED BY <2>1, <2>2, BystandersStayControlled
<1>3. CASE controls' = [controls EXCEPT ![r] = StoppingControl(@.evidence, o,
                PhaseOfStatus(newOps[o].status), newOps[o].disposition, FALSE)]
           /\ ops' = newOps /\ runs' = newRuns /\ q = r
  <2>1. PhaseOfStatus(newOps[o].status) = "Requested"
    BY DEF PhaseOfStatus
  <2> QED BY <1>0, <1>3, <2>1, TakenControlIsInStep
<1>4. CASE BeginMayLoseReply /\ UNCHANGED controls /\ q = r
           /\ runs'[r] \in StoppingRunState \cup TerminalRunState
  <2>1. RunIsControlled(r)'
    BY <1>4, DecisionTypes DEF RunIsControlled
  <2>2. ASSUME Stopping(r)
        PROVE  LET g == controls[r].op IN
               /\ g \in Operations \ {o}
               /\ ops'[g] = ops[g] \/ ops'[g].status = "SUPERSEDED"
    BY <1>0, <1>1, <2>2 DEF ControlsNameTheirStop
  <2>3. WorkerIsInStep(r)
    BY DEF ControlInv
  <2>4. WorkerIsInStep(r)'
    BY <1>4, <2>2, <2>3 DEF WorkerIsInStep, Stopping
  <2> QED BY <1>4, <2>1, <2>4
<1>5. newRuns[r] \in StoppingRunState
      /\ [newRuns EXCEPT ![r] = RunStateAfter("ORPHANED")][r] \in TerminalRunState
  BY DecisionTypes DEF RunStateAfter, TerminalRunState
<1> QED BY <1>2, <1>3, <1>4, <1>5 DEF AttachControl

(* A request to supersede finds the control of the graceful stop, whose    *)
(* worker has neither made an attempt that is not recorded nor a result to *)
(* write, or a control that never came to work for it.                     *)
LEMMA SupersededStopIsSafe ==
  ASSUME ControlInv, NEW r \in Runs, NEW o \in Operations, NEW g \in Operations,
         BeginSupersede(r, o, g)
  PROVE  /\ pending = {} /\ controls[r].tag \in {"Running", "Stopping"}
         /\ BeginMayLoseReply \/ (Stopping(r) /\ controls[r].op = g)
         /\ ops[g].status = "SIGNAL_PENDING" => attempts[g] = 0
<1>0. /\ TypeOK /\ AttemptsFollowReservations /\ ControlsNameTheirStop /\ OneActiveStop
      /\ UnclaimedStopsAreFresh /\ PendingAreCandidates
  BY ControlInvParts DEF StopInv
<1>1. /\ pending = {} /\ runs[r] \in StoppingRunState /\ g \in ActiveOf(r)
      /\ ops[o].status = "ABSENT" /\ ops[g].status \in ActiveStatus
  BY <1>0 DEF BeginSupersede, PendingAreCandidates, StoppingRunState, ActiveOf
<1>2. RunIsControlled(r) /\ WorkerIsInStep(r)
  BY DEF ControlInv
<1>3. /\ controls[r].tag \in {"Running", "Stopping"}
      /\ BeginMayLoseReply \/ (Stopping(r) /\ controls[r].op = g)
  BY <1>0, <1>1, <1>2 DEF RunIsControlled, OneActiveStop, Stopping
<1>4. CASE Stopping(r) /\ controls[r].op = g
  <2>1. controls[r].phase \in Phase \ {"SignalAttempted", "CompletionPending"}
    BY <1>0, <1>1, <1>4 DEF BeginSupersede, UnsafeForceSupersession, SupersessionBlocked,
       ControlsNameTheirStop, ActiveStatus
  <2>2. ops[g].status \in StatusSeenInPhase[controls[r].phase]
    BY <1>1, <1>2, <1>4 DEF WorkerIsInStep, ActiveStatus
  <2>3. ops[g].status = "SIGNAL_PENDING" => controls[r].phase \in {"Requested", "SignalPending"}
    BY <2>1, <2>2, SeenStatuses DEF Phase
  <2> QED BY <1>0, <1>1, <1>3, <1>4, <2>3 DEF AttemptsFollowReservations
<1>5. CASE ~(Stopping(r) /\ controls[r].op = g)
  BY <1>0, <1>1, <1>3, <1>5 DEF UnclaimedStopsAreFresh
<1> QED BY <1>1, <1>3, <1>4, <1>5

(* A request that is repeated finds its operation under control, unless *)
(* its first answer was lost: then the operation has not been started.  *)
LEMMA ReplayedStopIsFresh ==
  ASSUME ControlInv, NEW r \in Runs, NEW o \in Operations, BeginReplay(r, o)
  PROVE  /\ BeginMayLoseReply /\ pending = {} /\ runs[r] \in StoppingRunState
         /\ controls[r].tag \in {"Running", "Stopping"}
         /\ ops[o].run = r /\ ops[o].status = "REQUESTED"
<1>0. OneActiveStop /\ UnclaimedStopsAreFresh /\ PendingAreCandidates /\ Coherent(ops, runs)
      /\ ActiveOf(r) = RowsOf(ops, r)
  BY ControlInvParts DEF StopInv
<1>1. pending = {} /\ o \in ActiveOf(r) /\ ~(Stopping(r) /\ controls[r].op = o)
  BY <1>0 DEF BeginReplay, PendingAreCandidates
<1>2. runs[r] \in StoppingRunState
  BY <1>0, <1>1 DEF Coherent
<1>3. BeginMayLoseReply /\ controls[r].tag \in {"Running", "Stopping"}
  BY <1>0, <1>1, <1>2 DEF ControlInv, RunIsControlled, OneActiveStop
<1> QED BY <1>0, <1>1, <1>2, <1>3 DEF UnclaimedStopsAreFresh, ActiveOf

(* A worker step keeps its own run controlled: it moves on in step with  *)
(* what it writes, and gives the control up only when the run has ended. *)
LEMMA WorkerStaysInStep ==
  ASSUME ControlInv, NEW r \in Runs, WorkerStep(r)
  PROVE  RunIsControlled(r)' /\ WorkerIsInStep(r)'
<1> DEFINE o == controls[r].op
<1>0. /\ TypeOK /\ ControlsNameTheirStop /\ AttemptsFollowReservations
      /\ Coherent(ops, runs) /\ PendingAreCandidates
  BY ControlInvParts DEF StopInv
<1>1. /\ Stopping(r) /\ serving /\ UNCHANGED pending /\ pending = {}
      /\ o \in Operations /\ ops[o].run = r /\ ops[o] \in OperationRow
      /\ controls[r] \in Control /\ controls[r].phase \in Phase
  BY <1>0 DEF WorkerStep, ReserveSignal, SendSignal, RecordAttempt, ObserveExit,
     ObserveLostBoundary, GracefulTimeout, ForceTimeout, CompleteStop, InPhase,
     ControlsNameTheirStop, PendingAreCandidates, TypeOK
<1>2. WorkerIsInStep(r) /\ RunIsControlled(r)
  BY DEF ControlInv
(* the worker goes on with an active operation, its run still stopping *)
<1>3. ASSUME NEW c \in Control, NEW row \in OperationRow,
             controls' = [controls EXCEPT ![r] = c], ops' = [ops EXCEPT ![o] = row],
             runs[r] \in StoppingRunState => runs'[r] \in StoppingRunState,
             ops[o].status \in ActiveStatus,
             c.tag = "Stopping", c.op = o, row.run = r, row.status \in ActiveStatus
      PROVE  RunIsControlled(r)'
  <2>1. o \in RowsOf(ops, r)
    BY <1>1, <1>3 DEF RowsOf
  <2>2. runs'[r] \in StoppingRunState
    BY <1>0, <1>3, <2>1 DEF Coherent
  <2>3. controls'[r] = c /\ ops'[o] = row
    BY <1>0, <1>1, <1>3 DEF TypeOK
  <2>4. o \in ActiveOf(r)'
    BY <1>1, <1>3, <2>3 DEF ActiveOf
  <2>5. Stopping(r)' /\ controls'[r].op = o
    BY <1>3, <2>3 DEF Stopping
  <2>6. runs'[r] \notin LiveRunState
    BY <2>2, DecisionTypes
  <2> HIDE DEF o
  <2> QED BY <1>1, <2>2, <2>4, <2>5, <2>6 DEF RunIsControlled
(* the worker was not told that its operation is superseded *)
<1>14. ASSUME NEW c \in Control, controls' = [controls EXCEPT ![r] = c], UNCHANGED <<ops, runs>>,
              BeginMayLoseReply, ops[o].status = "SUPERSEDED", c.tag = "Stopping", c.op = o,
              c.phase = "SignalAttempted" => attempts'[o] = 1
       PROVE  RunIsControlled(r)' /\ WorkerIsInStep(r)'
  <2>1. controls'[r] = c
    BY <1>0, <1>14 DEF TypeOK
  <2> HIDE DEF o
  <2> QED BY <1>1, <1>2, <1>14, <2>1 DEF RunIsControlled, WorkerIsInStep, Stopping
<1>4. CASE ReserveSignal(r)
  <2>1. controls[r].phase = "Requested" /\ ops[o].status \in {"REQUESTED", "SIGNAL_PENDING"}
        /\ UNCHANGED <<runs, attempts>>
    BY <1>4 DEF ReserveSignal, InPhase
  <2>2. PICK row \in OperationRow, c \in Control :
          /\ controls' = [controls EXCEPT ![r] = c] /\ ops' = [ops EXCEPT ![o] = row]
          /\ row.run = r /\ row.status = "SIGNAL_PENDING"
          /\ c.tag = "Stopping" /\ c.op = o /\ c.phase \in {"Requested", "SignalPending"}
    <3>1. /\ [ops[o] EXCEPT !.status = "SIGNAL_PENDING"] \in OperationRow
          /\ [ops[o] EXCEPT !.status = "SIGNAL_PENDING"].run = r
          /\ [ops[o] EXCEPT !.status = "SIGNAL_PENDING"].status = "SIGNAL_PENDING"
      BY <1>1 DEF OperationRow, ActiveStatus
    <3>2. /\ [controls[r] EXCEPT !.phase = "SignalPending"] \in Control
          /\ [controls[r] EXCEPT !.phase = "SignalPending"].tag = "Stopping"
          /\ [controls[r] EXCEPT !.phase = "SignalPending"].op = o
          /\ [controls[r] EXCEPT !.phase = "SignalPending"].phase = "SignalPending"
      BY <1>1 DEF Control, Phase, Stopping
    <3>3. \/ ops' = [ops EXCEPT ![o] = [ops[o] EXCEPT !.status = "SIGNAL_PENDING"]]
          \/ ops' = [ops EXCEPT ![o] = ops[o]] /\ ops[o].status = "SIGNAL_PENDING"
      BY <1>0, <1>4 DEF ReserveSignal, TypeOK
    <3>4. \/ controls' = [controls EXCEPT ![r] = [controls[r] EXCEPT !.phase = "SignalPending"]]
          \/ controls' = [controls EXCEPT ![r] = controls[r]]
      BY <1>0, <1>4 DEF ReserveSignal, Advance, TypeOK
    <3> QED BY <1>1, <2>1, <3>1, <3>2, <3>3, <3>4 DEF Stopping
  <2>3. RunIsControlled(r)'
    BY <1>3, <2>1, <2>2 DEF ActiveStatus
  <2>4. controls'[r] = c /\ ops'[o] = row
    BY <1>0, <1>1, <2>2 DEF TypeOK
  <2>5. WorkerIsInStep(r)'
    BY <2>2, <2>4, SeenStatuses DEF WorkerIsInStep
  <2> QED BY <2>3, <2>5
<1>5. CASE SendSignal(r)
  <2>1. controls[r].phase = "SignalPending" /\ UNCHANGED <<runs, ops>>
    BY <1>5 DEF SendSignal, InPhase, ledger
  <2>2. /\ \/ ops[o].status = "SIGNAL_PENDING"
           \/ BeginMayLoseReply /\ ops[o].status = "SUPERSEDED"
        /\ attempts[o] = 0
    BY <1>0, <1>1, <1>2, <2>1, SeenStatuses DEF WorkerIsInStep, AttemptsFollowReservations
  <2>3. ops' = [ops EXCEPT ![o] = ops[o]]
    BY <1>0, <2>1 DEF TypeOK
  <2>4. PICK result \in SignalResults(controls[r].evidence, world[r]) :
          \/ /\ result \in Disposition
             /\ controls' = [controls EXCEPT ![r].phase = "SignalAttempted",
                                             ![r].disposition = result]
             /\ attempts' = [attempts EXCEPT ![o] = @ + 1]
          \/ /\ result \notin Disposition
             /\ Conclude(r, result)
             /\ UNCHANGED attempts
    BY <1>5 DEF SendSignal
  <2>5. result \in Disposition \cup Outcome /\ result # "SIGNAL_UNAVAILABLE"
    BY <1>0, <2>4 DEF SignalResults, Disposition, Outcome, TypeOK, World
  <2>6. CASE result \in Disposition
    <3> DEFINE c == [controls[r] EXCEPT !.phase = "SignalAttempted", !.disposition = result]
    <3>1. c \in Control /\ c.tag = "Stopping" /\ c.op = o /\ c.phase = "SignalAttempted"
      BY <1>1, <2>6 DEF Control, Phase, Stopping
    <3>2. controls' = [controls EXCEPT ![r] = c]
      BY <1>0, <1>1, <2>4, <2>6 DEF TypeOK
    <3>3. attempts'[o] = 1
      BY <1>0, <1>1, <2>2, <2>4, <2>6 DEF TypeOK
    <3> HIDE DEF c
    <3>4. CASE ops[o].status = "SIGNAL_PENDING"
      <4>1. RunIsControlled(r)'
        BY <1>1, <1>3, <2>1, <2>3, <3>1, <3>2, <3>4 DEF ActiveStatus
      <4>2. controls'[r] = c
        BY <1>0, <3>2 DEF TypeOK
      <4>3. WorkerIsInStep(r)'
        BY <2>1, <3>1, <3>2, <3>3, <3>4, <4>2, SeenStatuses DEF WorkerIsInStep
      <4> QED BY <4>1, <4>3
    <3> QED BY <1>14, <2>1, <2>2, <3>1, <3>2, <3>3, <3>4
  <2>7. CASE result \notin Disposition
    <3> DEFINE c == [controls[r] EXCEPT !.phase = "CompletionPending", !.outcome = result]
    <3>1. /\ c \in Control /\ c.tag = "Stopping" /\ c.op = o /\ c.phase = "CompletionPending"
          /\ c.outcome = result
      BY <1>1, <2>5, <2>7 DEF Control, Phase, Stopping
    <3>2. controls' = [controls EXCEPT ![r] = c]
      BY <1>0, <1>1, <2>4, <2>7 DEF TypeOK, Conclude
    <3> HIDE DEF c
    <3>3. CASE ops[o].status = "SIGNAL_PENDING"
      <4>1. RunIsControlled(r)'
        BY <1>1, <1>3, <2>1, <2>3, <3>1, <3>2, <3>3 DEF ActiveStatus
      <4>2. controls'[r] = c
        BY <1>0, <3>2 DEF TypeOK
      <4>3. WorkerIsInStep(r)'
        BY <2>1, <2>5, <3>1, <3>3, <4>2, SeenStatuses DEF WorkerIsInStep, ActiveStatus
      <4> QED BY <4>1, <4>3
    <3> QED BY <1>14, <2>1, <2>2, <3>1, <3>2, <3>3
  <2> QED BY <2>6, <2>7
<1>6. CASE RecordAttempt(r)
  <2>1. /\ controls[r].phase = "SignalAttempted" /\ UNCHANGED attempts
        /\ ops[o].status \in {"SIGNAL_PENDING", "IN_PROGRESS"}
        /\ controls[r].disposition \in Disposition
    BY <1>0, <1>1, <1>6 DEF RecordAttempt, InPhase, ControlsNameTheirStop
  <2>2. PICK row \in OperationRow, c \in Control :
          /\ controls' = [controls EXCEPT ![r] = c] /\ ops' = [ops EXCEPT ![o] = row]
          /\ row.run = r /\ row.status = "IN_PROGRESS" /\ row.disposition = controls[r].disposition
          /\ c.tag = "Stopping" /\ c.op = o /\ c.disposition = controls[r].disposition
          /\ c.phase \in {"SignalAttempted", "Monitoring"}
    <3> DEFINE newRow == [ops[o] EXCEPT !.status = "IN_PROGRESS",
                                        !.disposition = controls[r].disposition]
               moved == [controls[r] EXCEPT !.phase = "Monitoring", !.late = FALSE]
    <3>1. /\ newRow \in OperationRow /\ newRow.run = r /\ newRow.status = "IN_PROGRESS"
          /\ newRow.disposition = controls[r].disposition
      BY <1>1, <2>1 DEF OperationRow, ActiveStatus
    <3>2. /\ moved \in Control /\ moved.tag = "Stopping" /\ moved.op = o
          /\ moved.phase = "Monitoring" /\ moved.disposition = controls[r].disposition
      BY <1>1 DEF Control, Phase, Stopping
    <3>3. \/ ops' = [ops EXCEPT ![o] = newRow]
          \/ /\ ops' = [ops EXCEPT ![o] = ops[o]] /\ ops[o].status = "IN_PROGRESS"
             /\ ops[o].disposition = controls[r].disposition
      <4>1. CASE /\ ops[o].status = "IN_PROGRESS"
                 /\ ops[o].disposition = controls[r].disposition
                 /\ UNCHANGED ledger
        BY <1>0, <4>1 DEF ledger, TypeOK
      <4>2. CASE ops' = [ops EXCEPT ![o].status = "IN_PROGRESS",
                                    ![o].disposition = controls[r].disposition]
        BY <1>0, <4>2 DEF TypeOK
      <4> QED BY <1>6, <4>1, <4>2 DEF RecordAttempt
    <3>4. \/ controls' = [controls EXCEPT ![r] = moved]
          \/ controls' = [controls EXCEPT ![r] = controls[r]]
      BY <1>0, <1>6 DEF RecordAttempt, TypeOK
    <3> HIDE DEF newRow, moved
    <3> QED BY <1>1, <2>1, <3>1, <3>2, <3>3, <3>4 DEF Stopping
  <2>3. runs[r] \in StoppingRunState => runs'[r] \in StoppingRunState
    BY <1>0, <1>1, <1>6, DecisionTypes DEF RecordAttempt, ledger, TypeOK
  <2>4. RunIsControlled(r)'
    BY <1>3, <2>1, <2>2, <2>3 DEF ActiveStatus
  <2>5. controls'[r] = c /\ ops'[o] = row
    BY <1>0, <1>1, <2>2 DEF TypeOK
  <2>6. attempts[o] = 1
    BY <1>1, <1>2, <2>1 DEF WorkerIsInStep
  <2>7. WorkerIsInStep(r)'
    BY <2>1, <2>2, <2>5, <2>6, SeenStatuses DEF WorkerIsInStep
  <2> QED BY <2>4, <2>7
<1>7. ASSUME NEW c \in Control, controls' = [controls EXCEPT ![r] = c], UNCHANGED <<ops, runs>>,
             controls[r].phase \in {"Monitoring", "TimedOut"},
             c.tag = "Stopping", c.op = o, c.phase = "CompletionPending",
             c.outcome = "SIGNAL_UNAVAILABLE" => controls[r].disposition = "UNAVAILABLE"
      PROVE  RunIsControlled(r)' /\ WorkerIsInStep(r)'
  <2>1. CASE BeginMayLoseReply /\ ops[o].status = "SUPERSEDED"
    BY <1>7, <1>14, <2>1
  <2>2. CASE /\ ops[o].status \in {"IN_PROGRESS", "TIMED_OUT"}
             /\ ops[o].disposition = controls[r].disposition
    <3>1. ops' = [ops EXCEPT ![o] = ops[o]]
      BY <1>0, <1>7 DEF TypeOK
    <3>2. RunIsControlled(r)'
      BY <1>1, <1>3, <1>7, <2>2, <3>1 DEF ActiveStatus
    <3>3. controls'[r] = c
      BY <1>0, <1>7 DEF TypeOK
    <3>4. WorkerIsInStep(r)'
      BY <1>7, <2>2, <3>3, SeenStatuses DEF WorkerIsInStep, ActiveStatus
    <3> QED BY <3>2, <3>4
  <2> QED BY <1>1, <1>2, <1>7, <2>1, <2>2, SeenStatuses DEF WorkerIsInStep
<1>8. CASE ObserveExit(r)
  <2> DEFINE c == [controls[r] EXCEPT !.phase = "CompletionPending", !.outcome = "EXITED",
                                      !.evidence.confirmed = TRUE]
  <2>1. /\ c \in Control /\ c.tag = "Stopping" /\ c.op = o /\ c.phase = "CompletionPending"
        /\ c.outcome = "EXITED"
    BY <1>1 DEF Control, Evidence, Phase, Outcome, Stopping
  <2>2. controls' = [controls EXCEPT ![r] = c]
    BY <1>0, <1>1, <1>8 DEF ObserveExit, TypeOK, Control, Evidence
  <2>3. UNCHANGED <<ops, runs>> /\ controls[r].phase \in {"Monitoring", "TimedOut"}
    BY <1>8 DEF ObserveExit, InPhase, ledger
  <2> HIDE DEF c
  <2> QED BY <1>7, <2>1, <2>2, <2>3
<1>9. ASSUME NEW outcome \in Outcome, Conclude(r, outcome), UNCHANGED <<ops, runs>>,
             controls[r].phase \in {"Monitoring", "TimedOut"},
             outcome = "SIGNAL_UNAVAILABLE" => controls[r].disposition = "UNAVAILABLE"
      PROVE  RunIsControlled(r)' /\ WorkerIsInStep(r)'
  <2> DEFINE c == [controls[r] EXCEPT !.phase = "CompletionPending", !.outcome = outcome]
  <2>1. /\ c \in Control /\ c.tag = "Stopping" /\ c.op = o /\ c.phase = "CompletionPending"
        /\ c.outcome = outcome
    BY <1>1 DEF Control, Phase, Stopping
  <2>2. controls' = [controls EXCEPT ![r] = c]
    BY <1>0, <1>1, <1>9 DEF Conclude, TypeOK
  <2> HIDE DEF c
  <2> QED BY <1>7, <1>9, <2>1, <2>2
<1>10. CASE ObserveLostBoundary(r)
  BY <1>9, <1>10 DEF ObserveLostBoundary, InPhase, ledger, Outcome
<1>11. CASE ForceTimeout(r)
  BY <1>9, <1>11 DEF ForceTimeout, InPhase, ledger, Outcome
<1>12. CASE GracefulTimeout(r)
  <2>1. /\ controls[r].phase = "Monitoring" /\ UNCHANGED <<runs, attempts>>
        /\ ops[o].status \in {"IN_PROGRESS", "TIMED_OUT"}
        /\ ops[o].disposition = controls[r].disposition
    BY <1>1, <1>2, <1>12 DEF GracefulTimeout, InPhase, WorkerIsInStep
  <2>2. PICK row \in OperationRow, c \in Control :
          /\ controls' = [controls EXCEPT ![r] = c] /\ ops' = [ops EXCEPT ![o] = row]
          /\ row.run = r /\ row.status = "TIMED_OUT" /\ row.disposition = controls[r].disposition
          /\ c.tag = "Stopping" /\ c.op = o /\ c.disposition = controls[r].disposition
          /\ c.phase \in {"Monitoring", "TimedOut"}
    <3> DEFINE newRow == [ops[o] EXCEPT !.status = "TIMED_OUT"]
               moved == [controls[r] EXCEPT !.phase = "TimedOut"]
    <3>1. /\ newRow \in OperationRow /\ newRow.run = r /\ newRow.status = "TIMED_OUT"
          /\ newRow.disposition = ops[o].disposition
      BY <1>1 DEF OperationRow, ActiveStatus
    <3>2. /\ moved \in Control /\ moved.tag = "Stopping" /\ moved.op = o
          /\ moved.phase = "TimedOut" /\ moved.disposition = controls[r].disposition
      BY <1>1 DEF Control, Phase, Stopping
    <3>3. \/ ops' = [ops EXCEPT ![o] = newRow]
          \/ ops' = [ops EXCEPT ![o] = ops[o]] /\ ops[o].status = "TIMED_OUT"
      BY <1>0, <1>12 DEF GracefulTimeout, TypeOK
    <3>4. \/ controls' = [controls EXCEPT ![r] = moved]
          \/ controls' = [controls EXCEPT ![r] = controls[r]]
      BY <1>0, <1>12 DEF GracefulTimeout, Advance, TypeOK
    <3> HIDE DEF newRow, moved
    <3> QED BY <1>1, <2>1, <3>1, <3>2, <3>3, <3>4 DEF Stopping
  <2>3. RunIsControlled(r)'
    BY <1>3, <2>1, <2>2 DEF ActiveStatus
  <2>4. controls'[r] = c /\ ops'[o] = row
    BY <1>0, <1>1, <2>2 DEF TypeOK
  <2>5. WorkerIsInStep(r)'
    BY <2>1, <2>2, <2>4, SeenStatuses DEF WorkerIsInStep
  <2> QED BY <2>3, <2>5
<1>13. CASE CompleteStop(r)
  <2>1. controls[r].phase = "CompletionPending" /\ controls[r].outcome \in Outcome
    BY <1>0, <1>1, <1>13 DEF CompleteStop, InPhase, ControlsNameTheirStop
  <2>2. ops'[o].status = "COMPLETED" /\ ops'[o].outcome = controls[r].outcome
    <3>1. /\ CompletedRow(ops[o], controls[r].outcome).status = "COMPLETED"
          /\ CompletedRow(ops[o], controls[r].outcome).outcome = controls[r].outcome
      BY <1>1 DEF CompletedRow, OperationRow
    <3> QED BY <1>0, <1>1, <1>13, <3>1 DEF CompleteStop, ledger, TypeOK
  <2>3. runs'[r] \in TerminalRunState
    <3>1. CASE runs' = [runs EXCEPT ![ops[o].run] = RunStateAfter(controls[r].outcome)]
      BY <1>0, <1>1, <2>1, <3>1, DecisionTypes DEF TypeOK
    <3>2. CASE ops[o].status = "COMPLETED" /\ UNCHANGED ledger
      BY <1>0, <1>1, <3>2 DEF Coherent, ValidResult, TerminalRunState, ledger
    <3> QED BY <1>13, <3>1, <3>2 DEF CompleteStop
  <2>4. RunIsControlled(r)'
    BY <1>1, <2>3, DecisionTypes DEF RunIsControlled
  <2>5. \/ controls' = controls
        \/ controls'[r].tag \in {"None", "Quarantined"}
    BY <1>0, <1>13 DEF CompleteStop, FinalizeControl, TypeOK, NoControl, PlainControl
  <2>6. WorkerIsInStep(r)'
    BY <2>1, <2>2, <2>5, SeenStatuses DEF WorkerIsInStep, Stopping
  <2> QED BY <2>4, <2>6
<1> QED BY <1>4, <1>5, <1>6, <1>8, <1>10, <1>11, <1>12, <1>13 DEF WorkerStep

(* A worker leaves the other runs alone. *)
LEMMA WorkerKeepsToItsRun ==
  ASSUME ControlInv, NEW r \in Runs, WorkerStep(r)
  PROVE  /\ UNCHANGED pending
         /\ \A q \in Runs \ {r} : controls'[q] = controls[q] /\ runs'[q] = runs[q]
         /\ \A p \in Operations : ops[p].run # r =>
              ops'[p] = ops[p] /\ attempts'[p] = attempts[p]
         /\ \A p \in Operations : ops[p].run = r => ops'[p].run = r
<1>1. TypeOK /\ ControlsNameTheirStop
  BY ControlInvParts
<1>2. /\ Stopping(r)
      /\ \A q \in Runs \ {r} : controls'[q] = controls[q]
      /\ \A p \in Operations \ {controls[r].op} : ops'[p] = ops[p] /\ attempts'[p] = attempts[p]
      /\ ops'[controls[r].op].run = r
  BY <1>1, WorkerReach
<1>3. controls[r].op \in Operations /\ ops[controls[r].op].run = r
  BY <1>1, <1>2 DEF ControlsNameTheirStop
<1>4. UNCHANGED pending
  BY DEF WorkerStep, ReserveSignal, SendSignal, RecordAttempt, ObserveExit,
     ObserveLostBoundary, GracefulTimeout, ForceTimeout, CompleteStop
<1>5. \A q \in Runs \ {r} : runs'[q] = runs[q]
  BY <1>1, <1>3 DEF WorkerStep, ReserveSignal, SendSignal, RecordAttempt, ObserveExit,
     ObserveLostBoundary, GracefulTimeout, ForceTimeout, CompleteStop, ledger, TypeOK
<1> QED BY <1>2, <1>3, <1>4, <1>5

(* Startup either gives a run the control its ledger rows ask for, or *)
(* leaves it neither live nor stopping.                               *)
LEMMA ReconciledRunIsControlled ==
  ASSUME ControlInv, NEW r \in Runs, Reconcile(r)
  PROVE  RunIsControlled(r)' /\ WorkerIsInStep(r)'
<1>0. TypeOK /\ Coherent(ops, runs) /\ OneActiveStop /\ ActiveOf(r) = RowsOf(ops, r)
      /\ PendingAreCandidates
  BY ControlInvParts
<1>1. r \in pending /\ r \notin pending' /\ controls[r].tag = "None"
  BY <1>0 DEF Reconcile, ControlInv, RunIsControlled
<1>2. CASE /\ MayRegainControl(r)
           /\ runs' = [runs EXCEPT ![r] = IF ActiveOf(r) = {} THEN "RECOVERED" ELSE @]
           /\ controls' = [controls EXCEPT ![r] = RecoveredControl(r)]
           /\ UNCHANGED ops
  <2>1. controls'[r] = RecoveredControl(r)
    BY <1>0, <1>2 DEF TypeOK
  <2>2. CASE ActiveOf(r) = {}
    <3>1. controls'[r].tag = "Running" /\ runs'[r] = "RECOVERED"
      BY <1>0, <1>2, <2>1, <2>2 DEF RecoveredControl, PlainControl, TypeOK
    <3> QED BY <1>1, <3>1 DEF RunIsControlled, WorkerIsInStep, Stopping, StoppingRunState
  <2>3. CASE ActiveOf(r) # {}
    <3>1. PICK o \in Operations :
            /\ o \in ActiveOf(r)
            /\ RecoveredControl(r) = StoppingControl(Recovered, o, ResumePhase(ops[o], runs[r]),
                 ops[o].disposition, ResumePhase(ops[o], runs[r]) # "Requested")
      BY <2>3 DEF RecoveredControl, ActiveOf
    <3>2. ResumePhase(ops[o], runs[r]) # "NONE"
      BY <1>2, <2>3, <3>1 DEF MayRegainControl
    <3>3. \/ ResumePhase(ops[o], runs[r]) = "Requested" /\ ops[o].status = "REQUESTED"
          \/ ResumePhase(ops[o], runs[r]) = "Monitoring" /\ ops[o].status = "IN_PROGRESS"
          \/ ResumePhase(ops[o], runs[r]) = "TimedOut" /\ ops[o].status = "TIMED_OUT"
      BY <3>2 DEF ResumePhase
    <3>4. /\ controls'[r].tag = "Stopping" /\ controls'[r].op = o
          /\ controls'[r].phase = ResumePhase(ops[o], runs[r])
          /\ controls'[r].disposition = ops[o].disposition
      BY <2>1, <3>1 DEF StoppingControl
    <3>5. runs'[r] \in StoppingRunState
      BY <1>0, <1>2, <2>3 DEF Coherent, TypeOK
    <3>6. ActiveOf(r)' = ActiveOf(r)
      BY <1>2 DEF ActiveOf
    <3>7. RunIsControlled(r)'
      BY <1>1, <3>1, <3>4, <3>5, <3>6, DecisionTypes DEF RunIsControlled, Stopping
    <3>8. WorkerIsInStep(r)'
      BY <1>2, <3>3, <3>4, SeenStatuses DEF WorkerIsInStep
    <3> QED BY <3>7, <3>8
  <2> QED BY <2>2, <2>3
<1>3. ASSUME NEW found \in {"EXITED_WHILE_OFFLINE", "IDENTITY_MISMATCH", "ORPHANED"},
             runs' = [runs EXCEPT ![r] = found], UNCHANGED controls
      PROVE  RunIsControlled(r)' /\ WorkerIsInStep(r)'
  BY <1>0, <1>1, <1>3 DEF TypeOK, LiveRunState, StoppingRunState, RunIsControlled,
     WorkerIsInStep, Stopping
<1>4. ProbeResults(world[r]) \subseteq RecoveryOutcome
  BY <1>0 DEF TypeOK, World, ProbeResults, RecoveryOutcome
<1> QED BY <1>2, <1>3, <1>4 DEF Reconcile, RecoveryOutcome

(* Every step keeps memory and ledger in the agreement they can have. *)
LEMMA StepKeepsControlInv ==
  ASSUME ControlInv, [Next]_vars
  PROVE  ControlInv'
<1>0. /\ TypeOK /\ ControlsNameTheirStop /\ PendingAreCandidates /\ Coherent(ops, runs)
      /\ \A r \in Runs : ActiveOf(r) = RowsOf(ops, r)
  BY ControlInvParts
<1>1. LedgerInv'
  BY StepKeepsLedgerInv DEF ControlInv
<1> SUFFICES ASSUME NEW q \in Runs PROVE RunIsControlled(q)' /\ WorkerIsInStep(q)'
  BY <1>1 DEF ControlInv
<1>2. ASSUME controls'[q] = controls[q], runs'[q] = runs[q], q \in pending' <=> q \in pending,
             UNCHANGED <<ops, attempts>>
      PROVE  RunIsControlled(q)' /\ WorkerIsInStep(q)'
  BY <1>2, BystandersStayControlled DEF ActiveStatus
<1>3. ASSUME NEW r \in Runs, NEW o \in Operations, NEW k \in Kind, BeginLive(r, o, k)
      PROVE  RunIsControlled(q)' /\ WorkerIsInStep(q)'
  <2> DEFINE newOps  == [ops EXCEPT ![o] = RequestedRow(r, k, None)]
             newRuns == [runs EXCEPT ![r] = "STOP_REQUESTED"]
  <2>1. /\ UNCHANGED <<pending, attempts>> /\ ops[o].status = "ABSENT" /\ pending = {}
        /\ AttachControl(r, o, newOps, newRuns) /\ controls[r].tag = "Running"
    BY <1>0, <1>3 DEF BeginLive, PendingAreCandidates, ControlInv, RunIsControlled
  <2>2. RequestedRow(r, k, None) \in OperationRow
    BY RequestedRowType
  <2>3. /\ newOps \in [Operations -> OperationRow] /\ newRuns \in [Runs -> RunState]
        /\ newOps[o].run = r /\ newOps[o].status = "REQUESTED" /\ newOps[o].supersedes = None
        /\ newRuns[r] \in StoppingRunState /\ \A x \in Runs \ {r} : newRuns[x] = runs[x]
        /\ \A p \in Operations \ {o} : newOps[p] = ops[p]
    BY <1>0, <2>2 DEF TypeOK, RequestedRow, StoppingRunState, RunState
  <2>4. ProcessTakeable(r, newOps[o].supersedes)
    BY <2>1, <2>3 DEF ProcessTakeable
  <2> HIDE DEF newOps, newRuns
  <2> QED BY <2>1, <2>3, <2>4, AttachKeepsControl DEF Stopping
<1>4. ASSUME NEW r \in Runs, NEW o \in Operations, NEW k \in Kind, BeginFinished(r, o, k)
      PROVE  RunIsControlled(q)' /\ WorkerIsInStep(q)'
  <2>1. UNCHANGED <<runs, controls, pending, attempts>> /\ ops[o].status = "ABSENT"
        /\ \A p \in Operations \ {o} : ops'[p] = ops[p]
    BY <1>0, <1>4 DEF BeginFinished, memory, TypeOK
  <2>2. ops'[o].status = "COMPLETED"
    BY <1>0, <1>4 DEF BeginFinished, TypeOK, CompletedRow, RequestedRow
  <2>3. \A p \in Operations :
          IF ops[p].run = q /\ ops[p].status # "ABSENT"
          THEN ops'[p] = ops[p] /\ attempts'[p] = attempts[p]
          ELSE ops'[p].run # q \/ ops'[p].status \notin ActiveStatus
    BY <2>1, <2>2 DEF ActiveStatus
  <2> QED BY <2>1, <2>3, BystandersStayControlled
<1>5. ASSUME NEW r \in Runs, NEW o \in Operations, NEW g \in Operations, BeginSupersede(r, o, g)
      PROVE  RunIsControlled(q)' /\ WorkerIsInStep(q)'
  <2> DEFINE newOps == [ops EXCEPT ![g].status = "SUPERSEDED", ![o] = RequestedRow(r, "FORCE", g)]
  <2>1. /\ UNCHANGED <<pending, attempts>> /\ ops[o].status = "ABSENT" /\ ops[g].run = r
        /\ ops[g].status \in ActiveStatus /\ runs[r] \in StoppingRunState
        /\ AttachControl(r, o, newOps, runs)
    BY <1>5 DEF BeginSupersede, ActiveOf, StoppingRunState
  <2>2. /\ pending = {} /\ controls[r].tag \in {"Running", "Stopping"}
        /\ BeginMayLoseReply \/ (Stopping(r) /\ controls[r].op = g)
    BY <1>5, SupersededStopIsSafe
  <2>3. o # g /\ g # None
    BY <2>1, NoneIsNothing DEF ActiveStatus
  <2>4. /\ RequestedRow(r, "FORCE", g) \in OperationRow
        /\ [ops[g] EXCEPT !.status = "SUPERSEDED"] \in OperationRow
        /\ [ops[g] EXCEPT !.status = "SUPERSEDED"].status = "SUPERSEDED"
        /\ [ops[g] EXCEPT !.status = "SUPERSEDED"].run = r
    BY <1>0, <2>1, RequestedRowType DEF TypeOK, OperationRow, Kind, FinalStatus
  <2>5. /\ newOps[o] = RequestedRow(r, "FORCE", g)
        /\ newOps[g] = [ops[g] EXCEPT !.status = "SUPERSEDED"]
        /\ \A p \in Operations \ {o, g} : newOps[p] = ops[p]
        /\ newOps \in [Operations -> OperationRow]
    BY <1>0, <2>3, <2>4 DEF TypeOK
  <2>6. newOps[o].run = r /\ newOps[o].status = "REQUESTED" /\ newOps[o].supersedes = g
    BY <2>5 DEF RequestedRow
  <2>7. BeginMayLoseReply \/ ProcessTakeable(r, newOps[o].supersedes)
    BY <2>2, <2>3, <2>6 DEF ProcessTakeable
  <2>8. ~(Stopping(r) /\ controls[r].op = o)
    BY <1>0, <2>1 DEF ControlsNameTheirStop
  <2>9. runs \in [Runs -> RunState]
    BY <1>0 DEF TypeOK
  <2>10. \A p \in Operations \ {o} :
           \/ newOps[p] = ops[p]
           \/ newOps[p].status = "SUPERSEDED" /\ newOps[p].run = r /\ ops[p].run = r
    BY <2>1, <2>4, <2>5
  <2>11. newOps \in [Operations -> OperationRow]
    BY <2>5
  <2> HIDE DEF newOps
  <2> QED BY <2>1, <2>2, <2>6, <2>7, <2>8, <2>9, <2>10, <2>11, AttachKeepsControl
<1>6. ASSUME NEW r \in Runs, NEW o \in Operations, BeginReplay(r, o)
      PROVE  RunIsControlled(q)' /\ WorkerIsInStep(q)'
  <2>1. /\ UNCHANGED <<pending, attempts>> /\ AttachControl(r, o, ops, runs)
        /\ ~(Stopping(r) /\ controls[r].op = o)
    BY <1>6 DEF BeginReplay
  <2>2. /\ BeginMayLoseReply /\ pending = {} /\ runs[r] \in StoppingRunState
        /\ controls[r].tag \in {"Running", "Stopping"}
        /\ ops[o].run = r /\ ops[o].status = "REQUESTED"
    BY <1>6, ReplayedStopIsFresh
  <2>3. ops \in [Operations -> OperationRow] /\ runs \in [Runs -> RunState]
    BY <1>0 DEF TypeOK
  <2> QED BY <2>1, <2>2, <2>3, AttachKeepsControl
<1>7. ASSUME NEW r \in Runs, WorkerStep(r)
      PROVE  RunIsControlled(q)' /\ WorkerIsInStep(q)'
  <2>1. CASE q = r
    BY <1>7, <2>1, WorkerStaysInStep
  <2>2. CASE q # r
    BY <1>7, <2>2, WorkerKeepsToItsRun, BystandersStayControlled DEF ActiveStatus
  <2> QED BY <2>1, <2>2
<1>8. ASSUME NEW r \in Runs, ElapseDeadline(r) \/ ConfirmNaturalExit(r)
      PROVE  RunIsControlled(q)' /\ WorkerIsInStep(q)'
  <2>1. UNCHANGED <<ops, runs, pending, attempts>>
    BY <1>8 DEF ElapseDeadline, ConfirmNaturalExit, ledger
  <2>2. /\ controls'[q].tag = controls[q].tag /\ controls'[q].op = controls[q].op
        /\ controls'[q].phase = controls[q].phase /\ controls'[q].outcome = controls[q].outcome
        /\ controls'[q].disposition = controls[q].disposition
    <3>1. \/ controls' = [controls EXCEPT ![r].late = TRUE]
          \/ controls' = [controls EXCEPT ![r].evidence.confirmed = TRUE]
      BY <1>8 DEF ElapseDeadline, ConfirmNaturalExit
    <3>2. controls[q] \in Control
      BY <1>0 DEF TypeOK
    <3>3. \/ controls'[q] = controls[q]
          \/ controls'[q] = [controls[q] EXCEPT !.late = TRUE]
          \/ controls'[q] = [controls[q] EXCEPT !.evidence.confirmed = TRUE]
      BY <1>0, <3>1 DEF TypeOK
    <3> QED BY <3>2, <3>3 DEF Control
  <2> QED BY <2>1, <2>2 DEF ControlInv, RunIsControlled, WorkerIsInStep, Stopping, ActiveOf
<1>9. ASSUME NEW r \in Runs, PersistNaturalExit(r)
      PROVE  RunIsControlled(q)' /\ WorkerIsInStep(q)'
  <2>1. UNCHANGED <<ops, pending, attempts>> /\ controls[r].tag = "Running"
    BY <1>9 DEF PersistNaturalExit, Monitored
  <2>2. CASE q # r
    <3>1. controls'[q] = controls[q] /\ runs'[q] = runs[q]
      BY <1>0, <1>9, <2>2 DEF PersistNaturalExit, TypeOK
    <3> QED BY <1>2, <2>1, <3>1
  <2>3. CASE q = r
    <3>1. runs'[r] = "EXITED" /\ (controls'[r] = controls[r] \/ controls'[r] = NoControl)
      BY <1>0, <1>9 DEF PersistNaturalExit, TypeOK
    <3>2. r \notin pending
      BY <2>1 DEF ControlInv, RunIsControlled
    <3>3. controls'[r].tag \in {"Running", "None"}
      BY <2>1, <3>1 DEF NoControl, PlainControl
    <3> QED BY <2>1, <2>3, <3>1, <3>2, <3>3
            DEF RunIsControlled, WorkerIsInStep, Stopping, LiveRunState, StoppingRunState
  <2> QED BY <2>2, <2>3
<1>10. ASSUME NEW r \in Runs, Reconcile(r)
       PROVE  RunIsControlled(q)' /\ WorkerIsInStep(q)'
  <2>1. CASE q = r
    BY <1>10, <2>1, ReconciledRunIsControlled
  <2>2. CASE q # r
    <3>1. /\ controls'[q] = controls[q] /\ runs'[q] = runs[q] /\ pending' = pending \ {r}
          /\ UNCHANGED attempts
      BY <1>0, <1>10, <2>2 DEF Reconcile, TypeOK
    <3>2. \A p \in Operations : p \notin ActiveOf(r) => ops'[p] = ops[p]
      BY <1>0, <1>10 DEF Reconcile
    <3>3. \A p \in Operations : p \in ActiveOf(r) => ops[p].run = r /\ ops'[p].run = r
      <4>1. \A p \in Operations : \A x : p \in ActiveOf(r) =>
              ops[p].run = r /\ CompletedRow(ops[p], x).run = r
        BY <1>0 DEF ActiveOf, CompletedRow, TypeOK, OperationRow
      <4> QED BY <1>10, <4>1 DEF Reconcile
    <3>4. \A p \in Operations :
            IF ops[p].run = q /\ ops[p].status # "ABSENT"
            THEN ops'[p] = ops[p] /\ attempts'[p] = attempts[p]
            ELSE ops'[p].run # q \/ ops'[p].status \notin ActiveStatus
      BY <2>2, <3>1, <3>2, <3>3 DEF ActiveStatus
    <3> QED BY <2>2, <3>1, <3>4, BystandersStayControlled
  <2> QED BY <2>1, <2>2
<1>11. ASSUME NEW r \in Runs, ProcessChanges(r)
       PROVE  RunIsControlled(q)' /\ WorkerIsInStep(q)'
  BY <1>2, <1>11 DEF ProcessChanges, ledger, memory
<1>12. CASE Crash
  <2>1. controls'[q] = NoControl /\ runs'[q] = runs[q]
        /\ (q \in pending' <=> runs[q] \in RecoveryCandidate)
    BY <1>12 DEF Crash, ledger
  <2> QED BY <2>1 DEF RunIsControlled, WorkerIsInStep, Stopping, NoControl, PlainControl,
          RecoveryCandidate
<1>13. CASE Serve
  BY <1>2, <1>13 DEF Serve, ledger
<1>14. CASE UNCHANGED vars
  BY <1>2, <1>14 DEF vars
<1> QED BY <1>3, <1>4, <1>5, <1>6, <1>7, <1>8, <1>9, <1>10, <1>11, <1>12, <1>13, <1>14
        DEF Next, Request

(* At the start every live run has the control its launch left. *)
LEMMA InitControlInv == Init => ControlInv
<1> SUFFICES ASSUME Init, NEW r \in Runs PROVE LedgerInv /\ RunIsControlled(r) /\ WorkerIsInStep(r)
  BY InitLedgerInv DEF ControlInv
<1>1. PICK launched \in [Runs -> LaunchResult] :
        /\ runs     = [q \in Runs |-> launched[q][1]]
        /\ controls = [q \in Runs |-> launched[q][2]]
  BY DEF Init
<1>2. runs[r] = launched[r][1] /\ controls[r] = launched[r][2] /\ launched[r] \in LaunchResult
  BY <1>1
<1>3. \A x \in LaunchResult :
        /\ x[1] \notin StoppingRunState /\ x[2].tag \in {"Running", "None"}
        /\ x[1] \in LiveRunState => x[2].tag = "Running"
  BY DEF LaunchResult, StoppingRunState, LiveRunState, PlainControl, NoControl
<1> HIDE DEF LaunchResult
<1>4. /\ runs[r] \notin StoppingRunState /\ controls[r].tag \in {"Running", "None"}
      /\ runs[r] \in LiveRunState => controls[r].tag = "Running"
  BY <1>2, <1>3
<1>5. pending = {} /\ LedgerInv
  BY InitLedgerInv DEF Init
<1> QED BY <1>4, <1>5 DEF RunIsControlled, WorkerIsInStep, Stopping

LEMMA ControlInvariance == Spec => []ControlInv
<1>1. ControlInv /\ [Next]_vars => ControlInv'
  BY StepKeepsControlInv
<1> QED BY <1>1, InitControlInv, PTL DEF Spec

------------------------------------------------------------
(* Unless a stop request can be committed and answered with an error, the *)
(* service forgets nothing that lives: every live run has a control that  *)
(* can stop it, every run being stopped has the control of its active     *)
(* operation, and the next write of every worker is one the ledger takes. *)
THEOREM ControlsFollowTheLedger ==
  ASSUME BeginMayLoseReply = FALSE
  PROVE  Spec => []ControlsAgreeWithLedger
<1>1. ControlInv => ControlsAgreeWithLedger
  <2> SUFFICES ASSUME ControlInv PROVE ControlsAgreeWithLedger
    OBVIOUS
  <2>1. /\ TypeOK /\ ControlsNameTheirStop /\ PendingAreCandidates /\ Coherent(ops, runs)
    BY ControlInvParts
  <2>2. ASSUME serving, NEW r \in Runs
        PROVE  /\ runs[r] \in LiveRunState => controls[r].tag = "Running"
               /\ runs[r] \in StoppingRunState => Stopping(r) /\ controls[r].op \in ActiveOf(r)
    BY <2>1, <2>2 DEF ControlInv, RunIsControlled, PendingAreCandidates
  <2>3. ASSUME NEW r \in Runs, Stopping(r)
        PROVE  LET row == ops[controls[r].op] IN
               /\ row.run = r
               /\ row.status \in StatusSeenInPhase[controls[r].phase]
               /\ controls[r].phase = "CompletionPending" =>
                    \/ Completable(row, runs[r], controls[r].outcome)
                    \/ row.status = "COMPLETED" /\ row.outcome = controls[r].outcome
    <3> DEFINE row == ops[controls[r].op]
    <3>1. row.run = r /\ row.status # "ABSENT" /\ controls[r].op \in Operations
      BY <2>1, <2>3 DEF ControlsNameTheirStop
    <3>2. ValidResult(row, runs[r])
      BY <2>1, <3>1 DEF Coherent
    <3>3. WorkerIsInStep(r)
      BY DEF ControlInv
    <3>4. row.status \in ActiveStatus => Eligible(row.kind, row.status, runs[r])
      BY <3>2 DEF ValidResult
    <3> QED BY <2>3, <3>1, <3>3, <3>4 DEF WorkerIsInStep, Completable
  <2> QED BY <2>2, <2>3 DEF ControlsAgreeWithLedger
<1> QED BY <1>1, ControlInvariance, PTL

------------------------------------------------------------
(* A complete exit. *)

(* What an owned control says of its process is so: an exit that it has   *)
(* confirmed is that of the whole group, and only a confirmed exit is its *)
(* result.                                                                *)
TellsTheTruth(c, w) ==
  c.evidence.owned =>
    /\ c.evidence.confirmed => w \in {"GONE", "REUSED"}
    /\ c.outcome \in {"EXITED", "ALREADY_EXITED"} => c.evidence.confirmed

OwnedExitsAreSeen == \A r \in Runs : TellsTheTruth(controls[r], world[r])

(* An owned control sees an exit only when the group is gone. *)
LEMMA OwnedPollsAreComplete ==
  ASSUME NEW e \in Evidence, NEW w \in World, e.owned, ~e.confirmed, "EXITED" \in PollResults(e, w)
  PROVE  w \in {"GONE", "REUSED"}
BY DEF Evidence, World, PollResults

(* A request hands the evidence over as it is and brings no result. *)
LEMMA AttachTellsTheTruth ==
  ASSUME TypeOK, OwnedExitsAreSeen, NEW r \in Runs, NEW o \in Operations, NEW newOps, NEW newRuns,
         AttachControl(r, o, newOps, newRuns), UNCHANGED world
  PROVE  OwnedExitsAreSeen'
<1>1. \A q \in Runs : \/ controls'[q] = controls[q]
                      \/ /\ controls'[q].evidence = controls[q].evidence
                         /\ controls'[q].outcome = "NONE"
  <2>1. CASE UNCHANGED controls
    BY <2>1
  <2>2. ASSUME controls' = [controls EXCEPT ![r] = StoppingControl(@.evidence, o,
                            PhaseOfStatus(newOps[o].status), newOps[o].disposition, FALSE)]
        PROVE  \A q \in Runs : \/ controls'[q] = controls[q]
                             \/ /\ controls'[q].evidence = controls[q].evidence
                                /\ controls'[q].outcome = "NONE"
    BY <2>2 DEF TypeOK, StoppingControl
  <2>3. \/ UNCHANGED controls
        \/ controls' = [controls EXCEPT ![r] = StoppingControl(@.evidence, o,
                         PhaseOfStatus(newOps[o].status), newOps[o].disposition, FALSE)]
    BY Zenon DEF AttachControl
  <2> QED BY <2>1, <2>2, <2>3
<1>2. ASSUME NEW q \in Runs PROVE TellsTheTruth(controls'[q], world'[q])
  BY <1>1 DEF OwnedExitsAreSeen, TellsTheTruth
<1> QED BY <1>2 DEF OwnedExitsAreSeen

(* A worker concludes an exit only from an observation that confirms it. *)
LEMMA WorkerTellsTheTruth ==
  ASSUME StopInv, OwnedExitsAreSeen, NEW r \in Runs, WorkerStep(r)
  PROVE  OwnedExitsAreSeen'
<1>0. TypeOK /\ ControlsNameTheirStop
  BY DEF StopInv
<1>1. UNCHANGED world /\ \A q \in Runs \ {r} : controls'[q] = controls[q]
  BY <1>0, WorkerReach DEF WorkerStep, ReserveSignal, SendSignal, RecordAttempt, ObserveExit,
     ObserveLostBoundary, GracefulTimeout, ForceTimeout, CompleteStop
<1>2. controls[r] \in Control /\ world[r] \in World /\ TellsTheTruth(controls[r], world[r])
  BY <1>0 DEF TypeOK, OwnedExitsAreSeen
<1> SUFFICES TellsTheTruth(controls'[r], world[r])
  BY <1>1 DEF OwnedExitsAreSeen
<1>3. CASE controls'[r].evidence = controls[r].evidence
           /\ (controls'[r].outcome = controls[r].outcome
               \/ controls'[r].outcome \notin {"EXITED", "ALREADY_EXITED"})
  BY <1>2, <1>3 DEF TellsTheTruth
<1>4. CASE controls' = controls
  BY <1>2, <1>4
<1>5. ASSUME NEW p, controls' = [controls EXCEPT ![r].phase = p]
      PROVE  TellsTheTruth(controls'[r], world[r])
  BY <1>0, <1>2, <1>3, <1>5 DEF TypeOK, Control
<1>6. ASSUME NEW outcome, Conclude(r, outcome), outcome \notin {"EXITED", "ALREADY_EXITED"}
      PROVE  TellsTheTruth(controls'[r], world[r])
  BY <1>0, <1>2, <1>3, <1>6 DEF TypeOK, Conclude, Control
<1>7. CASE ReserveSignal(r) \/ GracefulTimeout(r)
  BY <1>4, <1>5, <1>7 DEF ReserveSignal, GracefulTimeout, Advance
<1>8. CASE SendSignal(r)
  <2>1. PICK result \in SignalResults(controls[r].evidence, world[r]) :
          \/ controls' = [controls EXCEPT ![r].phase = "SignalAttempted", ![r].disposition = result]
          \/ Conclude(r, result)
    BY <1>8 DEF SendSignal
  <2>2. result \notin {"EXITED", "ALREADY_EXITED"}
    BY <1>2, <2>1 DEF World, SignalResults
  <2>3. CASE controls' = [controls EXCEPT ![r].phase = "SignalAttempted", ![r].disposition = result]
    BY <1>0, <1>2, <1>3, <2>3 DEF TypeOK, Control
  <2> QED BY <1>6, <2>1, <2>2, <2>3
<1>9. CASE RecordAttempt(r)
  <2>1. CASE controls' = [controls EXCEPT ![r].phase = "Monitoring", ![r].late = FALSE]
    BY <1>0, <1>2, <1>3, <2>1 DEF TypeOK, Control
  <2> QED BY <1>4, <1>9, <2>1 DEF RecordAttempt
<1>10. CASE ObserveExit(r)
  <2>1. /\ controls'[r] = [controls[r] EXCEPT !.phase = "CompletionPending", !.outcome = "EXITED",
                                              !.evidence.confirmed = TRUE]
        /\ "EXITED" \in PollResults(controls[r].evidence, world[r])
    BY <1>0, <1>10 DEF ObserveExit, TypeOK
  <2>2. /\ controls[r].evidence \in Evidence
        /\ controls'[r].evidence.owned = controls[r].evidence.owned
        /\ controls'[r].evidence.confirmed
    BY <1>2, <2>1 DEF Control, Evidence
  <2>3. controls[r].evidence.owned => world[r] \in {"GONE", "REUSED"}
    BY <1>2, <2>1, <2>2, OwnedPollsAreComplete DEF TellsTheTruth
  <2> QED BY <2>2, <2>3 DEF TellsTheTruth
<1>11. CASE ObserveLostBoundary(r) \/ ForceTimeout(r)
  BY <1>6, <1>11 DEF ObserveLostBoundary, ForceTimeout
<1>12. CASE CompleteStop(r)
  <2>1. controls' = controls \/ FinalizeControl(r)
    BY <1>12 DEF CompleteStop
  <2>2. CASE FinalizeControl(r)
    BY <1>0, <1>2, <2>2 DEF FinalizeControl, TypeOK, NoControl, PlainControl, Recovered,
       TellsTheTruth
  <2> QED BY <1>4, <2>1, <2>2
<1> QED BY <1>7, <1>8, <1>9, <1>10, <1>11, <1>12 DEF WorkerStep

LEMMA StepTellsTheTruth ==
  ASSUME StopInv, OwnedExitsAreSeen, [Next]_vars
  PROVE  OwnedExitsAreSeen'
<1>0. TypeOK
  BY DEF StopInv
<1>1. \A r \in Runs : controls[r] \in Control /\ world[r] \in World
                     /\ TellsTheTruth(controls[r], world[r])
  BY <1>0 DEF TypeOK, OwnedExitsAreSeen
<1>2. \A w : TellsTheTruth(NoControl, w)
  BY DEF TellsTheTruth, NoControl, PlainControl, Recovered
<1>3. ASSUME UNCHANGED <<controls, world>>
      PROVE  OwnedExitsAreSeen'
  BY <1>1, <1>3 DEF OwnedExitsAreSeen
<1>4. ASSUME NEW r \in Runs, Request(r)
      PROVE  OwnedExitsAreSeen'
  <2>1. ASSUME NEW o \in Operations, NEW k \in Kind, BeginFinished(r, o, k)
        PROVE  OwnedExitsAreSeen'
    BY <1>3, <2>1 DEF BeginFinished, memory
  <2>2. ASSUME NEW o \in Operations,
               \/ \E k \in Kind : BeginLive(r, o, k)
               \/ \E g \in Operations : BeginSupersede(r, o, g)
               \/ BeginReplay(r, o)
        PROVE  OwnedExitsAreSeen'
    BY <1>0, <2>2, AttachTellsTheTruth DEF BeginLive, BeginSupersede, BeginReplay
  <2> QED BY <1>4, <2>1, <2>2 DEF Request
<1>5. ASSUME NEW r \in Runs, WorkerStep(r)
      PROVE  OwnedExitsAreSeen'
  BY <1>5, WorkerTellsTheTruth
<1>6. ASSUME NEW r \in Runs, ElapseDeadline(r)
      PROVE  OwnedExitsAreSeen'
  BY <1>0, <1>1, <1>6 DEF ElapseDeadline, TypeOK, Control, OwnedExitsAreSeen, TellsTheTruth
<1>7. ASSUME NEW r \in Runs, ConfirmNaturalExit(r)
      PROVE  OwnedExitsAreSeen'
  <2>1. UNCHANGED world /\ controls' = [controls EXCEPT ![r].evidence.confirmed = TRUE]
    BY <1>7 DEF ConfirmNaturalExit
  <2>2. world[r] \in {"GONE", "REUSED"}
    BY <1>1, <1>7, OwnedPollsAreComplete DEF Control, ConfirmNaturalExit, Monitored
  <2>3. controls'[r] = [controls[r] EXCEPT !.evidence.confirmed = TRUE]
        /\ \A q \in Runs \ {r} : controls'[q] = controls[q]
    BY <1>0, <2>1 DEF TypeOK
  <2>4. controls'[r].evidence.confirmed
    BY <1>1, <2>3 DEF Control, Evidence
  <2>5. ASSUME NEW q \in Runs PROVE TellsTheTruth(controls'[q], world'[q])
    BY <1>1, <2>1, <2>2, <2>3, <2>4 DEF TellsTheTruth
  <2> QED BY <2>5 DEF OwnedExitsAreSeen
<1>8. ASSUME UNCHANGED world, NEW r \in Runs,
             \A q \in Runs : \/ controls'[q] = controls[q] \/ ~controls'[q].evidence.owned
      PROVE  OwnedExitsAreSeen'
  BY <1>1, <1>8 DEF OwnedExitsAreSeen, TellsTheTruth
<1>9. ~NoControl.evidence.owned
  BY DEF NoControl, PlainControl, Recovered
<1>10. ASSUME NEW r \in Runs, PersistNaturalExit(r)
       PROVE  OwnedExitsAreSeen'
  BY <1>0, <1>8, <1>9, <1>10 DEF PersistNaturalExit, TypeOK
<1>11. ASSUME NEW r \in Runs, Reconcile(r)
       PROVE  OwnedExitsAreSeen'
  BY <1>0, <1>8, <1>11 DEF RecoveredControl, StoppingControl, PlainControl, Recovered, Reconcile,
     TypeOK
<1>12. ASSUME NEW r \in Runs, ProcessChanges(r)
       PROVE  OwnedExitsAreSeen'
  BY <1>0, <1>1, <1>12 DEF ProcessChanges, memory, WorldStep, TypeOK, OwnedExitsAreSeen,
     TellsTheTruth
<1>13. CASE Crash
  BY <1>2, <1>13 DEF Crash, OwnedExitsAreSeen
<1>14. CASE Serve \/ UNCHANGED vars
  BY <1>3, <1>14 DEF Serve, vars
<1> QED BY <1>4, <1>5, <1>6, <1>7, <1>10, <1>11, <1>12, <1>13, <1>14 DEF Next

(* A step that records a run as exited, while a control owns its child, *)
(* does so when the whole group is gone.                                *)
ExitRecordedComplete ==
  \A r \in Runs :
    /\ runs[r] # "EXITED" /\ runs'[r] = "EXITED"
    /\ controls[r].evidence.owned
    => world[r] \in {"GONE", "REUSED"}

LEMMA StepRecordsCompleteExits ==
  ASSUME StopInv, OwnedExitsAreSeen, Next
  PROVE  ExitRecordedComplete
<1>0. TypeOK /\ ControlsNameTheirStop
  BY DEF StopInv
<1>1. \A r \in Runs : TellsTheTruth(controls[r], world[r])
  BY DEF OwnedExitsAreSeen
<1>2. ASSUME \A q \in Runs : runs'[q] = runs[q] \/ runs'[q] # "EXITED"
      PROVE  ExitRecordedComplete
  BY <1>2 DEF ExitRecordedComplete
<1>3. RunStateAfter("ORPHANED") = "ORPHANED"
  BY DEF RunStateAfter
<1>4. ASSUME NEW r \in Runs, Request(r)
      PROVE  ExitRecordedComplete
  <2>1. ASSUME NEW o \in Operations, NEW newOps, NEW newRuns \in [Runs -> RunState],
               AttachControl(r, o, newOps, newRuns),
               \A q \in Runs : newRuns[q] = runs[q] \/ newRuns[q] # "EXITED"
        PROVE  ExitRecordedComplete
    BY <1>2, <1>3, <2>1 DEF AttachControl
  <2>2. ASSUME NEW o \in Operations, NEW k \in Kind, BeginLive(r, o, k)
        PROVE  ExitRecordedComplete
    <3> DEFINE newRuns == [runs EXCEPT ![r] = "STOP_REQUESTED"]
    <3>1. /\ newRuns \in [Runs -> RunState]
          /\ \A q \in Runs : newRuns[q] = runs[q] \/ newRuns[q] # "EXITED"
      BY <1>0 DEF TypeOK, RunState
    <3>2. AttachControl(r, o, [ops EXCEPT ![o] = RequestedRow(r, k, None)], newRuns)
      BY <2>2 DEF BeginLive
    <3> HIDE DEF newRuns
    <3> QED BY <2>1, <3>1, <3>2
  <2>3. ASSUME NEW o \in Operations,
               (\E g \in Operations : BeginSupersede(r, o, g)) \/ BeginReplay(r, o)
        PROVE  ExitRecordedComplete
    BY <1>0, <2>1, <2>3 DEF BeginSupersede, BeginReplay, TypeOK
  <2>4. ASSUME NEW o \in Operations, NEW k \in Kind, BeginFinished(r, o, k)
        PROVE  ExitRecordedComplete
    BY <1>2, <2>4 DEF BeginFinished
  <2> QED BY <1>4, <2>2, <2>3, <2>4 DEF Request
<1>5. ASSUME NEW r \in Runs, WorkerStep(r)
      PROVE  ExitRecordedComplete
  <2>1. CASE UNCHANGED runs
    BY <1>2, <2>1
  <2>2. CASE RecordAttempt(r)
    BY <1>0, <1>2, <2>2 DEF SignalledRunState, RecordAttempt, ledger, TypeOK
  <2>3. CASE CompleteStop(r)
    <3> DEFINE outcome == controls[r].outcome
    <3>1. controls[r].op \in Operations /\ ops[controls[r].op].run = r /\ outcome \in Outcome
      BY <1>0, <2>3 DEF CompleteStop, InPhase, ControlsNameTheirStop
    <3>2. UNCHANGED runs \/ runs' = [runs EXCEPT ![r] = RunStateAfter(outcome)]
      BY <2>3, <3>1 DEF CompleteStop, ledger
    <3>3. RunStateAfter(outcome) = "EXITED" => outcome \in {"EXITED", "ALREADY_EXITED"}
      BY <3>1 DEF RunStateAfter, Outcome
    <3>4. outcome \in {"EXITED", "ALREADY_EXITED"} /\ controls[r].evidence.owned
            => world[r] \in {"GONE", "REUSED"}
      BY <1>1 DEF TellsTheTruth
    <3> QED BY <1>0, <3>2, <3>3, <3>4 DEF ExitRecordedComplete, TypeOK
  <2> QED BY <1>5, <2>1, <2>2, <2>3 DEF WorkerStep, ReserveSignal, SendSignal, ObserveExit,
          ObserveLostBoundary, GracefulTimeout, ForceTimeout, ledger
<1>6. ASSUME NEW r \in Runs, PersistNaturalExit(r)
      PROVE  ExitRecordedComplete
  BY <1>0, <1>1, <1>6 DEF PersistNaturalExit, Monitored, TellsTheTruth, TypeOK,
     ExitRecordedComplete
<1>7. ASSUME NEW r \in Runs, Reconcile(r)
      PROVE  ExitRecordedComplete
  BY <1>0, <1>2, <1>7 DEF TypeOK, World, ProbeResults, RecoveryOutcome, Reconcile
<1>8. ASSUME NEW r \in Runs, ElapseDeadline(r) \/ ConfirmNaturalExit(r) \/ ProcessChanges(r)
      PROVE  ExitRecordedComplete
  BY <1>2, <1>8 DEF ElapseDeadline, ConfirmNaturalExit, ProcessChanges, ledger
<1>9. CASE Crash \/ Serve
  BY <1>2, <1>9 DEF Crash, Serve, ledger
<1> QED BY <1>4, <1>5, <1>6, <1>7, <1>8, <1>9 DEF Next

(* A run whose child the service owns is recorded as exited only when its *)
(* whole process group is gone, whoever notices the exit, its stop worker *)
(* or its monitor.                                                        *)
THEOREM OwnedExitsAreComplete == Spec => OwnedExitIsComplete
<1>1. Init => OwnedExitsAreSeen
  <2>1. \A x \in LaunchResult : ~x[2].evidence.confirmed /\ x[2].outcome = "NONE"
    BY DEF LaunchResult, PlainControl, NoControl, Owned, Recovered
  <2> HIDE DEF LaunchResult
  <2>2. ASSUME Init, NEW r \in Runs
        PROVE  ~controls[r].evidence.confirmed /\ controls[r].outcome = "NONE"
    BY <2>1, <2>2 DEF Init
  <2> QED BY <2>2 DEF OwnedExitsAreSeen, TellsTheTruth
<1>2. StopInv /\ OwnedExitsAreSeen /\ [Next]_vars => OwnedExitsAreSeen'
  BY StepTellsTheTruth
<1>3. StopInv /\ OwnedExitsAreSeen /\ [Next]_vars => [ExitRecordedComplete]_vars
  BY StepRecordsCompleteExits
<1>4. [][ExitRecordedComplete]_vars => OwnedExitIsComplete
  BY PTL DEF OwnedExitIsComplete, ExitRecordedComplete
<1> QED BY <1>1, <1>2, <1>3, <1>4, StopInvariance, PTL DEF Spec

------------------------------------------------------------
(* The life cycle that clients see. *)

Stages  == [o \in Operations |-> StageOf(ops[o].status)]
Targets == [o \in Operations |-> ops[o].run]

LEMMA StageValues ==
  /\ StageOf("ABSENT") = "Unused"            /\ StageOf("REQUESTED") = "Requested"
  /\ StageOf("SIGNAL_PENDING") = "Reserved"  /\ StageOf("IN_PROGRESS") = "Signalled"
  /\ StageOf("TIMED_OUT") = "TimedOut"       /\ StageOf("COMPLETED") = "Resolved"
  /\ StageOf("SUPERSEDED") = "Replaced"
BY DEF StageOf

(* The open stages are those of the active statuses. *)
LEMMA OpenMeansActive ==
  ASSUME NEW row \in OperationRow
  PROVE  StageOf(row.status) \in Lifecycle!OpenStage <=> row.status \in ActiveStatus
BY DEF OperationRow, ActiveStatus, FinalStatus, StageOf, Lifecycle!OpenStage

(* Rewriting the row of one operation, for the same run, moves it from the *)
(* stage of the old status to that of the new one.                         *)
LEMMA RowChangeIsMove ==
  ASSUME TypeOK, NEW o \in Operations, NEW row, ops' = [ops EXCEPT ![o] = row],
         row.run = ops[o].run, UNCHANGED attempts
  PROVE  Lifecycle!Move(o, StageOf(ops[o].status), StageOf(row.status))
BY DEF TypeOK, Stages, Targets, Lifecycle!Move

(* Any row that was active and is completed has been resolved. *)
LEMMA CompletionIsResolve ==
  ASSUME TypeOK, NEW o \in Operations, NEW outcome, ops[o].status \in ActiveStatus,
         ops' = [ops EXCEPT ![o] = CompletedRow(@, outcome)], UNCHANGED attempts
  PROVE  Lifecycle!Resolve(o)
<1>0. PICK row : row = CompletedRow(ops[o], outcome)
  OBVIOUS
<1>1. row.run = ops[o].run /\ row.status = "COMPLETED" /\ ops[o] \in OperationRow
  BY <1>0 DEF TypeOK, OperationRow, CompletedRow
<1>2. ops' = [ops EXCEPT ![o] = row]
  BY <1>0
<1>3. Lifecycle!Move(o, StageOf(ops[o].status), "Resolved")
  <2>1. Lifecycle!Move(o, StageOf(ops[o].status), StageOf(row.status))
    BY <1>1, <1>2, RowChangeIsMove
  <2> QED BY <1>1, <2>1, StageValues
<1>4. StageOf(ops[o].status) \in Lifecycle!OpenStage
  BY <1>1, OpenMeansActive
<1> QED BY <1>3, <1>4 DEF Lifecycle!Resolve

(* A row born for a run without an active stop is an accepted request. *)
LEMMA FirstRowIsAccept ==
  ASSUME TypeOK, NEW r \in Runs, NEW o \in Operations, NEW row \in OperationRow,
         ops[o].status = "ABSENT", ActiveOf(r) = {},
         ops' = [ops EXCEPT ![o] = row], row.run = r, row.status \in {"REQUESTED", "COMPLETED"},
         UNCHANGED attempts
  PROVE  Lifecycle!Accept(o, r)
BY StageValues, OpenMeansActive DEF TypeOK, Stages, Targets, ActiveOf, Lifecycle!Accept,
   Lifecycle!Open

(* What a request leaves of the rows it writes: its own may be completed. *)
LEMMA AttachedRow ==
  ASSUME NEW r \in Runs, NEW o \in Operations,
         NEW newOps \in [Operations -> OperationRow], NEW newRuns,
         AttachControl(r, o, newOps, newRuns), newOps[o].status = "REQUESTED"
  PROVE  \E row \in OperationRow :
           /\ ops' = [newOps EXCEPT ![o] = row]
           /\ row.run = newOps[o].run
           /\ row = newOps[o] \/ row = CompletedRow(newOps[o], "ORPHANED")
           /\ row.status \in {"REQUESTED", "COMPLETED"}
<1>1. CASE ops' = newOps
  BY <1>1
<1>2. CASE ops' = [newOps EXCEPT ![o] = CompletedRow(@, "ORPHANED")]
  <2>1. \A row \in OperationRow :
          /\ CompletedRow(row, "ORPHANED") \in OperationRow
          /\ CompletedRow(row, "ORPHANED").run = row.run
          /\ CompletedRow(row, "ORPHANED").status = "COMPLETED"
    <3>1. "ORPHANED" \in Outcome
      BY DEF Outcome
    <3>2. \A row \in OperationRow : CompletedRow(row, "ORPHANED").run = row.run
                                  /\ CompletedRow(row, "ORPHANED").status = "COMPLETED"
      BY DEF CompletedRow, OperationRow
    <3> QED BY <3>1, <3>2, CompletedRowType
  <2> QED BY <1>2, <2>1
<1> QED BY <1>1, <1>2 DEF AttachControl

(* A force stop that is let through replaces the graceful one: if that has *)
(* its reservation, it has not made its attempt.                           *)
LEMMA SupersessionIsReplace ==
  ASSUME ControlInv, NEW r \in Runs, NEW o \in Operations, NEW g \in Operations,
         BeginSupersede(r, o, g)
  PROVE  Lifecycle!Replace(o, g)
<1> DEFINE newOps == [ops EXCEPT ![g].status = "SUPERSEDED", ![o] = RequestedRow(r, "FORCE", g)]
<1>0. TypeOK
  BY ControlInvParts
<1>1. /\ ops[o].status = "ABSENT" /\ ops[g].run = r /\ ops[g].status \in ActiveStatus /\ o # g
      /\ UNCHANGED attempts /\ AttachControl(r, o, newOps, runs)
  BY DEF BeginSupersede, ActiveOf, ActiveStatus
<1>2. ops[g].status = "SIGNAL_PENDING" => attempts[g] = 0
  BY SupersededStopIsSafe
<1>3. /\ RequestedRow(r, "FORCE", g) \in OperationRow
      /\ RequestedRow(r, "FORCE", g).status = "REQUESTED"
      /\ RequestedRow(r, "FORCE", g).run = r
      /\ [ops[g] EXCEPT !.status = "SUPERSEDED"] \in OperationRow
      /\ [ops[g] EXCEPT !.status = "SUPERSEDED"].status = "SUPERSEDED"
      /\ [ops[g] EXCEPT !.status = "SUPERSEDED"].run = r
  BY <1>0, <1>1, RequestedRowType DEF RequestedRow, TypeOK, OperationRow, Kind, FinalStatus
<1>4. /\ newOps[o] = RequestedRow(r, "FORCE", g)
      /\ newOps[g] = [ops[g] EXCEPT !.status = "SUPERSEDED"]
      /\ \A p \in Operations \ {o, g} : newOps[p] = ops[p]
      /\ newOps \in [Operations -> OperationRow]
  BY <1>0, <1>1, <1>3 DEF TypeOK
<1> HIDE DEF newOps
<1>5. PICK row \in OperationRow :
        /\ ops' = [newOps EXCEPT ![o] = row]
        /\ row.run = r /\ row.status \in {"REQUESTED", "COMPLETED"}
  BY <1>1, <1>3, <1>4, AttachedRow
<1>6. /\ Stages[o] = "Unused" /\ Stages[g] \in Lifecycle!OpenStage
      /\ Stages[g] = "Reserved" => ops[g].status = "SIGNAL_PENDING"
  BY <1>0, <1>1, OpenMeansActive DEF TypeOK, Stages, StageOf, ActiveStatus
<1>7. /\ ops'[o] = row /\ ops'[g].status = "SUPERSEDED" /\ ops'[g].run = r
      /\ \A p \in Operations \ {o, g} : ops'[p] = ops[p]
  BY <1>1, <1>3, <1>4, <1>5
<1>8. \E s \in {"Requested", "Resolved"} :
        Stages' = [Stages EXCEPT ![g] = "Replaced", ![o] = s]
  <2>1. /\ StageOf(ops'[o].status) \in {"Requested", "Resolved"}
        /\ StageOf(ops'[g].status) = "Replaced"
    BY <1>5, <1>7, StageValues
  <2>2. \A p \in Operations \ {o, g} : StageOf(ops'[p].status) = StageOf(ops[p].status)
    BY <1>7
  <2>3. Stages' = [p \in Operations |-> StageOf(ops'[p].status)]
    BY DEF Stages
  <2>4. Stages = [p \in Operations |-> StageOf(ops[p].status)]
    BY DEF Stages
  <2>5. Stages' = [Stages EXCEPT ![g] = "Replaced", ![o] = StageOf(ops'[o].status)]
    BY <1>1, <2>1, <2>2, <2>3, <2>4
  <2> QED BY <2>1, <2>5
<1>9. Targets' = [Targets EXCEPT ![o] = Targets[g]]
  <2>1. ops'[o].run = r
    BY <1>5, <1>7
  <2>2. \A p \in Operations \ {o} : ops'[p].run = ops[p].run
    BY <1>1, <1>7
  <2> QED BY <1>1, <2>1, <2>2 DEF Targets
<1> QED BY <1>1, <1>2, <1>6, <1>8, <1>9 DEF Lifecycle!Replace, Lifecycle!Open, Stages, Targets

(* Each phase of a worker is one step of the life cycle, or none that the *)
(* client sees.                                                           *)
LEMMA WorkerStepIsLifecycleStep ==
  ASSUME ControlInv, NEW r \in Runs, WorkerStep(r)
  PROVE  \/ UNCHANGED <<ops, attempts>>
         \/ \E o \in Operations : \/ Lifecycle!Reserve(o) \/ Lifecycle!Attempt(o)
                                 \/ Lifecycle!LateAttempt(o) \/ Lifecycle!Record(o)  \/ Lifecycle!TimeOut(o)
                                 \/ Lifecycle!Resolve(o)
<1> DEFINE o == controls[r].op
<1>0. TypeOK /\ ControlsNameTheirStop /\ AttemptsFollowReservations /\ WorkerIsInStep(r)
  BY ControlInvParts DEF StopInv, ControlInv
<1>1. Stopping(r) /\ o \in Operations /\ ops[o].run = r /\ ops[o] \in OperationRow
  BY <1>0, WorkerReach DEF ControlsNameTheirStop, TypeOK
<1>2. ASSUME NEW status \in ActiveStatus, ops' = [ops EXCEPT ![o].status = status], UNCHANGED attempts
      PROVE  Lifecycle!Move(o, StageOf(ops[o].status), StageOf(status))
  <2>1. /\ [ops[o] EXCEPT !.status = status].run = ops[o].run
        /\ [ops[o] EXCEPT !.status = status].status = status
    BY <1>1 DEF OperationRow
  <2>2. ops' = [ops EXCEPT ![o] = [ops[o] EXCEPT !.status = status]]
    BY <1>2
  <2> HIDE DEF o
  <2> QED BY <1>0, <1>1, <1>2, <2>1, <2>2, RowChangeIsMove
<1>3. CASE ReserveSignal(r)
  <2>1. CASE UNCHANGED ops
    BY <1>3, <2>1 DEF ReserveSignal
  <2>2. CASE ops[o].status = "REQUESTED" /\ ops' = [ops EXCEPT ![o].status = "SIGNAL_PENDING"]
    <3>1. Lifecycle!Move(o, "Requested", "Reserved")
      BY <1>2, <1>3, <2>2, StageValues DEF ReserveSignal, ActiveStatus
    <3> QED BY <1>1, <3>1 DEF Lifecycle!Reserve
  <2> QED BY <1>3, <2>1, <2>2 DEF ReserveSignal
<1>4. CASE SendSignal(r)
  <2>1. UNCHANGED ops /\ controls[r].phase = "SignalPending"
    BY <1>4 DEF SendSignal, InPhase, ledger
  <2>2. /\ \/ ops[o].status = "SIGNAL_PENDING"
           \/ BeginMayLoseReply /\ ops[o].status = "SUPERSEDED"
        /\ attempts[o] = 0
    BY <1>0, <1>1, <2>1, SeenStatuses DEF WorkerIsInStep, AttemptsFollowReservations
  <2>3. UNCHANGED attempts \/ attempts' = [attempts EXCEPT ![o] = @ + 1]
    BY <1>4 DEF SendSignal
  <2>4. CASE attempts' = [attempts EXCEPT ![o] = @ + 1]
    <3>1. attempts' = [attempts EXCEPT ![o] = 1]
      BY <2>2, <2>4
    <3>2. /\ Stages[o] = "Reserved" \/ (BeginMayLoseReply /\ Stages[o] = "Replaced")
          /\ UNCHANGED <<Stages, Targets>>
      BY <1>1, <2>1, <2>2, StageValues DEF Stages, Targets
    <3>3. Lifecycle!Attempt(o) \/ Lifecycle!LateAttempt(o)
      BY <2>2, <3>1, <3>2 DEF Lifecycle!Attempt, Lifecycle!LateAttempt, Stages, Targets
    <3> QED BY <1>1, <3>3
  <2> QED BY <2>1, <2>3, <2>4
<1>5. CASE RecordAttempt(r)
  <2>1. UNCHANGED attempts /\ controls[r].phase = "SignalAttempted"
    BY <1>5 DEF RecordAttempt, InPhase
  <2>2. CASE UNCHANGED ledger
    BY <2>1, <2>2 DEF ledger
  <2>3. CASE ops[o].status = "SIGNAL_PENDING"
             /\ ops' = [ops EXCEPT ![o].status = "IN_PROGRESS",
                                   ![o].disposition = controls[r].disposition]
    <3>0. PICK row : row = [ops[o] EXCEPT !.status = "IN_PROGRESS",
                                          !.disposition = controls[r].disposition]
      OBVIOUS
    <3>1. row.run = ops[o].run /\ row.status = "IN_PROGRESS"
      BY <1>1, <3>0 DEF OperationRow
    <3>2. ops' = [ops EXCEPT ![o] = row]
      BY <1>0, <1>1, <2>3, <3>0 DEF TypeOK
    <3>3. Lifecycle!Move(o, StageOf(ops[o].status), StageOf(row.status))
      BY <1>0, <1>1, <2>1, <3>1, <3>2, RowChangeIsMove
    <3>5. Lifecycle!Move(o, "Reserved", "Signalled")
      BY <2>3, <3>1, <3>3, StageValues
    <3>4. attempts[o] = 1
      BY <1>0, <1>1, <2>1 DEF WorkerIsInStep
    <3> QED BY <1>1, <3>5, <3>4 DEF Lifecycle!Record
  <2> QED BY <1>5, <2>2, <2>3 DEF RecordAttempt
<1>6. CASE GracefulTimeout(r)
  <2>1. CASE UNCHANGED ops
    BY <1>6, <2>1 DEF GracefulTimeout
  <2>2. CASE ops[o].status = "IN_PROGRESS" /\ ops' = [ops EXCEPT ![o].status = "TIMED_OUT"]
    <3>1. Lifecycle!Move(o, "Signalled", "TimedOut")
      BY <1>2, <1>6, <2>2, StageValues DEF GracefulTimeout, ActiveStatus
    <3> QED BY <1>1, <3>1 DEF Lifecycle!TimeOut
  <2> QED BY <1>6, <2>1, <2>2 DEF GracefulTimeout
<1>7. CASE CompleteStop(r)
  <2>1. CASE UNCHANGED ledger
    BY <1>7, <2>1 DEF CompleteStop, ledger
  <2>2. CASE /\ Completable(ops[o], runs[ops[o].run], controls[r].outcome)
             /\ ops' = [ops EXCEPT ![o] = CompletedRow(@, controls[r].outcome)]
    <3>1. ops[o].status \in ActiveStatus /\ UNCHANGED attempts
      BY <1>7, <2>2 DEF CompleteStop, Completable
    <3> QED BY <1>0, <1>1, <2>2, <3>1, CompletionIsResolve
  <2> QED BY <1>7, <2>1, <2>2 DEF CompleteStop
<1>8. CASE ObserveExit(r) \/ ObserveLostBoundary(r) \/ ForceTimeout(r)
  BY <1>8 DEF ObserveExit, ObserveLostBoundary, ForceTimeout, ledger
<1> QED BY <1>3, <1>4, <1>5, <1>6, <1>7, <1>8 DEF WorkerStep

(* Every step of the service is one step of the life cycle, or none. *)
LEMMA StepIsLifecycleStep ==
  ASSUME ControlInv, [Next]_vars
  PROVE  [Lifecycle!LifecycleNext]_(Lifecycle!lifecycleVars)
<1>0. TypeOK /\ OneActiveStop
  BY ControlInvParts
<1>1. ASSUME UNCHANGED <<ops, attempts>>
      PROVE  UNCHANGED Lifecycle!lifecycleVars
  BY <1>1 DEF Lifecycle!lifecycleVars
<1>2. ASSUME NEW r \in Runs, NEW o \in Operations, NEW k \in Kind, BeginLive(r, o, k)
      PROVE  Lifecycle!LifecycleNext
  <2> DEFINE newOps == [ops EXCEPT ![o] = RequestedRow(r, k, None)]
             newRuns == [runs EXCEPT ![r] = "STOP_REQUESTED"]
  <2>1. /\ UNCHANGED attempts /\ ops[o].status = "ABSENT" /\ ActiveOf(r) = {}
        /\ AttachControl(r, o, newOps, newRuns)
    BY <1>2 DEF BeginLive
  <2>2. /\ newOps \in [Operations -> OperationRow]
        /\ newOps[o].run = r /\ newOps[o].status = "REQUESTED"
    BY <1>0, RequestedRowType DEF TypeOK, RequestedRow
  <2> HIDE DEF newRuns
  <2>5. PICK row \in OperationRow :
          ops' = [newOps EXCEPT ![o] = row] /\ row.run = r /\ row.status \in {"REQUESTED", "COMPLETED"}
    <3> HIDE DEF newOps
    <3> QED BY <2>1, <2>2, AttachedRow
  <2>3. ops' = [ops EXCEPT ![o] = row]
    BY <1>0, <2>5 DEF TypeOK
  <2>4. Lifecycle!Accept(o, r)
    BY <1>0, <2>1, <2>3, <2>5, FirstRowIsAccept
  <2> QED BY <2>4 DEF Lifecycle!LifecycleNext
<1>3. ASSUME NEW r \in Runs, NEW o \in Operations, NEW k \in Kind, BeginFinished(r, o, k)
      PROVE  Lifecycle!LifecycleNext
  <2> DEFINE row == CompletedRow(RequestedRow(r, k, None), OutcomeOfFinishedRun(runs[r]))
  <2>1. ops' = [ops EXCEPT ![o] = row] /\ UNCHANGED attempts
        /\ ops[o].status = "ABSENT" /\ ActiveOf(r) = {} /\ runs[r] \in TerminalRunState
    BY <1>3 DEF BeginFinished
  <2>2. row \in OperationRow /\ row.run = r /\ row.status = "COMPLETED"
    BY <2>1, DecisionTypes, RequestedRowType, CompletedRowType DEF RequestedRow, CompletedRow
  <2> HIDE DEF row
  <2>3. Lifecycle!Accept(o, r)
    BY <1>0, <2>1, <2>2, FirstRowIsAccept
  <2> QED BY <2>3 DEF Lifecycle!LifecycleNext
<1>4. ASSUME NEW r \in Runs, NEW o \in Operations, NEW g \in Operations, BeginSupersede(r, o, g)
      PROVE  Lifecycle!LifecycleNext
  BY <1>4, SupersessionIsReplace DEF Lifecycle!LifecycleNext
<1>5. ASSUME NEW r \in Runs, NEW o \in Operations, BeginReplay(r, o)
      PROVE  [Lifecycle!LifecycleNext]_(Lifecycle!lifecycleVars)
  <2>1. UNCHANGED attempts /\ AttachControl(r, o, ops, runs) /\ ops[o].status = "REQUESTED"
    BY <1>5, ReplayedStopIsFresh DEF BeginReplay
  <2>2. CASE ops' = [ops EXCEPT ![o] = CompletedRow(@, "ORPHANED")]
    <3>1. ops[o].status \in ActiveStatus
      BY <2>1 DEF ActiveStatus
    <3>2. Lifecycle!Resolve(o)
      BY <1>0, <2>1, <2>2, <3>1, CompletionIsResolve
    <3> QED BY <3>2 DEF Lifecycle!LifecycleNext
  <2> QED BY <1>1, <2>1, <2>2 DEF AttachControl
<1>6. ASSUME NEW r \in Runs, WorkerStep(r)
      PROVE  [Lifecycle!LifecycleNext]_(Lifecycle!lifecycleVars)
  BY <1>1, <1>6, WorkerStepIsLifecycleStep DEF Lifecycle!LifecycleNext
<1>7. ASSUME NEW r \in Runs, Reconcile(r)
      PROVE  [Lifecycle!LifecycleNext]_(Lifecycle!lifecycleVars)
  <2>1. UNCHANGED attempts
    BY <1>7 DEF Reconcile
  <2>2. CASE UNCHANGED ops
    BY <1>1, <2>1, <2>2
  <2>3. ASSUME NEW outcome,
               ops' = [o \in Operations |->
                 IF o \in ActiveOf(r) THEN CompletedRow(ops[o], outcome) ELSE ops[o]]
        PROVE  [Lifecycle!LifecycleNext]_(Lifecycle!lifecycleVars)
    <3>1. CASE ActiveOf(r) = {}
      <4>1. ops' = ops
        BY <1>0, <2>3, <3>1 DEF TypeOK
      <4> QED BY <1>1, <2>1, <4>1
    <3>2. CASE ActiveOf(r) # {}
      <4>1. PICK o \in Operations : ActiveOf(r) = {o} /\ ops[o].status \in ActiveStatus
        BY <1>0, <3>2 DEF OneActiveStop, ActiveOf
      <4>2. ops' = [ops EXCEPT ![o] = CompletedRow(@, outcome)]
        BY <1>0, <2>3, <4>1 DEF TypeOK
      <4>3. Lifecycle!Resolve(o)
        BY <1>0, <2>1, <4>1, <4>2, CompletionIsResolve
      <4> QED BY <4>3 DEF Lifecycle!LifecycleNext
    <3> QED BY <3>1, <3>2
  <2> QED BY <1>7, <2>2, <2>3 DEF Reconcile
<1>8. ASSUME NEW r \in Runs, ElapseDeadline(r) \/ ConfirmNaturalExit(r)
                            \/ PersistNaturalExit(r) \/ ProcessChanges(r)
      PROVE  UNCHANGED Lifecycle!lifecycleVars
  BY <1>1, <1>8 DEF ElapseDeadline, ConfirmNaturalExit, PersistNaturalExit, ProcessChanges, ledger
<1>9. CASE Crash \/ Serve \/ UNCHANGED vars
  BY <1>1, <1>9 DEF Crash, Serve, ledger, vars
<1> QED BY <1>2, <1>3, <1>4, <1>5, <1>6, <1>7, <1>8, <1>9 DEF Next, Request

(* The service with its workers, retries, crashes and recovery implements  *)
(* the life cycle that clients are promised, and so keeps the promises     *)
(* that LifecycleKeepsPromises proves of it.  Where the answer to a stop   *)
(* request can be lost, that life cycle has one more step: the late        *)
(* attempt of a worker whose operation was replaced without its knowledge. *)
THEOREM StopsFollowTheLifecycle == Spec => ImplementsLifecycle
<1>1. Init => Lifecycle!LifecycleInit
  BY StageValues DEF Init, AbsentRow, Lifecycle!LifecycleInit
<1>2. ControlInv /\ [Next]_vars => [Lifecycle!LifecycleNext]_(Lifecycle!lifecycleVars)
  BY StepIsLifecycleStep
<1> QED BY <1>1, <1>2, ControlInvariance, PTL DEF Spec, ImplementsLifecycle, Lifecycle!LifecycleSpec

=============================================================================
