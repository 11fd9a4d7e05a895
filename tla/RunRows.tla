------------------------------ MODULE RunRows ------------------------------
(***************************************************************************)
(* The timestamps of the tables `runs' and `managed_stop_operations'.      *)
(*                                                                         *)
(* Every transition stamps the rows it touches, and is refused unless the  *)
(* stamp is later than theirs; every reader validates the order of the     *)
(* stamps of a row and refuses a row, and with it whole pages and the      *)
(* start of the Supervisor, when the order is wrong.  The stamps come from *)
(* a wall clock that may stand still, go backwards or fail, so the service *)
(* computes them from the clock and from the row (next_canonical_timestamp *)
(* in crates/supervisor/src/managed_runs.rs).                              *)
(*                                                                         *)
(* A stamp is a number; reading the clock gives any number of Readings.    *)
(* What a row says beside its stamps is as in StopLedger.  Identifiers,    *)
(* paths, snapshots and exit details are left out: no transition changes   *)
(* their validity after the row was inserted.                              *)
(***************************************************************************)
EXTENDS Integers

CONSTANTS RowRuns,       \* the runs that have rows
          RowStops,      \* the ids of their stop operations
          Unset,         \* a column without a value
          Readings,      \* what the wall clock may say
          MaxRestarts,   \* bound on the restarts of the Supervisor
          Days           \* the days on which the calendar is compared

ASSUME ReadingsAreTimes == Readings \subseteq Nat \ {0}
ASSUME DaysAreCounted   == Days \subseteq Nat
ASSUME RestartsBound    == MaxRestarts \in Nat

INSTANCE StopLedger WITH Runs <- RowRuns, Operations <- RowStops, None <- Unset

ASSUME UnsetIsNoValue == Unset \notin RowRuns \cup RecoveryOutcome

VARIABLES
  rows,        \* run -> its row, or Absent
  stops,       \* operation -> its row of the ledger with its stamps
  confirmed,   \* run -> the exit stamp that the terminal exit monitor keeps
  restarts,
  refused      \* a transition that the states allow was refused

rowVars == <<rows, stops, confirmed, restarts, refused>>

NoTime == 0
Absent == [state |-> "ABSENT"]

-----------------------------------------------------------------------------
(* Reading a row *)

Finished(row) == row.state \in TerminalRunState

(* The recovery marker, by what the run is now *)
RecoveryFits(row) ==
  /\ row.state \in {"RECOVERED", "EXITED_WHILE_OFFLINE"} => row.recovery = row.state
  /\ \/ row.recovery = Unset
     \/ row.recovery = row.state
     \/ /\ row.recovery = "RECOVERED"
        /\ row.state \notin {"STARTING", "RUNNING", "EXITED_WHILE_OFFLINE"}

EndFits(row) ==
  /\ row.started <= row.updated
  /\ row.ended # NoTime => row.ended \in row.started..row.updated
  /\ (row.ended # NoTime) <=> (row.state \in {"EXITED", "FAILED", "EXITED_WHILE_OFFLINE"})

TimelineReads(row) == EndFits(row) /\ RecoveryFits(row)

RetentionTime(row) == IF row.ended # NoTime THEN row.ended ELSE row.updated

RetentionReads(row) ==
  /\ row.deletion # NoTime => RetentionTime(row) <= row.deletion
  /\ row.deletion # NoTime /\ row.deleted # NoTime => row.deletion <= row.deleted

RunReads(row) ==
  /\ row.group => row.identity
  /\ row.deletion # NoTime => Finished(row)
  /\ row.deleted # NoTime => row.deletion # NoTime
  /\ TimelineReads(row) /\ RetentionReads(row)

(* The answers to clients check what they carry of the row once more. *)
SummaryReads(row) == (row.group => row.identity) /\ EndFits(row)
HistoryReads(row) == EndFits(row) /\ RecoveryFits(row)
StartReads(row)   == SummaryReads(row) /\ row.state = "RUNNING" /\ row.identity /\ row.ended = NoTime

(* A candidate of the log retention, before and after it was begun *)
CandidateReads(row) == row.deletion # NoTime => RetentionTime(row) <= row.deletion

(* A candidate of the reconciliation at startup *)
UnfinishedReads(row) ==
  /\ row.ended = NoTime
  /\ row.recovery = Unset => row.state # "RECOVERED"
  /\ row.recovery # Unset => row.recovery = "RECOVERED" /\ row.state \in {"RECOVERED"} \cup StoppingRunState

RowReads(row) ==
  /\ RunReads(row) /\ SummaryReads(row) /\ HistoryReads(row)
  /\ Finished(row) => CandidateReads(row)
  /\ row.state \in RecoveryCandidate => UnfinishedReads(row)
  /\ row.state = "RUNNING" => StartReads(row)

(* An operation, whose run is read with it *)
StopResultReads(stop, row) ==
  /\ SummaryReads(row)
  /\ ValidResult(stop.row, row.state)
  /\ stop.created <= stop.updated
  /\ (stop.completed # NoTime) <=> (stop.row.status \in FinalStatus)
  /\ stop.completed # NoTime => stop.completed \in stop.created..stop.updated
  /\ stop.row.outcome \in {"IDENTITY_MISMATCH", "ORPHANED", "SIGNAL_UNAVAILABLE"} => row.ended = NoTime

StopReads(stop, row) ==
  /\ RunReads(row)
  /\ stop.row.status \in ActiveStatus =>
       Eligible(stop.row.kind, stop.row.status, row.state) /\ row.ended = NoTime
  /\ StopResultReads(stop, row)

StopsOf(r)   == {o \in RowStops : stops[o].row.run = r}
ActiveOf(r)  == {o \in StopsOf(r) : stops[o].row.status \in ActiveStatus}

-----------------------------------------------------------------------------
(* Stamping *)

(* Later than the previous stamp, whatever the clock says *)
NextTimestamp(previous, reading) == IF reading > previous THEN reading ELSE previous + 1

Later(a, b) == IF a > b THEN a ELSE b

FaultyLatestOf(r) == rows[r].updated   \* forgets that a reservation stamps the operation alone

(* The latest stamp of a run and of the operation that is active on it *)
LatestOf(r) ==
  LET stamps == {rows[r].updated} \cup {stops[o].updated : o \in ActiveOf(r)} IN
  CHOOSE t \in stamps : \A u \in stamps : u <= t

(* One transaction: the row becomes `after', the operations `changed'.  It *)
(* is refused when the stamp is not later than `previous' or when a reader *)
(* would refuse the outcome.                                               *)
Transact(r, now, previous, after, changed) ==
  IF /\ now > previous
     /\ RowReads(after)
     /\ \A o \in RowStops : changed[o] # stops[o] => StopReads(changed[o], after)
    THEN /\ rows' = [rows EXCEPT ![r] = after]
         /\ stops' = changed
         /\ UNCHANGED refused
    ELSE /\ refused' = TRUE
         /\ UNCHANGED <<rows, stops>>

Stamped(row, state, now) == [row EXCEPT !.state = state, !.updated = now]

-----------------------------------------------------------------------------
(* The launch *)

CreateStartingRun(r, reading) ==
  /\ rows[r] = Absent
  /\ rows' = [rows EXCEPT ![r] =
       [state |-> "STARTING", recovery |-> Unset, identity |-> FALSE, group |-> FALSE,
        started |-> reading, updated |-> reading, ended |-> NoTime,
        deletion |-> NoTime, deleted |-> NoTime]]
  /\ UNCHANGED <<stops, confirmed, restarts, refused>>

Unbound(r) == rows[r].state = "STARTING" /\ ~rows[r].identity /\ ~rows[r].group

(* Windows binds no process group. *)
BindIdentity(r, reading) ==
  /\ Unbound(r)
  /\ LET now == NextTimestamp(rows[r].updated, reading) IN
     \E group \in BOOLEAN :
       Transact(r, now, rows[r].updated,
                [rows[r] EXCEPT !.identity = TRUE, !.group = group, !.updated = now], stops)
  /\ UNCHANGED <<confirmed, restarts>>

Startable(r, state) ==
  /\ rows[r].state = "STARTING" /\ rows[r].ended = NoTime
  /\ state = "RUNNING" => rows[r].identity

(* RUNNING, or FAILED when nothing is left running, or ORPHANED when that *)
(* is not known                                                           *)
EndLaunch(r, state, reading) ==
  /\ Startable(r, state)
  /\ LET now == NextTimestamp(rows[r].updated, reading) IN
     Transact(r, now, rows[r].updated,
              [Stamped(rows[r], state, now) EXCEPT !.ended = IF state = "FAILED" THEN now ELSE NoTime],
              stops)
  /\ UNCHANGED <<confirmed, restarts>>

(* The monitor stamps the exit it has seen once, and keeps the stamp over *)
(* its attempts to record it.                                             *)
ConfirmExit(r, reading) ==
  /\ rows[r] # Absent /\ rows[r].state \in {"RUNNING", "STOP_REQUESTED"}
  /\ confirmed[r] = NoTime
  /\ confirmed' = [confirmed EXCEPT ![r] = NextTimestamp(rows[r].updated, reading)]
  /\ UNCHANGED <<rows, stops, restarts, refused>>

Exitable(r) == rows[r].state = "RUNNING" /\ rows[r].ended = NoTime /\ rows[r].identity
SameExit(r) == rows[r].state = "EXITED" /\ rows[r].updated = confirmed[r] /\ rows[r].ended = confirmed[r]

(* The transaction may take effect and its answer be lost. *)
MarkRunningExited(r) ==
  /\ confirmed[r] # NoTime
  /\ \/ /\ Exitable(r)
        /\ Transact(r, confirmed[r], rows[r].updated,
                    [Stamped(rows[r], "EXITED", confirmed[r]) EXCEPT !.ended = confirmed[r]], stops)
        /\ confirmed' \in {confirmed, [confirmed EXCEPT ![r] = NoTime]}
     \/ /\ SameExit(r)
        /\ confirmed' = [confirmed EXCEPT ![r] = NoTime]
        /\ UNCHANGED <<rows, stops, refused>>
  /\ UNCHANGED restarts

(* A stop worker takes the control of the run away from the monitor. *)
MonitorReturns(r) ==
  /\ confirmed[r] # NoTime /\ rows[r].state # "RUNNING"
  /\ confirmed' = [confirmed EXCEPT ![r] = NoTime]
  /\ UNCHANGED <<rows, stops, restarts, refused>>

-----------------------------------------------------------------------------
(* Stops *)

Asked(r, k, superseded, now) ==
  [row |-> RequestedRow(r, k, superseded), created |-> now, updated |-> now, completed |-> NoTime]
Moved(stop, row, now) == [stop EXCEPT !.row = row, !.updated = now]
Ended(stop, row, now) == [Moved(stop, row, now) EXCEPT !.completed = now]

Unused(o) == stops[o].row.status = "ABSENT"

BeginStop(r, o, k, reading) ==
  /\ Unused(o) /\ rows[r].state \in LiveRunState /\ rows[r].identity /\ ActiveOf(r) = {}
  /\ LET now == NextTimestamp(LatestOf(r), reading) IN
     Transact(r, now, rows[r].updated, Stamped(rows[r], "STOP_REQUESTED", now),
              [stops EXCEPT ![o] = Asked(r, k, Unset, now)])
  /\ UNCHANGED <<confirmed, restarts>>

(* The stop of a run that ended is recorded as completed; the run keeps *)
(* its row.                                                             *)
BeginFinished(r, o, k, reading) ==
  /\ Unused(o) /\ Finished(rows[r])
  /\ LET now  == NextTimestamp(LatestOf(r), reading)
         stop == Asked(r, k, Unset, now)
     IN Transact(r, now, rows[r].updated, rows[r],
                 [stops EXCEPT ![o] = Ended(stop, CompletedRow(stop.row, OutcomeOfFinishedRun(rows[r].state)), now)])
  /\ UNCHANGED <<confirmed, restarts>>

(* A force stop supersedes the graceful one: both rows and the run are *)
(* stamped alike.                                                      *)
BeginSupersession(r, o, g, reading) ==
  /\ Unused(o) /\ g \in ActiveOf(r) /\ stops[g].row.kind = "GRACEFUL"
  /\ rows[r].state \in {"STOP_REQUESTED", "GRACEFUL_STOPPING"}
  /\ LET now == NextTimestamp(LatestOf(r), reading) IN
     Transact(r, now, Later(stops[g].updated, rows[r].updated),
              [rows[r] EXCEPT !.updated = now],
              [stops EXCEPT ![o] = Asked(r, "FORCE", g, now),
                            ![g] = Ended(stops[g], [stops[g].row EXCEPT !.status = "SUPERSEDED"], now)])
  /\ UNCHANGED <<confirmed, restarts>>

(* What a worker stamps its next stage with *)
WorkerTime(o, reading) ==
  NextTimestamp(Later(stops[o].updated, rows[stops[o].row.run].updated), reading)

(* One stage of a worker: the operation moves to `row', the run to `state' *)
Stage(o, row, now, after) ==
  LET r == row.run IN
  Transact(r, now, Later(stops[o].updated, rows[r].updated), after,
           [stops EXCEPT ![o] = IF row.status \in FinalStatus THEN Ended(stops[o], row, now)
                                                              ELSE Moved(stops[o], row, now)])

(* The reservation stamps the operation alone. *)
MarkSignalPending(o, reading) ==
  /\ stops[o].row.status = "REQUESTED"
  /\ Stage(o, [stops[o].row EXCEPT !.status = "SIGNAL_PENDING"], WorkerTime(o, reading),
           rows[stops[o].row.run])
  /\ UNCHANGED <<confirmed, restarts>>

MarkSignalAttempted(o, d, reading) ==
  /\ stops[o].row.status = "SIGNAL_PENDING"
  /\ LET now == WorkerTime(o, reading) IN
     Stage(o, [stops[o].row EXCEPT !.status = "IN_PROGRESS", !.disposition = d], now,
           Stamped(rows[stops[o].row.run], SignalledRunState(stops[o].row.kind), now))
  /\ UNCHANGED <<confirmed, restarts>>

MarkTimedOut(o, reading) ==
  /\ stops[o].row.kind = "GRACEFUL" /\ stops[o].row.status = "IN_PROGRESS"
  /\ LET now == WorkerTime(o, reading) IN
     Stage(o, [stops[o].row EXCEPT !.status = "TIMED_OUT"], now,
           [rows[stops[o].row.run] EXCEPT !.updated = now])
  /\ UNCHANGED <<confirmed, restarts>>

CompleteWith(o, outcome, reading) ==
  /\ stops[o].row.status \in ActiveStatus
  /\ Completable(stops[o].row, rows[stops[o].row.run].state, outcome)
  /\ LET now   == WorkerTime(o, reading)
         state == RunStateAfter(outcome)
     IN Stage(o, CompletedRow(stops[o].row, outcome), now,
              [Stamped(rows[stops[o].row.run], state, now) EXCEPT
                 !.ended = IF state \in {"EXITED", "FAILED"} THEN now ELSE NoTime])
  /\ UNCHANGED <<confirmed, restarts>>

-----------------------------------------------------------------------------
(* Startup and log retention *)

MayRecover(r) ==
  /\ rows[r].identity /\ rows[r].group
  /\ \A o \in ActiveOf(r) : stops[o].row.status # "SIGNAL_PENDING"
  /\ ActiveOf(r) = {} => rows[r].state \in LiveRunState

(* A restart and the reconciliation of the run: a stop that goes on keeps *)
(* its row, any other outcome completes it.                               *)
ReconcileRun(r, outcome, reading) ==
  /\ restarts < MaxRestarts /\ restarts' = restarts + 1
  /\ rows[r].state \in RecoveryCandidate
  /\ outcome = "RECOVERED" => MayRecover(r)
  /\ ~rows[r].identity => outcome = "ORPHANED"
  /\ LET now      == NextTimestamp(LatestOf(r), reading)
         kept     == outcome = "RECOVERED" /\ ActiveOf(r) # {}
         after    == [rows[r] EXCEPT !.state = IF kept THEN @ ELSE outcome, !.recovery = outcome,
                        !.updated = now, !.ended = IF outcome = "EXITED_WHILE_OFFLINE" THEN now ELSE NoTime]
         closed(o) == Ended(stops[o], CompletedRow(stops[o].row, StopOutcomeAfterRecovery(outcome)), now)
     IN Transact(r, now, LatestOf(r), after,
                 [o \in RowStops |-> IF o \in ActiveOf(r) /\ ~kept THEN closed(o) ELSE stops[o]])
  /\ confirmed' = [confirmed EXCEPT ![r] = NoTime]

BeginLogDeletion(r, reading) ==
  /\ Finished(rows[r]) /\ rows[r].deletion = NoTime
  /\ LET now == NextTimestamp(RetentionTime(rows[r]), reading) IN
     Transact(r, now, RetentionTime(rows[r]), [rows[r] EXCEPT !.deletion = now], stops)
  /\ UNCHANGED <<confirmed, restarts>>

MarkLogsDeleted(r, reading) ==
  /\ Finished(rows[r]) /\ rows[r].deletion # NoTime /\ rows[r].deleted = NoTime
  /\ LET now == NextTimestamp(rows[r].deletion, reading) IN
     Transact(r, now, rows[r].deletion, [rows[r] EXCEPT !.deleted = now], stops)
  /\ UNCHANGED <<confirmed, restarts>>

-----------------------------------------------------------------------------
RunStep(r, reading) ==
  \/ BindIdentity(r, reading)
  \/ \E s \in {"RUNNING", "FAILED", "ORPHANED"} : EndLaunch(r, s, reading)
  \/ ConfirmExit(r, reading) \/ MarkRunningExited(r) \/ MonitorReturns(r)
  \/ \E o \in RowStops, k \in Kind : BeginStop(r, o, k, reading) \/ BeginFinished(r, o, k, reading)
  \/ \E o, g \in RowStops : BeginSupersession(r, o, g, reading)
  \/ \E outcome \in RecoveryOutcome : ReconcileRun(r, outcome, reading)
  \/ BeginLogDeletion(r, reading) \/ MarkLogsDeleted(r, reading)

StopStep(o, reading) ==
  \/ MarkSignalPending(o, reading)
  \/ \E d \in Disposition : MarkSignalAttempted(o, d, reading)
  \/ MarkTimedOut(o, reading)
  \/ \E outcome \in Outcome : CompleteWith(o, outcome, reading)

RowsInit ==
  /\ rows = [r \in RowRuns |-> Absent]
  /\ stops = [o \in RowStops |-> [row |-> AbsentRow, created |-> NoTime, updated |-> NoTime, completed |-> NoTime]]
  /\ confirmed = [r \in RowRuns |-> NoTime]
  /\ restarts = 0
  /\ refused = FALSE

RowsNext ==
  \/ \E r \in RowRuns, reading \in Readings :
       CreateStartingRun(r, reading) \/ (rows[r] # Absent /\ RunStep(r, reading))
  \/ \E o \in RowStops, reading \in Readings : StopStep(o, reading)

-----------------------------------------------------------------------------
(* The calendar: a stamp that is bumped over midnight is advanced field by *)
(* field, a stamp read from the clock is computed from the days since the  *)
(* epoch; their order is that of the texts only if both know one calendar. *)

LeapYear(y) == y % 400 = 0 \/ (y % 4 = 0 /\ y % 100 # 0)

DaysInMonth(y, m) ==
  IF m = 2 THEN (IF LeapYear(y) THEN 29 ELSE 28)
  ELSE IF m \in {4, 6, 9, 11} THEN 30 ELSE 31

CivilFromDays(days) ==
  LET shifted    == days + 719468
      dayOfEra   == shifted % 146097
      yearOfEra  == (dayOfEra - dayOfEra \div 1460 + dayOfEra \div 36524 - dayOfEra \div 146096) \div 365
      dayOfYear  == dayOfEra - (365 * yearOfEra + yearOfEra \div 4 - yearOfEra \div 100)
      monthPrime == (5 * dayOfYear + 2) \div 153
      month      == IF monthPrime < 10 THEN monthPrime + 3 ELSE monthPrime - 9
  IN [year  |-> yearOfEra + 400 * (shifted \div 146097) + (IF month <= 2 THEN 1 ELSE 0),
      month |-> month,
      day   |-> dayOfYear - (153 * monthPrime + 2) \div 5 + 1]

NextDay(date) ==
  IF date.day < DaysInMonth(date.year, date.month) THEN [date EXCEPT !.day = @ + 1]
  ELSE IF date.month < 12 THEN [date EXCEPT !.day = 1, !.month = @ + 1]
  ELSE [year |-> date.year + 1, month |-> 1, day |-> 1]

CanonicalDate(date) == date.month \in 1..12 /\ date.day \in 1..DaysInMonth(date.year, date.month)

OneCalendar ==
  \A d \in Days : CanonicalDate(CivilFromDays(d)) /\ CivilFromDays(d + 1) = NextDay(CivilFromDays(d))

-----------------------------------------------------------------------------
(* Every stored row can be read by all that read it, and no transition     *)
(* that the states allow is refused, whatever the clock does: otherwise a  *)
(* run could not be ended, a page of the history could not be shown or the *)
(* Supervisor could not start.                                             *)
RowsAreReadable ==
  /\ ~refused
  /\ \A r \in RowRuns : rows[r] # Absent =>
       /\ RowReads(rows[r])
       /\ \A o \in StopsOf(r) : StopReads(stops[o], rows[r])
  /\ OneCalendar
=============================================================================
