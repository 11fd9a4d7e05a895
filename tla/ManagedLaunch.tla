--------------------------- MODULE ManagedLaunch ---------------------------
(***************************************************************************)
(* Starting a managed run: start and start_platform_run of                 *)
(* crates/supervisor/src/managed_runs.rs, the Starting transitions of      *)
(* crates/storage/src/run_contract.rs, and the suspended children of both  *)
(* platforms' managed.rs.                                                  *)
(*                                                                         *)
(* One launch runs at a time, under the lock of the service; the processes *)
(* move on and the Supervisor may die between any two of its steps.        *)
(***************************************************************************)
EXTENDS Naturals, FiniteSets

CONSTANTS
  None,
  Runs,                   \* run ids; each is allocated by one launch
  Platforms,              \* the platforms Init chooses from
  Capacity,               \* MAX_ACTIVE_MANAGED_LOG_RUNS
  CleanupRetryAttempts,   \* CLEANUP_RETRY_ATTEMPTS
  MaxCrashes              \* bound: deaths of the Supervisor

ASSUME PlatformsAreKnown == Platforms \subseteq {"macOS", "Windows"} /\ Platforms # {}
ASSUME LimitsArePositive == Capacity \in Nat \ {0} /\ CleanupRetryAttempts \in Nat \ {0}
ASSUME CrashesAreBounded == MaxCrashes \in Nat
ASSUME RunsAreFinite     == IsFiniteSet(Runs) /\ None \notin Runs

VARIABLES
  platform,
  row,        \* durable: the state of the run, None before it is inserted
  bound,      \* durable: its process identity is stored
  control,    \* controls: what the Supervisor holds of the run, or None
  child,      \* the process itself
  owner,      \* evidence kept with the child by whoever owns it
  launch,     \* the launch in progress: its run and the next step
  retries,    \* attempts left in the retry loop this launch scheduled
  answer,     \* what the client of the launch was told
  supervisor, \* "Serving", "Reconciling" or "Down"
  crashes

durable == <<row, bound>>
vars == <<platform, row, bound, control, child, owner, launch, retries, answer,
          supervisor, crashes>>

RowStates == {"STARTING", "RUNNING", "FAILED", "ORPHANED", "RECOVERED",
              "EXITED", "EXITED_WHILE_OFFLINE", "IDENTITY_MISMATCH"}
Controls  == {"StartingIntent", "Suspended", "RunningUncommitted", "Running",
              "CleanupPending"}
Answers   == {"STARTED", "FAILED", "PENDING"}

ASSUME NoneIsNoState == None \notin RowStates \cup Controls \cup Answers

(* KILLED: told to die, not yet gone.  HEADLESS: the root is gone and *)
(* descendants are left.  STRAYED: the root left its process group.   *)
World     == {"NONE", "SUSPENDED", "GROUP", "HEADLESS", "STRAYED", "KILLED", "GONE"}
Executing == {"GROUP", "HEADLESS", "STRAYED"}
Live      == Executing \cup {"SUSPENDED"}

(* ChildExecution, group_kill_sent and group_boundary_lost of *)
(* OwnedMacosChild; assigned_to_job of SuspendedChild.        *)
Owner == [resumed : BOOLEAN, killSent : BOOLEAN, lost : BOOLEAN, assigned : BOOLEAN]
NewOwner == [resumed |-> FALSE, killSent |-> FALSE, lost |-> FALSE, assigned |-> FALSE]

Steps == {"Prepare", "Identify", "Bind", "Resume", "Mark", "Terminate",
          "RecordFailed", "RecordPending"}
NoLaunch == [run |-> None, step |-> "Idle"]

Init ==
  /\ platform \in Platforms
  /\ row = [r \in Runs |-> None]
  /\ bound = [r \in Runs |-> FALSE]
  /\ control = [r \in Runs |-> None]
  /\ child = [r \in Runs |-> "NONE"]
  /\ owner = [r \in Runs |-> NewOwner]
  /\ launch = NoLaunch
  /\ retries = [r \in Runs |-> 0]
  /\ answer = [r \in Runs |-> None]
  /\ supervisor = "Serving"
  /\ crashes = 0

Held == {r \in Runs : control[r] # None}
LaunchAt(r, step) == launch = [run |-> r, step |-> step]
GoTo(step) == launch' = [launch EXCEPT !.step = step]
----------------------------------------------------------------------------
(* Terminating a child: terminate_and_confirm of both platforms.  An   *)
(* attempt is what is known afterwards, what is true, and the verdict. *)

Attempt(ok, o, w) == [ok |-> ok, owner |-> o, child |-> w]

(* The kill may be refused, time out, or be waited for in vain. *)
KillAndWait(o, w) ==
  {Attempt(TRUE, o, "GONE"), Attempt(FALSE, o, "GONE"), Attempt(FALSE, o, w)}
  \cup (IF w = "GONE" THEN {} ELSE {Attempt(FALSE, o, "KILLED")})

(* The root is killed by pid; its descendants, if any, keep the group. *)
KillRoot(o, w) ==
  {Attempt(FALSE, [o EXCEPT !.lost = TRUE], after) :
     after \in IF w = "STRAYED" THEN {"STRAYED", "HEADLESS", "GONE"} ELSE {w}}

(* After the group kill: wait for the root, then for the group. *)
WaitForGroup(o, w) ==
  CASE w = "GONE"   -> {Attempt(TRUE, o, "GONE"), Attempt(FALSE, o, "GONE")}
    [] w = "KILLED" -> {Attempt(TRUE, o, "GONE"), Attempt(FALSE, o, "GONE"),
                        Attempt(FALSE, o, "KILLED")}
    [] OTHER        -> {Attempt(FALSE, o, w)}

(* A root that strays between its revalidation and the kill survives it. *)
KillGroup(o, w) ==
  LET sent == [o EXCEPT !.killSent = TRUE]
  IN  WaitForGroup(sent, IF w = "GONE" THEN "GONE" ELSE "KILLED")
      \cup (IF w = "GROUP" THEN {Attempt(FALSE, sent, "STRAYED")} ELSE {})

TerminateGroup(o, w) ==
  IF o.lost THEN KillRoot(o, w)
  ELSE IF o.killSent THEN WaitForGroup(o, w)
  ELSE {Attempt(FALSE, o, w)}      \* revalidation unavailable, kill refused
       \cup (IF w = "STRAYED" THEN KillRoot(o, w) ELSE KillGroup(o, w))

TerminateOutcomes(o, w) ==
  IF platform = "macOS" /\ o.resumed THEN TerminateGroup(o, w) ELSE KillAndWait(o, w)
----------------------------------------------------------------------------
(* The launch.  A step that fails names where the failure is handled. *)

(* create_starting_intent: the insert may commit and its answer be lost *)
BeginStart(r) ==
  /\ supervisor = "Serving" /\ launch = NoLaunch
  /\ Cardinality(Held) < Capacity
  /\ row[r] = None /\ answer[r] = None
  /\ row' = [row EXCEPT ![r] = "STARTING"]
  /\ \/ /\ control' = [control EXCEPT ![r] = "StartingIntent"]
        /\ launch' = [run |-> r, step |-> "Prepare"]
        /\ answer' = answer
     \/ /\ answer' = [answer EXCEPT ![r] = "FAILED"]
        /\ UNCHANGED <<control, launch>>
  /\ UNCHANGED <<platform, bound, child, owner, retries, supervisor, crashes>>

(* The preview, the working directory, the environment, its secrets, the *)
(* log pipeline, the pipes, the spawn itself.                            *)
FailPreparation(r) ==
  /\ LaunchAt(r, "Prepare")
  /\ GoTo("RecordFailed")
  /\ UNCHANGED <<platform, durable, control, child, owner, retries, answer,
                 supervisor, crashes>>

Spawn(r) ==
  /\ LaunchAt(r, "Prepare")
  /\ GoTo("Identify")
  /\ child' = [child EXCEPT ![r] = "SUSPENDED"]
  /\ owner' = [owner EXCEPT ![r] = NewOwner]
  /\ UNCHANGED <<platform, durable, control, retries, answer, supervisor, crashes>>

(* On Windows the child is put into its job before its identity is read. *)
Assigned(r, yes) == [owner EXCEPT ![r].assigned = (yes /\ platform = "Windows")]

Identify(r) ==
  /\ LaunchAt(r, "Identify")
  /\ GoTo("Bind")
  /\ owner' = Assigned(r, TRUE)
  /\ control' = [control EXCEPT ![r] = "Suspended"]
  /\ UNCHANGED <<platform, durable, child, retries, answer, supervisor, crashes>>

FailIdentify(r) ==
  /\ LaunchAt(r, "Identify")
  /\ GoTo("Terminate")
  /\ \E yes \in BOOLEAN : owner' = Assigned(r, yes)
  /\ UNCHANGED <<platform, durable, control, child, retries, answer, supervisor, crashes>>

FaultyBind(r) ==   \* resumes whatever became of the write
  /\ LaunchAt(r, "Bind")
  /\ \E stored \in BOOLEAN :
       /\ bound' = [bound EXCEPT ![r] = stored]
       /\ GoTo("Resume")
  /\ UNCHANGED <<platform, row, control, child, owner, retries, answer, supervisor, crashes>>

(* bind_starting_run_identity_and_control: a write that is reported as *)
(* failed may be stored.                                               *)
Bind(r) ==
  /\ LaunchAt(r, "Bind")
  /\ \E stored, confirmed \in BOOLEAN :
       /\ confirmed => stored
       /\ bound' = [bound EXCEPT ![r] = stored]
       /\ GoTo(IF confirmed THEN "Resume" ELSE "Terminate")
  /\ UNCHANGED <<platform, row, control, child, owner, retries, answer, supervisor, crashes>>

Resume(r) ==
  /\ LaunchAt(r, "Resume")
  /\ GoTo("Mark")
  /\ owner' = [owner EXCEPT ![r].resumed = TRUE]
  /\ child' = [child EXCEPT ![r] = IF @ = "SUSPENDED" THEN "GROUP" ELSE @]
  /\ control' = [control EXCEPT ![r] = "RunningUncommitted"]
  /\ UNCHANGED <<platform, durable, retries, answer, supervisor, crashes>>

(* The terminal, the capture of its output or the resume itself fails. *)
FailResume(r) ==
  /\ LaunchAt(r, "Resume")
  /\ GoTo("Terminate")
  /\ UNCHANGED <<platform, durable, control, child, owner, retries, answer,
                 supervisor, crashes>>

(* mark_starting_run_running, answered or found by the read-back *)
MarkRunning(r) ==
  /\ LaunchAt(r, "Mark")
  /\ row' = [row EXCEPT ![r] = "RUNNING"]
  /\ control' = [control EXCEPT ![r] = "Running"]
  /\ answer' = [answer EXCEPT ![r] = "STARTED"]
  /\ launch' = NoLaunch
  /\ UNCHANGED <<platform, bound, child, owner, retries, supervisor, crashes>>

(* The write failed, or it was stored and the read-back failed too. *)
FailMarkRunning(r) ==
  /\ LaunchAt(r, "Mark")
  /\ \E stored \in BOOLEAN :
       row' = [row EXCEPT ![r] = IF stored THEN "RUNNING" ELSE @]
  /\ GoTo("Terminate")
  /\ UNCHANGED <<platform, bound, control, child, owner, retries, answer,
                 supervisor, crashes>>

(* abort, terminate_and_wait and cleanup_after_failure: the control is *)
(* taken out of the table first.                                       *)
Terminate(r) ==
  /\ LaunchAt(r, "Terminate")
  /\ control' = [control EXCEPT ![r] = None]
  /\ \E x \in TerminateOutcomes(owner[r], child[r]) :
       /\ owner' = [owner EXCEPT ![r] = x.owner]
       /\ child' = [child EXCEPT ![r] = x.child]
       /\ GoTo(IF x.ok THEN "RecordFailed" ELSE "RecordPending")
  /\ UNCHANGED <<platform, durable, retries, answer, supervisor, crashes>>

(* transition_starting_launch: only a Starting row moves; it may fail. *)
EndStarting(r, state) ==
  row' \in {row, [row EXCEPT ![r] = IF @ = "STARTING" THEN state ELSE @]}

RecordFailed(r) ==
  /\ LaunchAt(r, "RecordFailed")
  /\ EndStarting(r, "FAILED")
  /\ control' = [control EXCEPT ![r] = None]
  /\ answer' = [answer EXCEPT ![r] = "FAILED"]
  /\ launch' = NoLaunch
  /\ UNCHANGED <<platform, bound, child, owner, retries, supervisor, crashes>>

FaultyRecordPending(r) ==   \* forgets the owner of the child
  /\ LaunchAt(r, "RecordPending")
  /\ EndStarting(r, "ORPHANED")
  /\ control' = [control EXCEPT ![r] = None]
  /\ answer' = [answer EXCEPT ![r] = "PENDING"]
  /\ launch' = NoLaunch
  /\ UNCHANGED <<platform, bound, child, owner, retries, supervisor, crashes>>

(* record_native_failure with a pending cleanup; start then schedules its *)
(* retries.                                                               *)
RecordPending(r) ==
  /\ LaunchAt(r, "RecordPending")
  /\ EndStarting(r, "ORPHANED")
  /\ control' = [control EXCEPT ![r] = "CleanupPending"]
  /\ answer' = [answer EXCEPT ![r] = "PENDING"]
  /\ retries' = [retries EXCEPT ![r] = CleanupRetryAttempts]
  /\ launch' = NoLaunch
  /\ UNCHANGED <<platform, bound, child, owner, supervisor, crashes>>
----------------------------------------------------------------------------
(* One pass of the loop scheduled by the launch of r: retry_pending_     *)
(* controls tries every pending cleanup, and the loop stops when none is *)
(* left.                                                                 *)
Pending == {r \in Runs : control[r] = "CleanupPending"}

RetryCleanup(r) ==
  /\ supervisor = "Serving" /\ launch = NoLaunch
  /\ retries[r] > 0
  /\ \E x \in [Pending -> UNION {TerminateOutcomes(owner[p], child[p]) : p \in Pending}] :
       /\ \A p \in Pending : x[p] \in TerminateOutcomes(owner[p], child[p])
       /\ owner' = [p \in Runs |-> IF p \in Pending THEN x[p].owner ELSE owner[p]]
       /\ child' = [p \in Runs |-> IF p \in Pending THEN x[p].child ELSE child[p]]
       /\ control' = [p \in Runs |-> IF p \in Pending /\ x[p].ok THEN None ELSE control[p]]
       /\ retries' = [retries EXCEPT ![r] =
                        IF \A p \in Pending : x[p].ok THEN 0 ELSE @ - 1]
  /\ UNCHANGED <<platform, durable, launch, answer, supervisor, crashes>>

(* poll_exit: a control regained by a restart only asks whether the group  *)
(* still exists, so it takes a root that left its group for gone.          *)
SeemsGone(r) == child[r] = "GONE" \/ (row[r] = "RECOVERED" /\ child[r] = "STRAYED")

(* A stop or the exit monitor ends a run that seems gone and drops its     *)
(* control.  What a stop records otherwise is in ManagedStop.              *)
EndRun(r) ==
  /\ supervisor = "Serving" /\ launch = NoLaunch
  /\ control[r] = "Running" /\ SeemsGone(r)
  /\ row' = [row EXCEPT ![r] = "EXITED"]
  /\ control' = [control EXCEPT ![r] = None]
  /\ UNCHANGED <<platform, bound, child, owner, launch, retries, answer,
                 supervisor, crashes>>

(* Programs exit, lose their root or leave their group; a suspended child *)
(* may be killed by somebody else.                                        *)
ChildStep(w) ==
  CASE w = "GROUP"    -> {"HEADLESS", "GONE"}
                         \cup (IF platform = "macOS" THEN {"STRAYED"} ELSE {})
    [] w = "STRAYED"  -> {"HEADLESS", "GONE"}
    [] w \in {"SUSPENDED", "HEADLESS", "KILLED"} -> {"GONE"}
    [] OTHER          -> {}

ChildMoves(r) ==
  /\ \E w \in ChildStep(child[r]) : child' = [child EXCEPT ![r] = w]
  /\ UNCHANGED <<platform, durable, control, owner, launch, retries, answer,
                 supervisor, crashes>>
----------------------------------------------------------------------------
(* KILL_ON_JOB_CLOSE: the last handle of the job is closed. *)
AfterCrash(r) ==
  IF platform = "Windows" /\ owner[r].assigned /\ child[r] \in Live
  THEN "KILLED" ELSE child[r]

Crash ==
  /\ supervisor # "Down" /\ crashes < MaxCrashes
  /\ supervisor' = "Down" /\ crashes' = crashes + 1
  /\ control' = [r \in Runs |-> None]
  /\ child' = [r \in Runs |-> AfterCrash(r)]
  /\ owner' = [r \in Runs |-> NewOwner]
  /\ launch' = NoLaunch
  /\ retries' = [r \in Runs |-> 0]
  /\ UNCHANGED <<platform, durable, answer>>

Restart ==
  /\ supervisor = "Down"
  /\ supervisor' = "Reconciling"
  /\ UNCHANGED <<platform, durable, control, child, owner, launch, retries, answer, crashes>>

(* A pid that is free may have been given to another process. *)
Probe(r) ==
  IF platform = "macOS"
  THEN CASE child[r] \in {"SUSPENDED", "GROUP"} -> {"RECOVERED", "ORPHANED"}
         [] child[r] \in {"HEADLESS", "STRAYED"} -> {"ORPHANED"}
         [] child[r] = "KILLED" -> {"RECOVERED", "ORPHANED", "EXITED_WHILE_OFFLINE"}
         [] OTHER -> {"ORPHANED", "EXITED_WHILE_OFFLINE", "IDENTITY_MISMATCH"}
  ELSE CASE child[r] \in Live -> {"ORPHANED"}
         [] child[r] = "KILLED" -> {"ORPHANED", "EXITED_WHILE_OFFLINE"}
         [] OTHER -> {"ORPHANED", "EXITED_WHILE_OFFLINE", "IDENTITY_MISMATCH"}

Candidates == {r \in Runs : row[r] \in {"STARTING", "RUNNING", "RECOVERED"}}

(* An identity that was never bound cannot be probed, and a run that was *)
(* still starting has no recovered_control_plan.                         *)
Reconcile(r) ==
  /\ supervisor = "Reconciling"
  /\ r \in Candidates /\ control[r] = None
  /\ \E probed \in IF bound[r] THEN Probe(r) ELSE {"ORPHANED"} :
       LET outcome == IF probed = "RECOVERED" /\ row[r] = "STARTING"
                      THEN "ORPHANED" ELSE probed
       IN  /\ row' = [row EXCEPT ![r] = outcome]
           /\ control' = [control EXCEPT ![r] =
                            IF outcome = "RECOVERED" THEN "Running" ELSE None]
  /\ UNCHANGED <<platform, bound, child, owner, launch, retries, answer, supervisor, crashes>>

Serve ==
  /\ supervisor = "Reconciling"
  /\ \A r \in Candidates : control[r] # None
  /\ supervisor' = "Serving"
  /\ UNCHANGED <<platform, durable, control, child, owner, launch, retries, answer, crashes>>

Next ==
  \/ \E r \in Runs :
       \/ BeginStart(r) \/ FailPreparation(r) \/ Spawn(r) \/ Identify(r) \/ FailIdentify(r)
       \/ Bind(r) \/ Resume(r) \/ FailResume(r) \/ MarkRunning(r) \/ FailMarkRunning(r)
       \/ Terminate(r) \/ RecordFailed(r) \/ RecordPending(r)
       \/ RetryCleanup(r) \/ EndRun(r) \/ ChildMoves(r) \/ Reconcile(r)
  \/ Crash \/ Restart \/ Serve

Spec == Init /\ [][Next]_vars
----------------------------------------------------------------------------
(* A child runs code of the user only after its identity is stored, so a  *)
(* later Supervisor can find it, and on Windows only inside its job       *)
(* (prepare_suspended_process_group, prepare_suspended_into_job, resume). *)
CodeNeedsDurableIdentity ==
  \A r \in Runs : child[r] \in Executing =>
    /\ bound[r]
    /\ platform = "Windows" => owner[r].assigned

(* What is left of a run that a restart regained and recorded as exited    *)
(* once its root had left its group; an owned run never ends like this.    *)
LeftItsGroup(r) ==
  /\ platform = "macOS" /\ row[r] = "EXITED" /\ ~owner[r].resumed
  /\ child[r] \in {"STRAYED", "HEADLESS"}

(* While the Supervisor serves, every process a launch left alive is held  *)
(* by a control, belongs to the launch in progress, or its run says that   *)
(* control over it was lost; no crash, failed write or lost answer leaves  *)
(* one unnoticed, except the root of a regained run that left its group,   *)
(* which poll_exit cannot see; and no retry or recovery ever puts more     *)
(* than MAX_ACTIVE_MANAGED_LOG_RUNS controls into the table.  A launch     *)
(* that is recorded or answered as failed has left no process behind       *)
(* (run_contract.rs: "only after the platform layer has confirmed that no  *)
(* launched process remains alive").                                       *)
ProcessesAreAccounted ==
  /\ \A r \in Runs : supervisor = "Serving" /\ child[r] \in Live =>
       \/ control[r] \in {"Running", "CleanupPending"}
       \/ launch.run = r
       \/ row[r] = "ORPHANED"
       \/ LeftItsGroup(r)
  /\ \A r \in Runs : row[r] = "FAILED" \/ answer[r] = "FAILED" => child[r] \in {"NONE", "GONE"}
  /\ Cardinality(Held) <= Capacity
=============================================================================
