------------------------ MODULE ManagedLaunch_proofs ------------------------
(***************************************************************************)
(* No launch runs code of the user before it is on record, and none leaves *)
(* a process that nobody knows of, whatever fails and wherever the         *)
(* Supervisor dies.  Every row that launches, stops and restarts write can *)
(* be read again, whatever the clock does (RunRows).  And every handle     *)
(* that a launch opens is closed or belongs to a control (ChildHandles).   *)
(***************************************************************************)
EXTENDS ManagedLaunch, RunRows, ChildHandles, Filters_proofs, FiniteSetTheorems, SequenceTheorems,
        TLAPS

TypeOK ==
  /\ platform \in Platforms
  /\ row \in [Runs -> RowStates \cup {None}]
  /\ bound \in [Runs -> BOOLEAN]
  /\ control \in [Runs -> Controls \cup {None}]
  /\ child \in [Runs -> World]
  /\ owner \in [Runs -> Owner]
  /\ launch \in [run : Runs \cup {None}, step : Steps \cup {"Idle"}]
  /\ retries \in [Runs -> 0..CleanupRetryAttempts]
  /\ answer \in [Runs -> Answers \cup {None}]
  /\ supervisor \in {"Serving", "Reconciling", "Down"}
  /\ crashes \in 0..MaxCrashes

(* What each step of a launch can rely on. *)
LaunchOf(r) ==
  /\ answer[r] = None /\ row[r] \in {"STARTING", "RUNNING"}
  /\ launch.step = "Prepare" => child[r] = "NONE"
  /\ launch.step \in {"Identify", "Bind", "Resume"} => child[r] \in {"SUSPENDED", "GONE"}
  /\ launch.step \in {"Bind", "Resume"} /\ platform = "Windows" => owner[r].assigned
  /\ launch.step = "Resume" => bound[r]
  /\ launch.step = "RecordFailed" => child[r] \in {"NONE", "GONE"}

LaunchIsInStep ==
  \/ launch = NoLaunch
  \/ /\ launch.run \in Runs /\ launch.step \in Steps /\ supervisor = "Serving"
     /\ LaunchOf(launch.run)

(* What the row, the control and the answer of a run say of its process, *)
(* with a Supervisor and without.                                        *)
RecordIsRight(r) ==
  /\ row[r] = None => child[r] = "NONE"
  /\ child[r] \in Live =>
       row[r] \in {"STARTING", "RUNNING", "RECOVERED", "ORPHANED"} \/ LeftItsGroup(r)
  /\ row[r] = "RECOVERED" => platform = "macOS" /\ ~owner[r].resumed
  /\ control[r] = "CleanupPending" =>
       answer[r] = "PENDING" /\ row[r] \in {"STARTING", "RUNNING", "ORPHANED"}
  /\ supervisor # "Serving" => control[r] \in {None, "Running"} /\ ~owner[r].resumed

(* A restart may put these runs into the table of controls. *)
Recoverable ==
  {r \in Runs : row[r] \in {"RUNNING", "RECOVERED"} /\ child[r] \notin {"NONE", "GONE"}}

(* The places of the table that are taken, or that a launch which lost its *)
(* control or a restart may take again.                                    *)
InUse == Held \cup Recoverable \cup ({launch.run} \ {None})

PlacesAreKept ==
  /\ Cardinality(InUse) <= Capacity
  /\ supervisor = "Serving" => Recoverable \subseteq Held \cup {launch.run}

RunIsAccounted(r) ==
  /\ child[r] \in Executing => bound[r] /\ (platform = "Windows" => owner[r].assigned)
  /\ supervisor = "Serving" /\ child[r] \in Live =>
       \/ control[r] \in {"Running", "CleanupPending"} \/ launch.run = r
       \/ row[r] = "ORPHANED" \/ LeftItsGroup(r)
  /\ row[r] = "FAILED" \/ answer[r] = "FAILED" => child[r] \in {"NONE", "GONE"}

LaunchInv ==
  /\ TypeOK /\ LaunchIsInStep /\ PlacesAreKept
  /\ \A r \in Runs : RecordIsRight(r) /\ RunIsAccounted(r)
------------------------------------------------------------
(* Terminating a child. *)

(* What an attempt to terminate a child may find or do. *)
Possible(x, o, w) ==
  /\ x.owner \in Owner /\ x.owner.assigned = o.assigned
  /\ x.ok \in BOOLEAN /\ x.child \in World
  /\ x.ok => x.child = "GONE"
  /\ x.child \in Executing => w \in Executing
  /\ x.child \in Live => w \in Live

LEMMA OutcomeIsPossible ==
  ASSUME NEW o \in Owner, NEW w \in World,
         NEW ok \in BOOLEAN, NEW p \in Owner, NEW v \in World,
         p.assigned = o.assigned, ok => v = "GONE",
         v \in Executing => w \in Executing, v \in Live => w \in Live
  PROVE  Possible(Attempt(ok, p, v), o, w)
<1>1. /\ Attempt(ok, p, v).ok = ok /\ Attempt(ok, p, v).owner = p
      /\ Attempt(ok, p, v).child = v
  BY DEF Attempt
<1> QED BY <1>1 DEF Possible

(* What is gone or dying is neither alive nor running code. *)
LEMMA GoneIsPossible ==
  ASSUME NEW o \in Owner, NEW w \in World, NEW ok \in BOOLEAN
  PROVE  /\ Possible(Attempt(ok, o, "GONE"), o, w)
         /\ Possible(Attempt(FALSE, o, "KILLED"), o, w)
         /\ Possible(Attempt(FALSE, o, w), o, w)
<1>1. /\ {"GONE", "KILLED"} \subseteq World
      /\ "GONE" \notin Executing /\ "KILLED" \notin Executing
      /\ "GONE" \notin Live /\ "KILLED" \notin Live
  BY DEF World, Executing, Live
<1> QED BY <1>1, OutcomeIsPossible

LEMMA WaitIsPossible ==
  ASSUME NEW o \in Owner, NEW w \in World, NEW x \in KillAndWait(o, w) \cup WaitForGroup(o, w)
  PROVE  Possible(x, o, w)
<1>1. \/ \E ok \in BOOLEAN : x = Attempt(ok, o, "GONE")
      \/ x = Attempt(FALSE, o, "KILLED") \/ x = Attempt(FALSE, o, w)
  BY DEF KillAndWait, WaitForGroup
<1> QED BY <1>1, GoneIsPossible

LEMMA KillRootIsPossible ==
  ASSUME NEW o \in Owner, NEW w \in World, NEW x \in KillRoot(o, w)
  PROVE  Possible(x, o, w)
<1>0. [o EXCEPT !.lost = TRUE] \in Owner /\ [o EXCEPT !.lost = TRUE].assigned = o.assigned
  BY DEF Owner
<1>1. PICK p \in Owner : p = [o EXCEPT !.lost = TRUE] /\ p.assigned = o.assigned
  BY <1>0, Zenon
<1>2. PICK v \in World : /\ x = Attempt(FALSE, p, v)
                         /\ v = w \/ (w = "STRAYED" /\ v \in {"STRAYED", "HEADLESS", "GONE"})
  BY <1>1 DEF KillRoot, World
<1>3. v \in Executing => w \in Executing
  BY <1>2 DEF Executing
<1>4. v \in Live => w \in Live
  BY <1>2 DEF Live, Executing
<1> QED BY <1>1, <1>2, <1>3, <1>4, OutcomeIsPossible

LEMMA KillGroupIsPossible ==
  ASSUME NEW o \in Owner, NEW w \in World, NEW x \in KillGroup(o, w)
  PROVE  Possible(x, o, w)
<1>0. [o EXCEPT !.killSent = TRUE] \in Owner /\ [o EXCEPT !.killSent = TRUE].assigned = o.assigned
  BY DEF Owner
<1>1. PICK sent \in Owner : sent = [o EXCEPT !.killSent = TRUE] /\ sent.assigned = o.assigned
  BY <1>0, Zenon
<1>2. CASE x \in WaitForGroup(sent, IF w = "GONE" THEN "GONE" ELSE "KILLED")
  <2>1. PICK v \in World : v = IF w = "GONE" THEN "GONE" ELSE "KILLED"
    BY DEF World
  <2>2. Possible(x, sent, v)
    BY <1>2, <2>1, WaitIsPossible
  <2> QED BY <1>1, <2>1, <2>2 DEF Possible, Live, Executing
<1>3. CASE w = "GROUP" /\ x = Attempt(FALSE, sent, "STRAYED")
  BY <1>1, <1>3, OutcomeIsPossible DEF World, Live, Executing
<1> QED BY <1>1, <1>2, <1>3 DEF KillGroup

(* A termination that is confirmed leaves nothing; no termination starts a *)
(* process, and none takes one out of its job.                             *)
LEMMA TerminationIsPossible ==
  ASSUME NEW o \in Owner, NEW w \in World, NEW x \in TerminateOutcomes(o, w)
  PROVE  Possible(x, o, w)
<1>1. ASSUME NEW y \in TerminateGroup(o, w) PROVE Possible(y, o, w)
  <2>1. Possible(Attempt(FALSE, o, w), o, w)
    BY DEF Attempt, Possible
  <2> QED BY <1>1, <2>1, WaitIsPossible, KillRootIsPossible, KillGroupIsPossible
          DEF TerminateGroup
<1> QED BY <1>1, WaitIsPossible DEF TerminateOutcomes

------------------------------------------------------------
(* Every action keeps the types. *)

(* What a pass of the retry loop does to each run. *)
LEMMA RetryTreatsEachRun ==
  ASSUME TypeOK, NEW r \in Runs, RetryCleanup(r), NEW p \in Runs
  PROVE  \/ /\ control[p] # "CleanupPending"
            /\ owner'[p] = owner[p] /\ child'[p] = child[p] /\ control'[p] = control[p]
         \/ /\ control[p] = "CleanupPending"
            /\ \E x : /\ Possible(x, owner[p], child[p])
                     /\ owner'[p] = x.owner /\ child'[p] = x.child
                     /\ control'[p] = IF x.ok THEN None ELSE control[p]
<1>1. PICK x : /\ \A q \in Pending : x[q] \in TerminateOutcomes(owner[q], child[q])
               /\ owner' = [q \in Runs |-> IF q \in Pending THEN x[q].owner ELSE owner[q]]
               /\ child' = [q \in Runs |-> IF q \in Pending THEN x[q].child ELSE child[q]]
               /\ control' = [q \in Runs |-> IF q \in Pending /\ x[q].ok THEN None ELSE control[q]]
  BY DEF RetryCleanup
<1>2. CASE p \notin Pending
  BY <1>1, <1>2 DEF Pending
<1>3. CASE p \in Pending
  <2>1. owner[p] \in Owner /\ child[p] \in World
    BY DEF TypeOK
  <2>2. Possible(x[p], owner[p], child[p])
    BY <1>1, <1>3, <2>1, TerminationIsPossible
  <2>3. /\ owner'[p] = x[p].owner /\ child'[p] = x[p].child
        /\ control'[p] = IF x[p].ok THEN None ELSE control[p]
    BY <1>1, <1>3
  <2> QED BY <1>3, <2>2, <2>3 DEF Pending
<1> QED BY <1>2, <1>3

(* A change of one field of the evidence that is kept with a child. *)
LEMMA EvidenceChanges ==
  ASSUME NEW o \in Owner, NEW yes \in BOOLEAN
  PROVE  /\ [o EXCEPT !.assigned = yes] \in Owner /\ [o EXCEPT !.assigned = yes].assigned = yes
         /\ [o EXCEPT !.resumed = yes] \in Owner
         /\ [o EXCEPT !.resumed = yes].assigned = o.assigned
BY DEF Owner

LEMMA AssignmentIsTyped ==
  ASSUME TypeOK, NEW r \in Runs, NEW yes, yes \in BOOLEAN
  PROVE  /\ Assigned(r, yes) \in [Runs -> Owner]
         /\ \A p \in Runs : p # r => Assigned(r, yes)[p] = owner[p]
         /\ yes /\ platform = "Windows" => Assigned(r, yes)[r].assigned
<1>1. owner \in [Runs -> Owner]
  BY DEF TypeOK
<1>2. PICK v \in BOOLEAN : v = (yes /\ platform = "Windows")
  OBVIOUS
<1>3. \A u \in BOOLEAN :
        [owner EXCEPT ![r].assigned = u] = [owner EXCEPT ![r] = [owner[r] EXCEPT !.assigned = u]]
  OBVIOUS
<1>4. Assigned(r, yes) = [owner EXCEPT ![r] = [owner[r] EXCEPT !.assigned = v]]
  BY <1>2, <1>3 DEF Assigned
<1>5. [owner[r] EXCEPT !.assigned = v] \in Owner /\ [owner[r] EXCEPT !.assigned = v].assigned = v
  <2>1. owner[r] \in Owner
    BY <1>1
  <2> QED BY <2>1, EvidenceChanges
<1> QED BY <1>1, <1>2, <1>4, <1>5

LEMMA ResumptionIsTyped ==
  ASSUME TypeOK, NEW r \in Runs
  PROVE  /\ [owner EXCEPT ![r].resumed = TRUE] \in [Runs -> Owner]
         /\ \A p \in Runs : [owner EXCEPT ![r].resumed = TRUE][p].assigned = owner[p].assigned
<1>1. owner \in [Runs -> Owner]
  BY DEF TypeOK
<1>2. [owner EXCEPT ![r].resumed = TRUE] = [owner EXCEPT ![r] = [owner[r] EXCEPT !.resumed = TRUE]]
  OBVIOUS
<1>3. /\ [owner[r] EXCEPT !.resumed = TRUE] \in Owner
      /\ [owner[r] EXCEPT !.resumed = TRUE].assigned = owner[r].assigned
  BY <1>1, EvidenceChanges
<1> QED BY <1>1, <1>2, <1>3

(* Finding out whom a child is changes what is known of it only. *)
LEMMA IdentifyingChangesEvidence ==
  ASSUME TypeOK, NEW r \in Runs, Identify(r) \/ FailIdentify(r)
  PROVE  /\ LaunchAt(r, "Identify")
         /\ UNCHANGED <<platform, row, bound, child, retries, answer, supervisor, crashes>>
         /\ control' = control \/ control' = [control EXCEPT ![r] = "Suspended"]
         /\ Identify(r) \/ launch' = [launch EXCEPT !.step = "Terminate"]
         /\ owner' \in [Runs -> Owner]
         /\ \A p \in Runs : p # r => owner'[p] = owner[p]
<1>1. PICK yes \in BOOLEAN : owner' = Assigned(r, yes)
  BY Zenon DEF Identify, FailIdentify
<1>2. owner' \in [Runs -> Owner] /\ \A p \in Runs : p # r => owner'[p] = owner[p]
  <2>1. yes \in BOOLEAN
    OBVIOUS
  <2> QED BY <1>1, <2>1, AssignmentIsTyped, Zenon
<1>3. /\ LaunchAt(r, "Identify") /\ UNCHANGED <<platform, row, bound, child, retries, answer, supervisor, crashes>>
      /\ control' = control \/ control' = [control EXCEPT ![r] = "Suspended"]
      /\ Identify(r) \/ launch' = [launch EXCEPT !.step = "Terminate"]
  BY Zenon DEF Identify, FailIdentify, GoTo, durable
<1> QED BY <1>2, <1>3

LEMMA TypeIsKept ==
  ASSUME TypeOK, Next
  PROVE  TypeOK'
<1> USE DEF TypeOK, durable, GoTo, LaunchAt
<1>1. ASSUME NEW r \in Runs, BeginStart(r)
      PROVE  TypeOK'
  BY <1>1 DEF BeginStart, RowStates, Controls, Answers, Steps
<1>2. ASSUME NEW r \in Runs, FailPreparation(r) \/ FailResume(r)
      PROVE  TypeOK'
  BY <1>2 DEF FailPreparation, FailResume, Steps
<1>3. ASSUME NEW r \in Runs, Spawn(r)
      PROVE  TypeOK'
  BY <1>3 DEF Spawn, NewOwner, Owner, World, Steps
<1>13. ASSUME NEW r \in Runs, Identify(r) \/ FailIdentify(r)
       PROVE  TypeOK'
  <2>1. launch' \in {[launch EXCEPT !.step = "Bind"], [launch EXCEPT !.step = "Terminate"]}
    BY <1>13, IdentifyingChangesEvidence, Zenon DEF Identify
  <2> QED BY <1>13, <2>1, IdentifyingChangesEvidence DEF Controls, Steps
<1>4. ASSUME NEW r \in Runs, Bind(r) \/ Resume(r)
      PROVE  TypeOK'
  <2>1. /\ child' \in [Runs -> World] /\ control' \in [Runs -> Controls \cup {None}]
        /\ launch' \in [run : Runs \cup {None}, step : Steps \cup {"Idle"}]
    BY <1>4 DEF Bind, Resume, World, Controls, Steps
  <2>2. owner' = owner \/ owner' = [owner EXCEPT ![r].resumed = TRUE]
    BY <1>4 DEF Bind, Resume
  <2>3. [owner EXCEPT ![r].resumed = TRUE] \in [Runs -> Owner]
    BY ResumptionIsTyped
  <2>4. owner' \in [Runs -> Owner]
    BY <2>2, <2>3
  <2>5. bound' \in [Runs -> BOOLEAN]
    BY <1>4 DEF Bind, Resume
  <2> QED BY <1>4, <2>1, <2>4, <2>5 DEF Bind, Resume
<1>5. ASSUME NEW r \in Runs, MarkRunning(r) \/ FailMarkRunning(r)
      PROVE  TypeOK'
  BY <1>5 DEF MarkRunning, FailMarkRunning, NoLaunch, RowStates, Controls, Answers, Steps
<1>6. ASSUME NEW r \in Runs, Terminate(r)
      PROVE  TypeOK'
  <2>1. PICK x \in TerminateOutcomes(owner[r], child[r]) :
          /\ owner' = [owner EXCEPT ![r] = x.owner]
          /\ child' = [child EXCEPT ![r] = x.child]
          /\ GoTo(IF x.ok THEN "RecordFailed" ELSE "RecordPending")
    BY <1>6 DEF Terminate
  <2>2. x.owner \in Owner /\ x.child \in World
    BY <2>1, TerminationIsPossible DEF Possible
  <2> QED BY <1>6, <2>1, <2>2 DEF Terminate, Steps
<1>7. ASSUME NEW r \in Runs, RecordFailed(r) \/ RecordPending(r)
      PROVE  TypeOK'
  BY <1>7, LimitsArePositive
     DEF RecordFailed, RecordPending, EndStarting, NoLaunch, RowStates, Controls, Answers
<1>8. ASSUME NEW r \in Runs, RetryCleanup(r)
      PROVE  TypeOK'
  <2>1. \A p \in Runs : /\ owner'[p] \in Owner /\ child'[p] \in World
                         /\ control'[p] \in Controls \cup {None}
    BY <1>8, RetryTreatsEachRun DEF Possible
  <2>2. /\ owner' = [p \in Runs |-> owner'[p]] /\ child' = [p \in Runs |-> child'[p]]
        /\ control' = [p \in Runs |-> control'[p]]
    BY <1>8 DEF RetryCleanup
  <2>3. owner' \in [Runs -> Owner] /\ child' \in [Runs -> World]
        /\ control' \in [Runs -> Controls \cup {None}]
    BY <2>1, <2>2
  <2>4. retries' \in [Runs -> 0..CleanupRetryAttempts]
    BY <1>8, LimitsArePositive DEF RetryCleanup
  <2> QED BY <1>8, <2>3, <2>4 DEF RetryCleanup
<1>9. ASSUME NEW r \in Runs, EndRun(r) \/ ChildMoves(r)
      PROVE  TypeOK'
  BY <1>9 DEF EndRun, ChildMoves, ChildStep, RowStates, World
<1>10. ASSUME NEW r \in Runs, Reconcile(r)
       PROVE  TypeOK'
  BY <1>10 DEF Reconcile, Probe, RowStates, Controls
<1>11. CASE Crash
  BY <1>11, CrashesAreBounded, LimitsArePositive
     DEF Crash, AfterCrash, World, NewOwner, Owner, NoLaunch
<1>12. CASE Restart \/ Serve
  BY <1>12 DEF Restart, Serve
<1> QED BY <1>1, <1>2, <1>3, <1>4, <1>5, <1>6, <1>7, <1>8, <1>9, <1>10, <1>11, <1>12, <1>13 DEF Next

------------------------------------------------------------
(* Every action keeps the rest of the invariant. *)

LEMMA AtStep ==
  ASSUME LaunchInv, NEW r \in Runs, NEW step, LaunchAt(r, step)
  PROVE  /\ supervisor = "Serving" /\ launch.run = r /\ launch.step = step /\ LaunchOf(r)
         /\ \A p \in Runs : launch.run = p <=> p = r
BY RunsAreFinite DEF LaunchInv, LaunchIsInStep, LaunchAt, NoLaunch

LEMMA AtRest ==
  ASSUME LaunchInv, launch = NoLaunch \/ supervisor # "Serving"
  PROVE  launch = NoLaunch /\ \A p \in Runs : launch.run # p
BY RunsAreFinite DEF LaunchInv, LaunchIsInStep, NoLaunch

LEMMA RunsStayAccounted ==
  ASSUME LaunchInv, Next, NEW p \in Runs
  PROVE  (RecordIsRight(p) /\ RunIsAccounted(p))'
<1> DEFINE Kept == (RecordIsRight(p) /\ RunIsAccounted(p))'
<1>0. /\ TypeOK /\ TypeOK' /\ LaunchIsInStep
      /\ RecordIsRight(p) /\ RunIsAccounted(p)
      /\ None \notin RowStates \cup Controls \cup Answers /\ None \notin Runs
  BY TypeIsKept, NoneIsNoState, RunsAreFinite DEF LaunchInv
<1> USE DEF RecordIsRight, RunIsAccounted, LeftItsGroup, durable
<1>1. ASSUME NEW r \in Runs, BeginStart(r)
      PROVE  Kept
  <2>1. launch = NoLaunch /\ \A q \in Runs : launch.run # q
    BY <1>1, AtRest DEF BeginStart
  <2> QED BY <1>0, <1>1, <2>1 DEF BeginStart, TypeOK, Live, Executing, RowStates, Controls, Answers
<1>2. ASSUME NEW r \in Runs, FailPreparation(r) \/ FailResume(r)
      PROVE  Kept
  <2>1. launch'.run = launch.run
    BY <1>0, <1>2 DEF FailPreparation, FailResume, GoTo, TypeOK
  <2> QED BY <1>0, <1>2, <2>1 DEF FailPreparation, FailResume
<1>3. ASSUME NEW r \in Runs, Spawn(r)
      PROVE  Kept
  <2>1. launch'.run = launch.run /\ launch.run = r /\ LaunchOf(r)
    BY <1>0, <1>3, AtStep DEF Spawn, GoTo, TypeOK
  <2> QED BY <1>0, <1>3, <2>1
          DEF Spawn, TypeOK, LaunchOf, Live, Executing, Controls, RowStates, Answers, NewOwner
<1>4. ASSUME NEW r \in Runs, Identify(r) \/ FailIdentify(r)
      PROVE  Kept
  <2>0. /\ LaunchAt(r, "Identify")
        /\ UNCHANGED <<platform, row, bound, child, retries, answer, supervisor, crashes>>
        /\ control' = control \/ control' = [control EXCEPT ![r] = "Suspended"]
        /\ \A q \in Runs : q # r => owner'[q] = owner[q]
        /\ launch'.run = launch.run
    <3>1. launch' \in {[launch EXCEPT !.step = "Bind"], [launch EXCEPT !.step = "Terminate"]}
      BY <1>0, <1>4, IdentifyingChangesEvidence, Zenon DEF Identify, GoTo
    <3> QED BY <1>0, <1>4, <3>1, IdentifyingChangesEvidence DEF TypeOK
  <2>1. /\ launch.run = r /\ supervisor = "Serving" /\ child[r] \in {"SUSPENDED", "GONE"}
        /\ row[r] \in {"STARTING", "RUNNING"}
    BY <1>0, <2>0, AtStep DEF LaunchOf
  <2>2. control'[p] = control[p] \/ (p = r /\ control'[p] = "Suspended")
    BY <1>0, <2>0 DEF TypeOK
  <2> QED BY <1>0, <2>0, <2>1, <2>2 DEF Live, Executing
<1>5. ASSUME NEW r \in Runs, Bind(r)
      PROVE  Kept
  <2>1. /\ launch'.run = launch.run /\ launch.run = r
        /\ child[r] \in {"SUSPENDED", "GONE"}
    BY <1>0, <1>5, AtStep DEF Bind, GoTo, TypeOK, LaunchOf
  <2> QED BY <1>0, <1>5, <2>1 DEF Bind, TypeOK, Live, Executing
<1>6. ASSUME NEW r \in Runs, Resume(r)
      PROVE  Kept
  <2>1. /\ launch'.run = launch.run /\ launch.run = r /\ supervisor = "Serving"
        /\ LaunchOf(r) /\ launch.step = "Resume"
    BY <1>0, <1>6, AtStep DEF Resume, GoTo, TypeOK
  <2>2. /\ \A q \in Runs : owner'[q].assigned = owner[q].assigned
        /\ \A q \in Runs \ {r} : owner'[q] = owner[q]
    BY <1>0, <1>6, ResumptionIsTyped DEF Resume, TypeOK
  <2> QED BY <1>0, <1>6, <2>1, <2>2
          DEF Resume, TypeOK, LaunchOf, Live, Executing, RowStates, Answers, Controls
<1>7. ASSUME NEW r \in Runs, MarkRunning(r) \/ FailMarkRunning(r)
      PROVE  Kept
  <2>1. launch.run = r /\ supervisor = "Serving" /\ LaunchOf(r)
    BY <1>7, AtStep DEF MarkRunning, FailMarkRunning
  <2>2. CASE MarkRunning(r)
    BY <1>0, <2>1, <2>2 DEF MarkRunning, TypeOK, LaunchOf, NoLaunch, RowStates, Answers, Controls
  <2>3. CASE FailMarkRunning(r)
    <3>1. launch'.run = launch.run
      BY <1>0, <2>3 DEF FailMarkRunning, GoTo, TypeOK
    <3> QED BY <1>0, <2>1, <2>3, <3>1 DEF FailMarkRunning, TypeOK, LaunchOf, RowStates, Answers
  <2> QED BY <1>7, <2>2, <2>3
<1>8. ASSUME NEW r \in Runs, Terminate(r)
      PROVE  Kept
  <2>1. /\ launch'.run = launch.run /\ launch.run = r /\ supervisor = "Serving"
        /\ LaunchOf(r)
    BY <1>0, <1>8, AtStep DEF Terminate, GoTo, TypeOK
  <2>2. PICK x : /\ Possible(x, owner[r], child[r])
                 /\ owner' = [owner EXCEPT ![r] = x.owner]
                 /\ child' = [child EXCEPT ![r] = x.child]
    BY <1>0, <1>8, TerminationIsPossible DEF Terminate, TypeOK
  <2> QED BY <1>0, <1>8, <2>1, <2>2
          DEF Terminate, TypeOK, Possible, LaunchOf, RowStates, Controls, Answers
<1>9. ASSUME NEW r \in Runs, RecordFailed(r)
      PROVE  Kept
  <2>1. launch.run = r /\ supervisor = "Serving" /\ child[r] \in {"NONE", "GONE"} /\ LaunchOf(r)
    BY <1>9, AtStep DEF RecordFailed, LaunchOf
  <2> QED BY <1>0, <1>9, <2>1
          DEF RecordFailed, EndStarting, LaunchOf, TypeOK, NoLaunch, Live, Executing,
              RowStates, Controls, Answers
<1>10. ASSUME NEW r \in Runs, RecordPending(r)
       PROVE  Kept
  <2>1. launch.run = r /\ supervisor = "Serving" /\ LaunchOf(r)
    BY <1>10, AtStep DEF RecordPending
  <2> QED BY <1>0, <1>10, <2>1
          DEF RecordPending, EndStarting, LaunchOf, TypeOK, NoLaunch, RowStates, Controls, Answers
<1>11. ASSUME NEW r \in Runs, RetryCleanup(r)
       PROVE  Kept
  <2>1. CASE control[p] # "CleanupPending"
    <3>1. owner'[p] = owner[p] /\ child'[p] = child[p] /\ control'[p] = control[p]
      BY <1>0, <1>11, <2>1, RetryTreatsEachRun
    <3> QED BY <1>0, <1>11, <3>1 DEF RetryCleanup
  <2>2. CASE control[p] = "CleanupPending"
    <3>1. PICK x : /\ Possible(x, owner[p], child[p])
                   /\ owner'[p] = x.owner /\ child'[p] = x.child
                   /\ control'[p] = IF x.ok THEN None ELSE control[p]
      BY <1>0, <1>11, <2>2, RetryTreatsEachRun
    <3>2. supervisor = "Serving"
      BY <1>11 DEF RetryCleanup
    <3> QED BY <1>0, <1>11, <2>2, <3>1, <3>2
            DEF RetryCleanup, Possible, Live, Executing, RowStates, Controls, Answers
  <2> QED BY <2>1, <2>2
<1>12. ASSUME NEW r \in Runs, EndRun(r)
       PROVE  Kept
  <2>1. /\ supervisor = "Serving" /\ launch = NoLaunch
        /\ UNCHANGED <<platform, bound, child, owner, launch, answer, supervisor>>
        /\ control'[r] = None /\ row'[r] = "EXITED"
        /\ \A q \in Runs \ {r} : control'[q] = control[q] /\ row'[q] = row[q]
    BY <1>0, <1>12 DEF EndRun, TypeOK
  <2>2. child[r] = "GONE" \/ (row[r] = "RECOVERED" /\ child[r] = "STRAYED")
    BY <1>12 DEF EndRun, SeemsGone
  <2>3. CASE p # r
    BY <1>0, <2>1, <2>3
  <2>4. CASE p = r
    BY <1>0, <2>1, <2>2, <2>4 DEF Live, Executing, Controls, RowStates
  <2> QED BY <2>3, <2>4
<1>13. ASSUME NEW r \in Runs, ChildMoves(r)
       PROVE  Kept
  BY <1>0, <1>13 DEF ChildMoves, ChildStep, TypeOK, Live, Executing, World
<1>14. ASSUME NEW r \in Runs, Reconcile(r)
       PROVE  Kept
  <2>1. r \in Candidates /\ supervisor = "Reconciling"
    BY <1>14 DEF Reconcile
  <2>2. PICK outcome \in RowStates :
          /\ outcome # "FAILED"
          /\ child[r] \in Live => outcome \in {"RECOVERED", "ORPHANED"}
          /\ outcome = "RECOVERED" => platform = "macOS"
          /\ row' = [row EXCEPT ![r] = outcome]
          /\ control' = [control EXCEPT ![r] = IF outcome = "RECOVERED" THEN "Running" ELSE None]
    BY <1>14 DEF Reconcile, Probe, RowStates, Live, Executing
  <2>3. /\ UNCHANGED <<platform, bound, child, owner, launch, answer, supervisor>>
    BY <1>14 DEF Reconcile
  <2> QED BY <1>0, <2>1, <2>2, <2>3 DEF TypeOK, Candidates, Controls
<1>15. CASE Crash
  <2>1. launch' = NoLaunch /\ supervisor' = "Down" /\ control'[p] = None
        /\ UNCHANGED <<platform, row, bound, answer>>
        /\ child'[p] = AfterCrash(p) /\ ~owner'[p].resumed
    BY <1>15 DEF Crash, NewOwner
  <2> QED BY <1>0, <2>1, PlatformsAreKnown DEF AfterCrash, TypeOK, Live, Executing, Controls
<1>16. CASE Restart
  BY <1>0, <1>16 DEF Restart
<1>17. CASE Serve
  <2>1. p \in Candidates => control[p] = "Running"
    BY <1>0, <1>17 DEF Serve
  <2> QED BY <1>0, <1>17, <2>1 DEF Serve, Candidates
<1> QED BY <1>1, <1>2, <1>3, <1>4, <1>5, <1>6, <1>7, <1>8, <1>9, <1>10, <1>11, <1>12, <1>13, <1>14,
           <1>15, <1>16, <1>17 DEF Next

LEMMA LaunchStaysInStep ==
  ASSUME LaunchInv, Next
  PROVE  LaunchIsInStep'
<1>0. TypeOK /\ TypeOK' /\ LaunchIsInStep
  BY TypeIsKept DEF LaunchInv
<1> USE DEF LaunchOf, durable
<1>1. ASSUME NEW r \in Runs, BeginStart(r)
      PROVE  LaunchIsInStep'
  <2>1. launch = NoLaunch /\ child[r] = "NONE" /\ answer[r] = None
    BY <1>1, AtRest DEF BeginStart, LaunchInv, RecordIsRight
  <2>2. CASE launch' = launch
    BY <2>1, <2>2 DEF LaunchIsInStep, NoLaunch
  <2>3. CASE launch' = [run |-> r, step |-> "Prepare"] /\ answer' = answer
    BY <1>0, <1>1, <2>1, <2>3 DEF BeginStart, TypeOK, LaunchIsInStep, Steps
  <2> QED BY <1>1, <2>2, <2>3 DEF BeginStart
<1>2. ASSUME NEW r \in Runs,
             FailPreparation(r) \/ Spawn(r) \/ Bind(r) \/ Resume(r) \/ FailResume(r) \/ FailMarkRunning(r)
      PROVE  LaunchIsInStep'
  <2>1. supervisor = "Serving" /\ launch.run = r /\ LaunchOf(r)
    BY <1>2, AtStep DEF FailPreparation, Spawn, Bind, Resume, FailResume, FailMarkRunning
  <2>2. CASE FailPreparation(r)
    BY <1>0, <2>1, <2>2, AtStep DEF FailPreparation, GoTo, TypeOK, LaunchIsInStep, Steps
  <2>3. CASE Spawn(r)
    BY <1>0, <2>1, <2>3, AtStep DEF Spawn, GoTo, TypeOK, LaunchIsInStep, Steps
  <2>4. CASE Bind(r)
    BY <1>0, <2>1, <2>4, AtStep DEF Bind, GoTo, TypeOK, LaunchIsInStep, Steps
  <2>5. CASE Resume(r)
    BY <1>0, <2>1, <2>5, AtStep DEF Resume, GoTo, TypeOK, LaunchIsInStep, Steps
  <2>6. CASE FailResume(r)
    BY <1>0, <2>1, <2>6, AtStep DEF FailResume, GoTo, TypeOK, LaunchIsInStep, Steps
  <2>7. CASE FailMarkRunning(r)
    BY <1>0, <2>1, <2>7, AtStep DEF FailMarkRunning, GoTo, TypeOK, LaunchIsInStep, Steps
  <2> QED BY <1>2, <2>2, <2>3, <2>4, <2>5, <2>6, <2>7
<1>3. ASSUME NEW r \in Runs, Identify(r)
      PROVE  LaunchIsInStep'
  <2>1. supervisor = "Serving" /\ launch.run = r /\ LaunchOf(r) /\ launch.step = "Identify"
    BY <1>3, AtStep DEF Identify
  <2>2. platform = "Windows" => owner'[r].assigned
    <3>1. Assigned(r, TRUE)[r].assigned \/ platform # "Windows"
      BY <1>0, AssignmentIsTyped
    <3> QED BY <1>3, <3>1 DEF Identify
  <2> QED BY <1>0, <1>3, <2>1, <2>2 DEF Identify, GoTo, TypeOK, LaunchIsInStep, Steps
<1>4. ASSUME NEW r \in Runs, FailIdentify(r)
      PROVE  LaunchIsInStep'
  <2>1. /\ supervisor = "Serving" /\ launch.run = r /\ LaunchOf(r)
        /\ launch' = [launch EXCEPT !.step = "Terminate"]
        /\ UNCHANGED <<row, child, answer, supervisor>>
    <3>1. LaunchAt(r, "Identify") /\ launch' = [launch EXCEPT !.step = "Terminate"]
          /\ UNCHANGED <<row, child, answer, supervisor>>
      BY <1>4, Zenon DEF FailIdentify, GoTo
    <3> QED BY <3>1, AtStep
  <2> QED BY <1>0, <2>1 DEF TypeOK, LaunchIsInStep, Steps
<1>5. ASSUME NEW r \in Runs, Terminate(r)
      PROVE  LaunchIsInStep'
  <2>1. supervisor = "Serving" /\ launch.run = r /\ LaunchOf(r)
    BY <1>5, AtStep DEF Terminate
  <2>2. PICK x : /\ Possible(x, owner[r], child[r])
                 /\ child' = [child EXCEPT ![r] = x.child]
                 /\ GoTo(IF x.ok THEN "RecordFailed" ELSE "RecordPending")
    BY <1>0, <1>5, TerminationIsPossible DEF Terminate, TypeOK
  <2>3. x.ok => x.child = "GONE"
    BY <2>2 DEF Possible
  <2>4. /\ launch'.run = r /\ launch'.step \in {"RecordFailed", "RecordPending"}
        /\ launch'.step = "RecordFailed" => child'[r] = "GONE"
    BY <1>0, <2>1, <2>2, <2>3 DEF GoTo, TypeOK
  <2> QED BY <1>5, <2>1, <2>4 DEF Terminate, LaunchIsInStep, Steps
<1>6. ASSUME NEW r \in Runs, MarkRunning(r) \/ RecordFailed(r) \/ RecordPending(r)
      PROVE  LaunchIsInStep'
  BY <1>6 DEF MarkRunning, RecordFailed, RecordPending, LaunchIsInStep
<1>7. ASSUME NEW r \in Runs, RetryCleanup(r) \/ EndRun(r) \/ Reconcile(r)
      PROVE  LaunchIsInStep'
  <2>1. launch = NoLaunch /\ launch' = launch
    BY <1>7, AtRest DEF RetryCleanup, EndRun, Reconcile
  <2> QED BY <2>1 DEF LaunchIsInStep, NoLaunch
<1>8. ASSUME NEW r \in Runs, ChildMoves(r)
      PROVE  LaunchIsInStep'
  <2>1. PICK w : /\ child' = [child EXCEPT ![r] = w]
                 /\ child[r] # "NONE"
                 /\ child[r] \in {"SUSPENDED", "GONE"} => w = "GONE"
    BY <1>8 DEF ChildMoves, ChildStep
  <2> QED BY <1>0, <1>8, <2>1 DEF ChildMoves, LaunchIsInStep, TypeOK, NoLaunch
<1>9. CASE Crash
  BY <1>9 DEF Crash, LaunchIsInStep
<1>10. CASE Restart \/ Serve
  <2>1. launch = NoLaunch /\ launch' = launch
    BY <1>10, AtRest DEF Restart, Serve
  <2> QED BY <2>1 DEF LaunchIsInStep, NoLaunch
<1> QED BY <1>1, <1>2, <1>3, <1>4, <1>5, <1>6, <1>7, <1>8, <1>9, <1>10 DEF Next

(* No place is taken that was not taken or reserved before. *)
LEMMA FewerPlaces ==
  ASSUME LaunchInv, InUse' \subseteq InUse,
         supervisor' = "Serving" => Recoverable' \subseteq Held' \cup {launch'.run}
  PROVE  PlacesAreKept'
<1>1. IsFiniteSet(InUse)
  <2>1. InUse \subseteq Runs
    BY DEF InUse, Held, Recoverable, LaunchInv, TypeOK
  <2> QED BY <2>1, RunsAreFinite, FS_Subset
<1>2. IsFiniteSet(InUse') /\ Cardinality(InUse') <= Cardinality(InUse)
  BY <1>1, FS_Subset
<1>3. Cardinality(InUse) \in Nat /\ Cardinality(InUse') \in Nat /\ Capacity \in Nat
  BY <1>1, <1>2, FS_CardinalityType, LimitsArePositive
<1> QED BY <1>2, <1>3 DEF LaunchInv, PlacesAreKept

LEMMA PlacesStayKept ==
  ASSUME LaunchInv, Next
  PROVE  PlacesAreKept'
<1>0. /\ TypeOK /\ TypeOK' /\ None \notin RowStates \cup Controls /\ None \notin Runs
      /\ supervisor = "Serving" => Recoverable \subseteq Held \cup {launch.run}
  BY TypeIsKept, NoneIsNoState, RunsAreFinite DEF LaunchInv, PlacesAreKept
<1> USE DEF durable
<1>1. ASSUME NEW r \in Runs, BeginStart(r)
      PROVE  PlacesAreKept'
  <2>1. /\ supervisor = "Serving" /\ launch = NoLaunch /\ Cardinality(Held) < Capacity
        /\ Recoverable \subseteq Held
    BY <1>0, <1>1, AtRest DEF BeginStart, NoLaunch, Recoverable
  <2>2. /\ row' = [row EXCEPT ![r] = "STARTING"] /\ child' = child /\ row[r] = None
        /\ Held' \subseteq Held \cup {r} /\ Held \subseteq Held'
        /\ launch'.run \in {None, r}
    BY <1>0, <1>1, <2>1 DEF BeginStart, NoLaunch, Held, TypeOK, Controls
  <2>3. Recoverable' \subseteq Recoverable
    BY <1>0, <2>2 DEF Recoverable, TypeOK
  <2>4. InUse' \subseteq Held \cup {r}
    BY <2>1, <2>2, <2>3 DEF InUse
  <2>5. IsFiniteSet(Held) /\ Cardinality(Held) \in Nat
    BY RunsAreFinite, FS_Subset, FS_CardinalityType DEF Held
  <2>6. IsFiniteSet(Held \cup {r}) /\ Cardinality(Held \cup {r}) \in Nat
        /\ Cardinality(Held \cup {r}) <= Cardinality(Held) + 1
    <3>1. IsFiniteSet(Held \cup {r})
      BY <2>5, FS_AddElement, Zenon
    <3>2. Cardinality(Held \cup {r}) = IF r \in Held THEN Cardinality(Held) ELSE Cardinality(Held) + 1
      BY <2>5, FS_AddElement, Zenon
    <3>3. Cardinality(Held \cup {r}) \in Nat
      BY <3>1, FS_CardinalityType, Zenon
    <3> QED BY <2>5, <3>1, <3>2, <3>3
  <2>7. Cardinality(InUse') \in Nat /\ Cardinality(InUse') <= Cardinality(Held \cup {r})
    BY <2>4, <2>6, FS_Subset, FS_CardinalityType
  <2>8. Cardinality(InUse') <= Capacity
    BY <2>1, <2>5, <2>6, <2>7, LimitsArePositive
  <2> QED BY <2>1, <2>2, <2>3, <2>8 DEF PlacesAreKept
<1>2. ASSUME NEW r \in Runs, launch.run = r, supervisor' = supervisor,
             UNCHANGED row \/ (\E state : row' = [row EXCEPT ![r] = state]),
             UNCHANGED child \/ (\E w : child' = [child EXCEPT ![r] = w]),
             UNCHANGED control \/ (\E c : control' = [control EXCEPT ![r] = c]),
             \/ launch'.run = r
             \/ launch'.run = None /\ (control'[r] # None \/ child'[r] \in {"NONE", "GONE"})
      PROVE  PlacesAreKept'
  <2>1. \A p \in Runs \ {r} :
          row'[p] = row[p] /\ child'[p] = child[p] /\ control'[p] = control[p]
    BY <1>0, <1>2 DEF TypeOK
  <2>2. Recoverable' \subseteq Recoverable \cup {r} /\ Held' \subseteq Held \cup {r}
        /\ Held \subseteq Held' \cup {r}
    BY <2>1 DEF Recoverable, Held
  <2>3. launch'.run = r \/ (launch'.run = None /\ (r \in Held' \/ r \notin Recoverable'))
    BY <1>2 DEF Recoverable, Held
  <2>4. r \in InUse
    BY <1>0, <1>2 DEF InUse
  <2>5. InUse' \subseteq InUse
    BY <2>2, <2>3, <2>4 DEF InUse
  <2>6. supervisor' = "Serving" => Recoverable' \subseteq Held' \cup {launch'.run}
    BY <1>0, <1>2, <2>2, <2>3
  <2> QED BY <2>5, <2>6, FewerPlaces
<1>3. ASSUME NEW r \in Runs,
             FailPreparation(r) \/ Spawn(r) \/ Bind(r) \/ Resume(r) \/ FailResume(r) \/ FailMarkRunning(r)
      PROVE  PlacesAreKept'
  <2>1. launch.run = r /\ launch'.run = r
    BY <1>0, <1>3, AtStep
       DEF FailPreparation, Spawn, Bind, Resume, FailResume, FailMarkRunning, GoTo, TypeOK
  <2> QED BY <1>2, <1>3, <2>1
          DEF FailPreparation, Spawn, Bind, Resume, FailResume, FailMarkRunning
<1>4. ASSUME NEW r \in Runs, Identify(r) \/ FailIdentify(r)
      PROVE  PlacesAreKept'
  <2>1. launch.run = r /\ launch'.run = r
    <3>1. launch' \in {[launch EXCEPT !.step = "Bind"], [launch EXCEPT !.step = "Terminate"]}
      BY <1>0, <1>4, IdentifyingChangesEvidence, Zenon DEF Identify, GoTo
    <3> QED BY <1>0, <1>4, <3>1, IdentifyingChangesEvidence, AtStep DEF TypeOK
  <2> QED BY <1>0, <1>2, <1>4, <2>1, IdentifyingChangesEvidence
<1>5. ASSUME NEW r \in Runs, Terminate(r)
      PROVE  PlacesAreKept'
  <2>1. launch.run = r /\ launch'.run = r
    BY <1>0, <1>5, AtStep DEF Terminate, GoTo, TypeOK
  <2> QED BY <1>2, <1>5, <2>1 DEF Terminate
<1>6. ASSUME NEW r \in Runs, MarkRunning(r) \/ RecordFailed(r) \/ RecordPending(r)
      PROVE  PlacesAreKept'
  <2>1. launch.run = r /\ launch'.run = None
    BY <1>6, AtStep DEF MarkRunning, RecordFailed, RecordPending, NoLaunch
  <2>2. control'[r] # None \/ child'[r] \in {"NONE", "GONE"}
    BY <1>0, <1>6, AtStep
       DEF MarkRunning, RecordFailed, RecordPending, LaunchOf, Controls, TypeOK
  <2> QED BY <1>2, <1>6, <2>1, <2>2 DEF MarkRunning, RecordFailed, RecordPending, EndStarting
<1>7. ASSUME NEW r \in Runs, RetryCleanup(r)
      PROVE  PlacesAreKept'
  <2>1. UNCHANGED <<row, launch, supervisor>>
    BY <1>7 DEF RetryCleanup
  <2>2. ASSUME NEW p \in Runs
        PROVE  /\ p \in Held' => p \in Held
               /\ p \in Recoverable' => p \in Held' \/ (p \in Recoverable /\ p \notin Held)
    <3>1. CASE control'[p] = control[p] /\ child'[p] = child[p]
      BY <2>1, <3>1 DEF Held, Recoverable
    <3>2. CASE control[p] = "CleanupPending" /\ control'[p] = None /\ child'[p] = "GONE"
      BY <3>2 DEF Held, Recoverable
    <3>3. CASE control[p] = "CleanupPending" /\ control'[p] = control[p]
      BY <1>0, <3>3 DEF Held, Recoverable, Controls
    <3> QED BY <1>0, <1>7, <3>1, <3>2, <3>3, RetryTreatsEachRun DEF Possible
  <2>3. InUse' \subseteq InUse
    BY <2>1, <2>2 DEF InUse, Held, Recoverable
  <2>4. supervisor' = "Serving" => Recoverable' \subseteq Held' \cup {launch'.run}
    BY <1>0, <2>1, <2>2 DEF Recoverable
  <2> QED BY <2>3, <2>4, FewerPlaces
<1>8. ASSUME NEW r \in Runs, EndRun(r)
      PROVE  PlacesAreKept'
  <2>1. /\ Held' \subseteq Held /\ Held \subseteq Held' \cup {r} /\ r \notin Recoverable'
        /\ Recoverable' \subseteq Recoverable /\ launch' = launch /\ supervisor' = supervisor
    BY <1>0, <1>8 DEF EndRun, Held, Recoverable, TypeOK
  <2> QED BY <1>0, <2>1, FewerPlaces DEF InUse
<1>9. ASSUME NEW r \in Runs, ChildMoves(r)
      PROVE  PlacesAreKept'
  <2>1. child[r] \notin {"NONE", "GONE"} /\ \A p \in Runs \ {r} : child'[p] = child[p]
    BY <1>0, <1>9 DEF ChildMoves, ChildStep, TypeOK
  <2>2. Held' = Held /\ Recoverable' \subseteq Recoverable
        /\ launch' = launch /\ supervisor' = supervisor
    BY <1>9, <2>1 DEF ChildMoves, Held, Recoverable
  <2> QED BY <1>0, <2>2, FewerPlaces DEF InUse
<1>10. ASSUME NEW r \in Runs, Reconcile(r)
       PROVE  PlacesAreKept'
  <2>0. PICK probed \in IF bound[r] THEN Probe(r) ELSE {"ORPHANED"} :
          LET result == IF probed = "RECOVERED" /\ row[r] = "STARTING" THEN "ORPHANED" ELSE probed
          IN  /\ row' = [row EXCEPT ![r] = result]
              /\ control' = [control EXCEPT ![r] = IF result = "RECOVERED" THEN "Running" ELSE None]
    BY <1>10 DEF Reconcile
  <2>1. PICK outcome :
          /\ outcome = IF probed = "RECOVERED" /\ row[r] = "STARTING" THEN "ORPHANED" ELSE probed
          /\ row' = [row EXCEPT ![r] = outcome]
          /\ control' = [control EXCEPT ![r] = IF outcome = "RECOVERED" THEN "Running" ELSE None]
    BY <2>0
  <2>2. /\ r \in Candidates /\ supervisor = "Reconciling"
        /\ UNCHANGED <<child, launch, supervisor>>
    BY <1>10 DEF Reconcile
  <2>3. outcome # "RUNNING" /\ (outcome = "RECOVERED" => r \in Recoverable)
    BY <2>0, <2>1, <2>2 DEF Probe, Candidates, Recoverable
  <2>4. Held' \subseteq Held \cup {r} /\ (r \in Held' => r \in Recoverable)
    <3>1. control'[r] # None => outcome = "RECOVERED"
      BY <1>0, <2>1 DEF TypeOK
    <3>2. \A p \in Runs \ {r} : control'[p] = control[p]
      BY <1>0, <2>1 DEF TypeOK
    <3> QED BY <2>3, <3>1, <3>2 DEF Held
  <2>5. Recoverable' \subseteq Recoverable
    <3>1. row'[r] = outcome /\ \A p \in Runs \ {r} : row'[p] = row[p]
      BY <1>0, <2>1 DEF TypeOK
    <3> QED BY <2>2, <2>3, <3>1 DEF Recoverable
  <2>6. InUse' \subseteq InUse
    BY <2>2, <2>4, <2>5 DEF InUse
  <2> QED BY <2>2, <2>6, FewerPlaces
<1>11. CASE Crash
  <2>1. supervisor' = "Down" /\ Held' = {} /\ launch'.run = None
    BY <1>11 DEF Crash, Held, NoLaunch
  <2>2. Recoverable' \subseteq Recoverable
    BY <1>11 DEF Crash, Recoverable, AfterCrash, Live, Executing
  <2>3. InUse' \subseteq InUse
    BY <2>1, <2>2 DEF InUse
  <2> QED BY <2>1, <2>3, FewerPlaces
<1>12. CASE Restart \/ Serve
  <2>1. InUse' = InUse /\ Held' = Held /\ Recoverable' = Recoverable
    BY <1>12 DEF Restart, Serve, InUse, Held, Recoverable
  <2>2. Serve => Recoverable \subseteq Held
    BY DEF Serve, Recoverable, Candidates, Held
  <2> QED BY <1>12, <2>1, <2>2, FewerPlaces DEF Restart, Serve
<1> QED BY <1>1, <1>3, <1>4, <1>5, <1>6, <1>7, <1>8, <1>9, <1>10, <1>11, <1>12 DEF Next

------------------------------------------------------------
LEMMA LaunchInvariance == Spec => []LaunchInv
<1>1. Init => LaunchInv
  <2> SUFFICES ASSUME Init PROVE LaunchInv
    OBVIOUS
  <2>1. TypeOK
    BY CrashesAreBounded, LimitsArePositive
       DEF Init, TypeOK, World, NewOwner, Owner, NoLaunch
  <2>2. Held = {} /\ Recoverable = {} /\ launch.run = None /\ LaunchIsInStep
    BY DEF Init, Held, Recoverable, NoLaunch, LaunchIsInStep
  <2>3. InUse = {}
    BY <2>2 DEF InUse
  <2>4. PlacesAreKept
    BY <2>2, <2>3, FS_EmptySet, LimitsArePositive DEF PlacesAreKept
  <2>5. \A r \in Runs : RecordIsRight(r) /\ RunIsAccounted(r)
    BY NoneIsNoState
       DEF Init, RecordIsRight, RunIsAccounted, Live, Executing, RowStates, Controls, Answers, NewOwner
  <2> QED BY <2>1, <2>2, <2>4, <2>5 DEF LaunchInv
<1>2. LaunchInv /\ [Next]_vars => LaunchInv'
  <2>1. LaunchInv /\ Next => LaunchInv'
    BY TypeIsKept, RunsStayAccounted, LaunchStaysInStep, PlacesStayKept DEF LaunchInv
  <2>2. LaunchInv /\ UNCHANGED vars => LaunchInv'
    BY DEF LaunchInv, vars, TypeOK, LaunchIsInStep, LaunchOf, PlacesAreKept, InUse, Held,
           Recoverable, RecordIsRight, RunIsAccounted, LeftItsGroup
  <2> QED BY <2>1, <2>2
<1> QED BY <1>1, <1>2, PTL DEF Spec

(* No write that fails or is lost and no crash lets a program run before *)
(* its process identity is stored, or on Windows outside of its job.     *)
THEOREM CodeRunsOnRecord == Spec => []CodeNeedsDurableIdentity
<1>1. LaunchInv => CodeNeedsDurableIdentity
  BY DEF LaunchInv, RunIsAccounted, CodeNeedsDurableIdentity
<1> QED BY <1>1, LaunchInvariance, PTL

(* However often launches fail at whatever step and the Supervisor dies,  *)
(* no process is left that nobody accounts for, a failed launch leaves    *)
(* none, and the table of controls never outgrows its capacity: a launch  *)
(* that lost its control and the runs a restart will take back keep their *)
(* places.                                                                *)
THEOREM NoProcessIsLost == Spec => []ProcessesAreAccounted
<1>1. LaunchInv => ProcessesAreAccounted
  <2> SUFFICES ASSUME LaunchInv PROVE ProcessesAreAccounted
    OBVIOUS
  <2>1. \A r \in Runs : RunIsAccounted(r)
    BY DEF LaunchInv
  <2>2. Cardinality(Held) <= Capacity
    <3>1. InUse \subseteq Runs /\ Held \subseteq InUse
      BY DEF InUse, Held, Recoverable, LaunchInv, TypeOK
    <3>2. IsFiniteSet(InUse)
      BY <3>1, RunsAreFinite, FS_Subset
    <3>3. IsFiniteSet(Held) /\ Cardinality(Held) <= Cardinality(InUse)
      BY <3>1, <3>2, FS_Subset
    <3>4. Cardinality(Held) \in Nat /\ Cardinality(InUse) \in Nat /\ Capacity \in Nat
      BY <3>2, <3>3, FS_CardinalityType, LimitsArePositive
    <3> QED BY <3>3, <3>4 DEF LaunchInv, PlacesAreKept
  <2> QED BY <2>1, <2>2 DEF ProcessesAreAccounted, RunIsAccounted
<1> QED BY <1>1, LaunchInvariance, PTL

------------------------------------------------------------
(* The calendar in which the rows of the runs are stamped.  Inside an era *)
(* of 400 years the years start in March, so that a leap day is the last  *)
(* of its year.                                                           *)

LEMMA Quotients ==
  ASSUME NEW n \in Int
  PROVE  /\ n \div 4 \in Int /\ 4 * (n \div 4) <= n /\ n < 4 * (n \div 4) + 4
         /\ n \div 5 \in Int /\ 5 * (n \div 5) <= n /\ n < 5 * (n \div 5) + 5
         /\ n \div 100 \in Int /\ 100 * (n \div 100) <= n /\ n < 100 * (n \div 100) + 100
         /\ n \div 153 \in Int /\ 153 * (n \div 153) <= n /\ n < 153 * (n \div 153) + 153
BY SMT

LEMMA LongQuotients ==
  ASSUME NEW n \in Int
  PROVE  /\ n \div 365 \in Int /\ 365 * (n \div 365) <= n /\ n < 365 * (n \div 365) + 365
         /\ n \div 1460 \in Int /\ 1460 * (n \div 1460) <= n /\ n < 1460 * (n \div 1460) + 1460
         /\ n \div 36524 \in Int
         /\ 36524 * (n \div 36524) <= n /\ n < 36524 * (n \div 36524) + 36524
         /\ n \div 146096 \in Int
         /\ 146096 * (n \div 146096) <= n /\ n < 146096 * (n \div 146096) + 146096
BY SMT

LEMMA Remainders ==
  ASSUME NEW n \in Int
  PROVE  /\ n \div 146097 \in Int /\ n % 146097 \in Int
         /\ n = 146097 * (n \div 146097) + (n % 146097)
         /\ 0 <= n % 146097 /\ n % 146097 < 146097
BY SMT

YearOfEra(n) == (n - n \div 1460 + n \div 36524 - n \div 146096) \div 365
StartOf(y)   == 365 * y + y \div 4 - y \div 100

(* Year y of an era, which ends with the February of the next. *)
IsLong(y)   == LeapYear(y + 1)
LengthOf(y) == IF IsLong(y) THEN 366 ELSE 365

MonthPrime(x) == (5 * x + 2) \div 153
DayOfMonth(x) == x - (153 * MonthPrime(x) + 2) \div 5 + 1
MonthOf(x)    == IF MonthPrime(x) < 10 THEN MonthPrime(x) + 3 ELSE MonthPrime(x) - 9

Civil(era, y, x) ==
  [year |-> y + 400 * era + (IF MonthOf(x) <= 2 THEN 1 ELSE 0), month |-> MonthOf(x),
   day |-> DayOfMonth(x)]

CivilOfEra(era, n) == Civil(era, YearOfEra(n), n - StartOf(YearOfEra(n)))

EraOf(d)    == (d + 719468) \div 146097
DayInEra(d) == (d + 719468) % 146097

LEMMA CivilOfDay ==
  ASSUME NEW d \in Int
  PROVE  CivilFromDays(d) = CivilOfEra(EraOf(d), DayInEra(d))
BY SMTT(30) DEF CivilFromDays, CivilOfEra, EraOf, DayInEra, Civil, YearOfEra, StartOf,
       MonthPrime, DayOfMonth, MonthOf

InEra(d, era, k) == d + 719468 = 146097 * era + k /\ 0 <= k /\ k < 146097

LEMMA WhichEra ==
  ASSUME NEW d \in Int, NEW era \in Int, NEW k \in Int, InEra(d, era, k)
  PROVE  EraOf(d) = era /\ DayInEra(d) = k
<1>1. PICK s \in Int : s = d + 719468 /\ s = 146097 * era + k /\ 0 <= k /\ k < 146097
  BY DEF InEra
<1>2. PICK a \in Int, b \in Int :
        a = s \div 146097 /\ b = s % 146097 /\ s = 146097 * a + b /\ 0 <= b /\ b < 146097
  BY Remainders
<1>3. a = era /\ b = k
  BY <1>1, <1>2, SMT
<1> QED BY <1>1, <1>2, <1>3, SMT DEF EraOf, DayInEra

(* The year the formula finds is the one that contains the day. *)
LEMMA YearContainsDay ==
  ASSUME NEW n \in Int, 0 <= n, n < 146097
  PROVE  LET y == YearOfEra(n) IN
         /\ y \in Int /\ 0 <= y /\ y < 400 /\ StartOf(y) \in Int /\ StartOf(y) <= n
         /\ (y = 399 /\ n <= StartOf(y) + 365) \/ n < StartOf(y + 1)
<1>1. PICK a \in Int : a = n \div 1460 /\ 1460 * a <= n /\ n < 1460 * a + 1460
  BY LongQuotients
<1>2. PICK b \in Int : b = n \div 36524 /\ 36524 * b <= n /\ n < 36524 * b + 36524
  BY LongQuotients
<1>3. PICK e \in Int : e = n \div 146096 /\ 146096 * e <= n /\ n < 146096 * e + 146096
  BY LongQuotients
<1>4. PICK m \in Int : m = n - a + b - e
  OBVIOUS
<1>5. PICK y \in Int : y = m \div 365 /\ 365 * y <= m /\ m < 365 * y + 365
  BY LongQuotients
<1>6. y = YearOfEra(n)
  BY <1>1, <1>2, <1>3, <1>4, <1>5 DEF YearOfEra
<1>7. PICK f \in Int : f = y \div 4 /\ 4 * f <= y /\ y < 4 * f + 4
  BY Quotients
<1>8. PICK h \in Int : h = y \div 100 /\ 100 * h <= y /\ y < 100 * h + 100
  BY Quotients
<1>9. PICK z \in Int : z = y + 1
  OBVIOUS
<1>10. PICK i \in Int : i = z \div 4 /\ 4 * i <= z /\ z < 4 * i + 4
  BY Quotients
<1>11. PICK j \in Int : j = z \div 100 /\ 100 * j <= z /\ z < 100 * j + 100
  BY Quotients, SMTT(30)
<1>12. StartOf(y) = 365 * y + f - h /\ StartOf(z) = 365 * z + i - j
  BY <1>7, <1>8, <1>10, <1>11, SMTT(30) DEF StartOf
<1>13. /\ 1460 * a <= n /\ n < 1460 * a + 1460 /\ 36524 * b <= n /\ n < 36524 * b + 36524
       /\ 146096 * e <= n /\ n < 146096 * e + 146096
       /\ 365 * y <= m /\ m < 365 * y + 365
       /\ 4 * f <= y /\ y < 4 * f + 4 /\ 100 * h <= y /\ y < 100 * h + 100
       /\ 4 * i <= z /\ z < 4 * i + 4 /\ 100 * j <= z /\ z < 100 * j + 100
  BY <1>1, <1>2, <1>3, <1>5, <1>7, <1>8, <1>10, <1>11, SMTT(30)
<1>14. 0 <= b /\ b <= 4 /\ 0 <= e /\ e <= 1
  BY ONLY n \in Int, 0 <= n, n < 146097, <1>13, SMT
<1>15. 0 <= y /\ y < 400
  BY ONLY n \in Int, 0 <= n, n < 146097, <1>4, <1>13, <1>14, SMTT(60)
<1>16. 365 * y + f - h <= n
  BY ONLY n \in Int, 0 <= n, n < 146097, <1>4, <1>13, <1>14, <1>15, SMTT(60)
<1>17. \/ y = 399 /\ n <= 365 * y + f - h + 365
       \/ n < 365 * z + i - j
  BY ONLY n \in Int, 0 <= n, n < 146097, <1>4, <1>9, <1>13, <1>14, <1>15, SMTT(60)
<1>18. 365 * y + f - h \in Int
  BY SMTT(30)
<1> QED BY <1>6, <1>9, <1>12, <1>15, <1>16, <1>17, <1>18, SMTT(30)

(* The years of an era join. *)
LEMMA YearsJoin ==
  ASSUME NEW y \in Int, 0 <= y, y < 400
  PROVE  /\ StartOf(y) \in Int
         /\ y < 399 => StartOf(y + 1) = StartOf(y) + LengthOf(y)
         /\ y = 399 => StartOf(y) = 145731 /\ LengthOf(y) = 366
<1>1. PICK f \in Int : f = y \div 4 /\ 4 * f <= y /\ y < 4 * f + 4
  BY Quotients
<1>2. PICK h \in Int : h = y \div 100 /\ 100 * h <= y /\ y < 100 * h + 100
  BY Quotients
<1>3. PICK z \in Int : z = y + 1
  OBVIOUS
<1>4. PICK i \in Int : i = z \div 4 /\ 4 * i <= z /\ z < 4 * i + 4
  BY Quotients
<1>5. PICK j \in Int : j = z \div 100 /\ 100 * j <= z /\ z < 100 * j + 100
  BY Quotients
<1>6. StartOf(y) = 365 * y + f - h /\ StartOf(z) = 365 * z + i - j
  BY <1>1, <1>2, <1>4, <1>5 DEF StartOf
<1>7. (z % 4 = 0 <=> z = 4 * i) /\ (z % 100 = 0 <=> z = 100 * j)
  BY <1>4, <1>5, SMT
<1>8. (z % 400 = 0) <=> (z = 400)
  BY <1>3, SMT
<1>9. IsLong(y) <=> z = 400 \/ (z = 4 * i /\ z # 100 * j)
  BY <1>3, <1>7, <1>8 DEF IsLong, LeapYear
<1>10. CASE y = 399
  <2>1. f = 99 /\ h = 3
    BY <1>1, <1>2, <1>10
  <2> QED BY <1>3, <1>6, <1>9, <1>10, <2>1, SMTT(30) DEF LengthOf
<1>11. CASE y < 399
  <2>1. CASE z = 4 * i /\ z = 100 * j
    <3>1. i = f + 1 /\ j = h + 1
      BY <1>1, <1>2, <1>3, <1>4, <1>5, <2>1
    <3> QED BY <1>3, <1>6, <1>9, <1>11, <2>1, <3>1, SMTT(30) DEF LengthOf
  <2>2. CASE z = 4 * i /\ z # 100 * j
    <3>1. i = f + 1 /\ j = h
      BY <1>1, <1>2, <1>3, <1>4, <1>5, <2>2
    <3> QED BY <1>3, <1>6, <1>9, <1>11, <2>2, <3>1, SMTT(30) DEF LengthOf
  <2>3. CASE z # 4 * i
    <3>1. i = f
      BY <1>1, <1>3, <1>4, <2>3
    <3>2. z # 100 * j
      BY <1>4, <1>5, <2>3
    <3>3. j = h
      BY <1>2, <1>3, <1>5, <3>2
    <3> QED BY <1>3, <1>6, <1>9, <1>11, <2>3, <3>1, <3>3, SMTT(30) DEF LengthOf
  <2> QED BY <2>1, <2>2, <2>3, SMTT(30)
<1> QED BY <1>6, <1>10, <1>11, SMTT(30)
LEMMA StartsAreOrdered ==
  ASSUME NEW v \in Int, NEW w \in Int, 0 <= v, v < w, w < 400
  PROVE  StartOf(v) + LengthOf(v) <= StartOf(w)
<1>1. PICK u \in Int : u = v + 1
  OBVIOUS
<1>2. PICK f \in Int : f = u \div 4 /\ 4 * f <= u /\ u < 4 * f + 4
  BY Quotients
<1>3. PICK h \in Int : h = u \div 100 /\ 100 * h <= u /\ u < 100 * h + 100
  BY Quotients
<1>4. PICK i \in Int : i = w \div 4 /\ 4 * i <= w /\ w < 4 * i + 4
  BY Quotients
<1>5. PICK j \in Int : j = w \div 100 /\ 100 * j <= w /\ w < 100 * j + 100
  BY Quotients
<1>6. StartOf(u) = 365 * u + f - h /\ StartOf(w) = 365 * w + i - j
  BY <1>2, <1>3, <1>4, <1>5 DEF StartOf
<1>7. StartOf(u) = StartOf(v) + LengthOf(v)
  BY <1>1, YearsJoin, SMTT(30)
<1>8. 365 * u + f - h <= 365 * w + i - j
  BY <1>1, <1>2, <1>3, <1>4, <1>5
<1> QED BY <1>6, <1>7, <1>8

(* The day after a day of an era, in the same year or in the next. *)
NotLastOfEra(n) == 0 <= n /\ n < 146096
YearGoesOn(y, x, l, k) ==
  /\ x + 1 < l => YearOfEra(k) = y /\ k - StartOf(YearOfEra(k)) = x + 1
  /\ x + 1 >= l => x + 1 = l /\ YearOfEra(k) = y + 1 /\ k - StartOf(YearOfEra(k)) = 0
DayFollows(n) ==
  YearGoesOn(YearOfEra(n), n - StartOf(YearOfEra(n)), LengthOf(YearOfEra(n)), n + 1)

LEMMA NextDayOfEra ==
  ASSUME NEW n \in Int, NotLastOfEra(n)
  PROVE  DayFollows(n)
<1> SUFFICES ASSUME 0 <= n, n < 146096 PROVE DayFollows(n)
  BY SMTT(30) DEF NotLastOfEra
<1> USE DEF DayFollows, YearGoesOn
<1>1. PICK y \in Int : y = YearOfEra(n)
  BY YearContainsDay, SMTT(30)
<1>2. PICK s \in Int : s = StartOf(y)
  BY <1>1, YearContainsDay, SMTT(30)
<1>3. /\ 0 <= y /\ y < 400 /\ s <= n
      /\ (y = 399 /\ n <= s + 365) \/ n < StartOf(y + 1)
  BY <1>1, <1>2, YearContainsDay, SMTT(30)
<1>4. PICK k \in Int : k = n + 1 /\ 0 <= k /\ k < 146097
  BY SMTT(30)
<1>5. PICK z \in Int : z = YearOfEra(k)
  BY <1>4, YearContainsDay, SMTT(30)
<1>6. PICK t \in Int : t = StartOf(z)
  BY <1>4, <1>5, YearContainsDay, SMTT(30)
<1>7. /\ 0 <= z /\ z < 400 /\ t <= k
      /\ (z = 399 /\ k <= t + 365) \/ k < StartOf(z + 1)
  BY <1>4, <1>5, <1>6, YearContainsDay, SMTT(30)
<1>8. PICK l \in Int : l = LengthOf(y) /\ (l = 365 \/ l = 366)
  BY SMTT(30) DEF LengthOf
<1>9. PICK m \in Int : m = LengthOf(z) /\ (m = 365 \/ m = 366)
  BY SMTT(30) DEF LengthOf
<1>10. /\ y < 399 => StartOf(y + 1) = s + l
       /\ y = 399 => s = 145731 /\ l = 366
       /\ z < 399 => StartOf(z + 1) = t + m
       /\ z = 399 => t = 145731 /\ m = 366
  BY <1>2, <1>3, <1>6, <1>7, <1>8, <1>9, YearsJoin, SMTT(30)
<1>11. n < s + l /\ k < t + m
  <2>1. CASE y = 399 \/ z = 399
    BY <1>3, <1>4, <1>7, <1>8, <1>9, <1>10, <2>1, SMT
  <2>2. CASE y < 399 /\ z < 399
    BY <1>3, <1>7, <1>8, <1>9, <1>10, <2>2, SMT
  <2> QED BY <1>3, <1>7, <2>1, <2>2, SMT
<1>12. ASSUME NEW v \in Int, NEW w \in Int, 0 <= v, v < w, w < 400
       PROVE  StartOf(v) + LengthOf(v) <= StartOf(w)
  BY <1>12, StartsAreOrdered, SMTT(30)
<1>13. CASE k < s + l
  <2>1. ~ y < z
    BY <1>2, <1>3, <1>6, <1>7, <1>8, <1>12, <1>13, SMT
  <2>2. ~ z < y
    BY <1>2, <1>3, <1>4, <1>6, <1>7, <1>9, <1>11, <1>12, SMT
  <2>3. z = y /\ t = s
    BY <1>2, <1>6, <2>1, <2>2, SMT
  <2> QED BY <1>1, <1>2, <1>4, <1>5, <1>6, <1>8, <1>13, <2>3, SMT
<1>14. CASE k >= s + l
  <2>1. k = s + l
    BY <1>4, <1>11, <1>14, SMT
  <2>2. y < 399
    BY <1>3, <1>4, <1>10, <2>1, SMT
  <2>3. PICK v \in Int : v = y + 1 /\ StartOf(v) = k
    BY <1>10, <2>1, <2>2, SMTT(30)
  <2>4. ~ z < v
    BY <1>3, <1>4, <1>6, <1>7, <1>9, <1>11, <1>12, <2>2, <2>3, SMT
  <2>5. ~ v < z
    <3>1. SUFFICES ASSUME v < z PROVE FALSE
      BY SMTT(30)
    <3>2. PICK o \in Int : o = LengthOf(v) /\ o > 0
      BY SMTT(30) DEF LengthOf
    <3>3. StartOf(v) + LengthOf(v) <= StartOf(z)
      BY <1>3, <1>7, <1>12, <2>3, <3>1, SMT
    <3> QED BY <1>4, <1>6, <1>7, <2>3, <3>2, <3>3, SMT
  <2>6. z = v /\ t = k
    BY <1>6, <2>3, <2>4, <2>5, SMT
  <2> QED BY <1>1, <1>2, <1>4, <1>5, <1>6, <1>8, <2>1, <2>3, <2>6, SMT
<1> QED BY <1>1, <1>2, <1>4, <1>8, <1>13, <1>14, SMT

(* The months of a year that starts in March: their first days. *)
LEMMA DayOfYearSplits ==
  ASSUME NEW x \in Int, 0 <= x, x < 366
  PROVE  LET p == MonthPrime(x) IN
         /\ p \in Int /\ 0 <= p /\ p < 12 /\ DayOfMonth(x) \in Int
         /\ p = 0 => x <= 30 /\ DayOfMonth(x) = x + 1
         /\ p = 1 => 31 <= x /\ x <= 60 /\ DayOfMonth(x) = x - 30
         /\ p = 2 => 61 <= x /\ x <= 91 /\ DayOfMonth(x) = x - 60
         /\ p = 3 => 92 <= x /\ x <= 121 /\ DayOfMonth(x) = x - 91
         /\ p = 4 => 122 <= x /\ x <= 152 /\ DayOfMonth(x) = x - 121
         /\ p = 5 => 153 <= x /\ x <= 183 /\ DayOfMonth(x) = x - 152
         /\ p = 6 => 184 <= x /\ x <= 213 /\ DayOfMonth(x) = x - 183
         /\ p = 7 => 214 <= x /\ x <= 244 /\ DayOfMonth(x) = x - 213
         /\ p = 8 => 245 <= x /\ x <= 274 /\ DayOfMonth(x) = x - 244
         /\ p = 9 => 275 <= x /\ x <= 305 /\ DayOfMonth(x) = x - 274
         /\ p = 10 => 306 <= x /\ x <= 336 /\ DayOfMonth(x) = x - 305
         /\ p = 11 => 337 <= x /\ DayOfMonth(x) = x - 336
<1>1. PICK k \in Int : k = 5 * x + 2
  OBVIOUS
<1>2. PICK p \in Int : p = k \div 153 /\ 153 * p <= k /\ k < 153 * p + 153
  BY Quotients
<1>3. PICK l \in Int : l = 153 * p + 2
  OBVIOUS
<1>4. PICK q \in Int : q = l \div 5 /\ 5 * q <= l /\ l < 5 * q + 5
  BY Quotients
<1>5. p = MonthPrime(x) /\ DayOfMonth(x) = x - q + 1
  BY <1>1, <1>2, <1>3, <1>4 DEF MonthPrime, DayOfMonth
<1>6. 0 <= p /\ p < 12
  BY <1>1, <1>2, SMT
<1>7. /\ p = 0 => x <= 30 /\ q = 0
      /\ p = 1 => 31 <= x /\ x <= 60 /\ q = 31
      /\ p = 2 => 61 <= x /\ x <= 91 /\ q = 61
      /\ p = 3 => 92 <= x /\ x <= 121 /\ q = 92
      /\ p = 4 => 122 <= x /\ x <= 152 /\ q = 122
      /\ p = 5 => 153 <= x /\ x <= 183 /\ q = 153
  BY <1>1, <1>2, <1>3, <1>4, SMT
<1>8. /\ p = 6 => 184 <= x /\ x <= 213 /\ q = 184
      /\ p = 7 => 214 <= x /\ x <= 244 /\ q = 214
      /\ p = 8 => 245 <= x /\ x <= 274 /\ q = 245
      /\ p = 9 => 275 <= x /\ x <= 305 /\ q = 275
      /\ p = 10 => 306 <= x /\ x <= 336 /\ q = 306
      /\ p = 11 => 337 <= x /\ q = 337
  BY <1>1, <1>2, <1>3, <1>4, SMT
<1> QED BY <1>5, <1>6, <1>7, <1>8, SMT

(* The date of a day of a year, and how long its month is. *)
MonthLength(y, p) ==
  IF p = 11 THEN LengthOf(y) - 337 ELSE IF p \in {1, 3, 6, 8} THEN 30 ELSE 31

LEMMA EraKeepsLeapYears ==
  ASSUME NEW era \in Int, NEW y \in Int, 0 <= y, y < 400
  PROVE  LeapYear(y + 400 * era + 1) = LeapYear(y + 1)
<1>1. PICK u \in Int : u = y + 1
  OBVIOUS
<1>2. PICK v \in Int : v = y + 400 * era + 1 /\ v = u + 400 * era
  BY <1>1
<1>3. (v % 4 = 0) = (u % 4 = 0)
  BY <1>2, SMT
<1>4. (v % 100 = 0) = (u % 100 = 0)
  BY <1>2, SMT
<1>5. (v % 400 = 0) = (u % 400 = 0)
  BY <1>2, SMT
<1> QED BY <1>1, <1>2, <1>3, <1>4, <1>5 DEF LeapYear

LEMMA DaysOfCivil ==
  ASSUME NEW era \in Int, NEW y \in Int, 0 <= y, y < 400,
         NEW x \in Int, 0 <= x, x < LengthOf(y)
  PROVE  LET date == Civil(era, y, x)
             p    == MonthPrime(x)
         IN /\ date.month \in 1..12 /\ date.day \in Int /\ 1 <= date.day
            /\ DaysInMonth(date.year, date.month) = MonthLength(y, p)
            /\ date.day <= MonthLength(y, p)
            /\ date.day < MonthLength(y, p) /\ x + 1 < LengthOf(y) => MonthPrime(x + 1) = p
            /\ date.day = MonthLength(y, p) /\ x + 1 < LengthOf(y) => MonthPrime(x + 1) = p + 1
            /\ x + 1 = LengthOf(y) => p = 11 /\ date.day = MonthLength(y, p)
            /\ p = 11 /\ date.day = MonthLength(y, p) => x + 1 = LengthOf(y)
<1>1. PICK l \in Int : l = LengthOf(y) /\ (l = 365 \/ l = 366)
  BY DEF LengthOf
<1>2. PICK p \in Int : p = MonthPrime(x) /\ 0 <= p /\ p < 12
  BY <1>1, DayOfYearSplits
<1>3. PICK d \in Int : d = DayOfMonth(x)
  BY <1>1, <1>2, DayOfYearSplits
<1>4. PICK z \in Int : z = x + 1 /\ 0 <= z
  OBVIOUS
<1>5. z < l => MonthPrime(z) \in Int /\ 0 <= MonthPrime(z) /\ MonthPrime(z) < 12
  BY <1>1, <1>4, DayOfYearSplits
<1>6. x < 366 /\ (z < l => z < 366)
  BY <1>1, <1>4
<1>7. /\ p = 0 => x <= 30 /\ d = x + 1
      /\ p = 1 => 31 <= x /\ x <= 60 /\ d = x - 30
      /\ p = 2 => 61 <= x /\ x <= 91 /\ d = x - 60
      /\ p = 3 => 92 <= x /\ x <= 121 /\ d = x - 91
      /\ p = 4 => 122 <= x /\ x <= 152 /\ d = x - 121
      /\ p = 5 => 153 <= x /\ x <= 183 /\ d = x - 152
      /\ p = 6 => 184 <= x /\ x <= 213 /\ d = x - 183
      /\ p = 7 => 214 <= x /\ x <= 244 /\ d = x - 213
      /\ p = 8 => 245 <= x /\ x <= 274 /\ d = x - 244
      /\ p = 9 => 275 <= x /\ x <= 305 /\ d = x - 274
      /\ p = 10 => 306 <= x /\ x <= 336 /\ d = x - 305
      /\ p = 11 => 337 <= x /\ d = x - 336
  BY <1>2, <1>3, <1>6, DayOfYearSplits
<1>8. z < l =>
        /\ MonthPrime(z) = 0 => z <= 30
        /\ MonthPrime(z) = 1 => 31 <= z /\ z <= 60
        /\ MonthPrime(z) = 2 => 61 <= z /\ z <= 91
        /\ MonthPrime(z) = 3 => 92 <= z /\ z <= 121
        /\ MonthPrime(z) = 4 => 122 <= z /\ z <= 152
        /\ MonthPrime(z) = 5 => 153 <= z /\ z <= 183
        /\ MonthPrime(z) = 6 => 184 <= z /\ z <= 213
        /\ MonthPrime(z) = 7 => 214 <= z /\ z <= 244
        /\ MonthPrime(z) = 8 => 245 <= z /\ z <= 274
        /\ MonthPrime(z) = 9 => 275 <= z /\ z <= 305
        /\ MonthPrime(z) = 10 => 306 <= z /\ z <= 336
        /\ MonthPrime(z) = 11 => 337 <= z
  BY <1>4, <1>6, DayOfYearSplits
<1>9. PICK m \in Int :
        /\ m = MonthLength(y, p)
        /\ p = 11 => m = l - 337
        /\ p \in {1, 3, 6, 8} => m = 30
        /\ p \in {0, 2, 4, 5, 7, 9, 10} => m = 31
  <2>1. CASE p = 11
    <3>1. MonthLength(y, p) = l - 337
      BY <1>1, <2>1 DEF MonthLength
    <3> QED BY <2>1, <3>1
  <2>2. CASE p \in {1, 3, 6, 8}
    <3>1. MonthLength(y, p) = 30
      BY <2>2 DEF MonthLength
    <3> QED BY <2>2, <3>1
  <2>3. CASE p # 11 /\ p \notin {1, 3, 6, 8}
    <3>1. MonthLength(y, p) = 31
      BY <2>3 DEF MonthLength
    <3> QED BY <2>3, <3>1
  <2> QED BY <2>1, <2>2, <2>3
<1>10. 1 <= d /\ d <= m
  BY <1>1, <1>2, <1>6, <1>7, <1>9, SMT
<1>11. ASSUME z < l
       PROVE  (d < m => MonthPrime(z) = p) /\ (d = m => MonthPrime(z) = p + 1)
  <2>1. PICK q \in Int : q = MonthPrime(z) /\ 0 <= q /\ q < 12
    BY <1>5, <1>11
  <2>2. /\ q = 0 => z <= 30
        /\ q = 1 => 31 <= z /\ z <= 60
        /\ q = 2 => 61 <= z /\ z <= 91
        /\ q = 3 => 92 <= z /\ z <= 121
        /\ q = 4 => 122 <= z /\ z <= 152
        /\ q = 5 => 153 <= z /\ z <= 183
        /\ q = 6 => 184 <= z /\ z <= 213
        /\ q = 7 => 214 <= z /\ z <= 244
        /\ q = 8 => 245 <= z /\ z <= 274
        /\ q = 9 => 275 <= z /\ z <= 305
        /\ q = 10 => 306 <= z /\ z <= 336
        /\ q = 11 => 337 <= z
    BY <1>8, <1>11, <2>1
  <2>3. d < m => q = p
    BY <1>1, <1>2, <1>4, <1>7, <1>9, <1>11, <2>1, <2>2, SMT
  <2>4. d = m => q = p + 1
    BY <1>1, <1>2, <1>4, <1>7, <1>9, <1>11, <2>1, <2>2, SMT
  <2> QED BY <2>1, <2>3, <2>4
<1>12. z = l => p = 11 /\ d = m
  BY <1>1, <1>2, <1>4, <1>7, <1>9, SMT
<1>13. p = 11 /\ d = m => z = l
  BY <1>1, <1>4, <1>7, <1>9, SMT
<1>14. PICK date : date = Civil(era, y, x)
  OBVIOUS
<1>15. PICK o \in Int : o = MonthOf(x) /\ (p < 10 => o = p + 3) /\ (p >= 10 => o = p - 9)
  BY <1>2 DEF MonthOf
<1>16. /\ date.month = o /\ date.day = d
       /\ date.year = y + 400 * era + (IF o <= 2 THEN 1 ELSE 0)
  BY <1>3, <1>14, <1>15 DEF Civil
<1>17. 1 <= o /\ o <= 12
  BY <1>2, <1>15, SMT
<1>18. DaysInMonth(date.year, o) = m
  <2>1. CASE p = 11
    <3>1. o = 2 /\ date.year = y + 400 * era + 1
      BY <1>15, <1>16, <2>1
    <3>2. LeapYear(date.year) = IsLong(y)
      <4>1. LeapYear(y + 400 * era + 1) = LeapYear(y + 1)
        BY EraKeepsLeapYears
      <4> QED BY <3>1, <4>1 DEF IsLong
    <3>3. DaysInMonth(date.year, o) = IF IsLong(y) THEN 29 ELSE 28
      BY <3>1, <3>2 DEF DaysInMonth
    <3>4. l = IF IsLong(y) THEN 366 ELSE 365
      BY <1>1 DEF LengthOf
    <3> QED BY <1>9, <2>1, <3>3, <3>4
  <2>2. CASE p \in {1, 3, 6, 8}
    <3>1. o \in {4, 6, 9, 11}
      BY <1>15, <2>2
    <3> QED BY <1>9, <2>2, <3>1 DEF DaysInMonth
  <2>3. CASE p \in {0, 2, 4, 5, 7, 9, 10}
    <3>1. o \in {3, 5, 7, 8, 10, 12, 1}
      BY <1>15, <2>3
    <3> QED BY <1>9, <2>3, <3>1 DEF DaysInMonth
  <2>4. p \in {0, 1, 2, 3, 4, 5, 6, 7, 8, 9, 10, 11}
    BY <1>2, SMT
  <2> QED BY <2>1, <2>2, <2>3, <2>4
<1>19. o \in 1..12
  BY <1>17
<1>20. /\ date.month \in 1..12 /\ date.day \in Int /\ 1 <= date.day
       /\ DaysInMonth(date.year, date.month) = m /\ date.day <= m
  BY <1>10, <1>16, <1>18, <1>19
<1>21. /\ date.day < m /\ z < l => MonthPrime(z) = p
       /\ date.day = m /\ z < l => MonthPrime(z) = p + 1
       /\ z = l => p = 11 /\ date.day = m
       /\ p = 11 /\ date.day = m => z = l
  BY <1>11, <1>12, <1>13, <1>16
<1> HIDE DEF MonthLength
<1> QED BY <1>1, <1>2, <1>4, <1>9, <1>14, <1>20, <1>21

LEMMA FirstOfMonth ==
  ASSUME NEW y \in Int, NEW x \in Int, 0 <= x, x + 1 < 366, NEW p \in Int, p = MonthPrime(x),
         DayOfMonth(x) = MonthLength(y, p), MonthPrime(x + 1) = p + 1
  PROVE  DayOfMonth(x + 1) = 1
<1>1. PICK z \in Int : z = x + 1 /\ 0 <= z /\ z < 366 /\ x < 366
  OBVIOUS
<1>2. PICK q \in Int : q = MonthPrime(z) /\ q = p + 1 /\ q < 12 /\ 0 <= p
  BY <1>1, DayOfYearSplits
<1>3. PICK d \in Int : d = DayOfMonth(x)
  BY <1>1, DayOfYearSplits
<1>4. PICK e \in Int : e = DayOfMonth(z)
  BY <1>1, DayOfYearSplits
<1>5. /\ p = 0 => d = x + 1
      /\ p = 1 => d = x - 30
      /\ p = 2 => d = x - 60
      /\ p = 3 => d = x - 91
      /\ p = 4 => d = x - 121
      /\ p = 5 => d = x - 152
      /\ p = 6 => d = x - 183
      /\ p = 7 => d = x - 213
      /\ p = 8 => d = x - 244
      /\ p = 9 => d = x - 274
      /\ p = 10 => d = x - 305
  BY <1>1, <1>3, DayOfYearSplits
<1>6. /\ q = 1 => e = z - 30
      /\ q = 2 => e = z - 60
      /\ q = 3 => e = z - 91
      /\ q = 4 => e = z - 121
      /\ q = 5 => e = z - 152
      /\ q = 6 => e = z - 183
      /\ q = 7 => e = z - 213
      /\ q = 8 => e = z - 244
      /\ q = 9 => e = z - 274
      /\ q = 10 => e = z - 305
      /\ q = 11 => e = z - 336
  BY <1>1, <1>2, <1>4, DayOfYearSplits
<1>7. /\ p \in {1, 3, 6, 8} => d = 30
      /\ p \in {0, 2, 4, 5, 7, 9, 10} => d = 31
  BY <1>3 DEF MonthLength
<1>8. e = 1
  BY <1>1, <1>2, <1>5, <1>6, <1>7, SMT
<1> QED BY <1>1, <1>4, <1>8

DateOf(year, month, day) == [year |-> year, month |-> month, day |-> day]

LEMMA MonthAdvances ==
  ASSUME NEW w, NEW o \in Int, NEW d, NEW u \in Int, u = o + 1, o < 12, ~ d < DaysInMonth(w, o)
  PROVE  NextDay(DateOf(w, o, d)) = DateOf(w, u, 1)
<1>1. PICK date : date = DateOf(w, o, d)
  OBVIOUS
<1>2. date.year = w /\ date.month = o /\ date.day = d
  BY <1>1 DEF DateOf
<1>3. NextDay(date) = [date EXCEPT !.day = 1, !.month = @ + 1]
  BY <1>2 DEF NextDay
<1>4. date.month + 1 = u
  BY <1>2
<1>5. [date EXCEPT !.day = 1, !.month = @ + 1] = [[date EXCEPT !.day = 1] EXCEPT !.month = u]
  BY <1>1, <1>4 DEF DateOf
<1>6. [date EXCEPT !.day = 1] = DateOf(w, o, 1)
  BY <1>1 DEF DateOf
<1>7. [DateOf(w, o, 1) EXCEPT !.month = u] = DateOf(w, u, 1)
  BY DEF DateOf
<1> QED BY <1>1, <1>3, <1>5, <1>6, <1>7

LEMMA NextInYear ==
  ASSUME NEW era \in Int, NEW y \in Int, 0 <= y, y < 400,
         NEW x \in Int, 0 <= x, x + 1 < LengthOf(y)
  PROVE  Civil(era, y, x + 1) = NextDay(Civil(era, y, x))
<1>1. PICK l \in Int : l = LengthOf(y) /\ (l = 365 \/ l = 366)
  BY DEF LengthOf
<1>2. PICK p \in Int : p = MonthPrime(x) /\ 0 <= p /\ p < 12
  BY <1>1, DayOfYearSplits
<1>3. PICK z \in Int : z = x + 1 /\ 0 <= z /\ z < l
  BY <1>1
<1>4. x < LengthOf(y) /\ x < 366 /\ z < 366
  BY <1>1, <1>3
<1>5. PICK d \in Int : d = DayOfMonth(x)
  BY <1>4, DayOfYearSplits
<1>6. PICK e \in Int : e = DayOfMonth(z)
  BY <1>3, <1>4, DayOfYearSplits
<1>7. PICK date : date = Civil(era, y, x)
  OBVIOUS
<1>8. PICK m \in Int : m = MonthLength(y, p)
  BY <1>1 DEF MonthLength
<1>9. /\ DaysInMonth(date.year, date.month) = m
      /\ date.day <= m
      /\ date.day < m => MonthPrime(z) = p
      /\ date.day = m => MonthPrime(z) = p + 1
  BY <1>1, <1>2, <1>3, <1>4, <1>7, <1>8, DaysOfCivil
<1>10. date.day = d /\ date.month = MonthOf(x)
  BY <1>5, <1>7 DEF Civil
<1>11. CASE d < m
  <2>1. MonthPrime(z) = p
    BY <1>9, <1>10, <1>11
  <2>2. MonthOf(z) = MonthOf(x) /\ e = d + 1
    BY <1>2, <1>3, <1>5, <1>6, <2>1 DEF MonthOf, DayOfMonth
  <2>3. Civil(era, y, z) = [date EXCEPT !.day = d + 1]
    BY <1>6, <1>7, <2>2 DEF Civil
  <2>4. NextDay(date) = [date EXCEPT !.day = @ + 1]
    BY <1>9, <1>10, <1>11 DEF NextDay
  <2> QED BY <1>3, <1>7, <1>10, <2>3, <2>4
<1>12. CASE d = m
  <2>1. MonthPrime(z) = p + 1
    BY <1>9, <1>10, <1>12
  <2>2. PICK q \in Int : q = MonthPrime(z) /\ q = p + 1 /\ 1 <= q /\ q < 12
    BY <1>2, <1>3, <1>4, <2>1, DayOfYearSplits
  <2>3. e = 1
    <3>1. DayOfMonth(x) = MonthLength(y, p)
      BY <1>5, <1>8, <1>12
    <3>2. MonthPrime(x + 1) = p + 1
      BY <1>3, <2>1
    <3>3. x + 1 < 366
      BY <1>3, <1>4
    <3>4. DayOfMonth(x + 1) = 1
      BY <1>2, <3>1, <3>2, <3>3, FirstOfMonth
    <3> QED BY <1>3, <1>6, <3>4
  <2>4. PICK o \in Int : o = MonthOf(x) /\ (p < 10 => o = p + 3) /\ (p >= 10 => o = p - 9)
    BY <1>2 DEF MonthOf
  <2>5. PICK u \in Int : u = MonthOf(z) /\ (q < 10 => u = q + 3) /\ (q >= 10 => u = q - 9)
    BY <2>2 DEF MonthOf
  <2>6. Civil(era, y, z) = [year |-> y + 400 * era + (IF u <= 2 THEN 1 ELSE 0), month |-> u, day |-> 1]
    BY <1>6, <2>3, <2>5 DEF Civil
  <2>7. date = [year |-> y + 400 * era + (IF o <= 2 THEN 1 ELSE 0), month |-> o, day |-> d]
    BY <1>5, <1>7, <2>4 DEF Civil
  <2>8. ~ date.day < DaysInMonth(date.year, date.month)
    BY <1>9, <1>10, <1>12
  <2>9. CASE p = 9
    <3>1. o = 12 /\ u = 1
      BY <2>2, <2>4, <2>5, <2>9
    <3>2. NextDay(date) = [year |-> date.year + 1, month |-> 1, day |-> 1]
      BY <2>7, <2>8, <3>1 DEF NextDay
    <3>3. date.year = y + 400 * era
      BY <2>7, <3>1
    <3> QED BY <1>3, <1>7, <2>6, <3>1, <3>2, <3>3
  <2>10. CASE p # 9
    <3>1. /\ o < 12 /\ u = o + 1
          /\ (IF u <= 2 THEN 1 ELSE 0) = (IF o <= 2 THEN 1 ELSE 0)
      BY <1>2, <2>2, <2>4, <2>5, <2>10
    <3>2. PICK w : w = y + 400 * era + (IF o <= 2 THEN 1 ELSE 0)
      OBVIOUS
    <3>3. date = DateOf(w, o, d)
      BY <2>7, <3>2 DEF DateOf
    <3>4. ~ d < DaysInMonth(w, o)
      BY <2>8, <3>3 DEF DateOf
    <3>5. NextDay(DateOf(w, o, d)) = DateOf(w, u, 1)
      BY <3>1, <3>4, MonthAdvances
    <3>6. Civil(era, y, z) = DateOf(w, u, 1)
      BY <2>6, <3>1, <3>2 DEF DateOf
    <3> QED BY <1>3, <1>7, <3>3, <3>5, <3>6
  <2> QED BY <2>9, <2>10
<1> QED BY <1>5, <1>8, <1>9, <1>10, <1>11, <1>12

(* After the last day of a year comes the first of March. *)
LEMMA NextAfterYear ==
  ASSUME NEW era \in Int, NEW y \in Int, 0 <= y, y < 400,
         NEW x \in Int, 0 <= x, x + 1 = LengthOf(y),
         NEW later \in Int, NEW after \in Int, after + 400 * later = y + 400 * era + 1
  PROVE  Civil(later, after, 0) = NextDay(Civil(era, y, x))
<1>1. PICK l \in Int : l = LengthOf(y) /\ (l = 365 \/ l = 366)
  BY DEF LengthOf
<1>2. x < LengthOf(y)
  BY <1>1
<1>3. PICK date : date = Civil(era, y, x)
  OBVIOUS
<1>4. /\ MonthPrime(x) = 11
      /\ date.day = MonthLength(y, 11)
      /\ DaysInMonth(date.year, date.month) = MonthLength(y, 11)
  BY <1>2, <1>3, DaysOfCivil
<1>5. MonthOf(x) = 2
  BY <1>4 DEF MonthOf
<1>6. date = [year |-> y + 400 * era + 1, month |-> 2, day |-> DayOfMonth(x)]
  BY <1>3, <1>5 DEF Civil
<1>7. ~ date.day < DaysInMonth(date.year, date.month)
  <2>1. MonthLength(y, 11) \in Int
    BY <1>1 DEF MonthLength
  <2> QED BY <1>4, <2>1
<1>8. PICK w : w = y + 400 * era + 1
  OBVIOUS
<1>9. NextDay(date) = DateOf(w, 3, 1)
  <2>1. PICK d : d = DayOfMonth(x)
    OBVIOUS
  <2>2. date = DateOf(w, 2, d)
    BY <1>6, <1>8, <2>1 DEF DateOf
  <2>3. ~ d < DaysInMonth(w, 2)
    BY <1>7, <2>2 DEF DateOf
  <2>4. NextDay(DateOf(w, 2, d)) = DateOf(w, 3, 1)
    BY <2>3, MonthAdvances
  <2> QED BY <2>2, <2>4
<1>10. MonthPrime(0) = 0 /\ MonthOf(0) = 3 /\ DayOfMonth(0) = 1
  <2>1. MonthPrime(0) = 0
    BY DEF MonthPrime
  <2> QED BY <2>1, DayOfYearSplits DEF MonthOf
<1>11. Civil(later, after, 0) = DateOf(w, 3, 1)
  BY <1>8, <1>10 DEF Civil, DateOf
<1> QED BY <1>3, <1>9, <1>11

(* Days of one era, and of two. *)
LEMMA NextCivilDay ==
  ASSUME NEW d \in Nat
  PROVE  /\ CanonicalDate(CivilFromDays(d))
         /\ CivilFromDays(d + 1) = NextDay(CivilFromDays(d))
<1>1. PICK era \in Int, n \in Int :
        d + 719468 = 146097 * era + n /\ 0 <= n /\ n < 146097
  <2>1. PICK s \in Int : s = d + 719468
    BY SMTT(30)
  <2>2. PICK a \in Int, b \in Int :
          a = s \div 146097 /\ b = s % 146097 /\ s = 146097 * a + b /\ 0 <= b /\ b < 146097
    BY Remainders, SMTT(30)
  <2>3. d + 719468 = 146097 * a + b /\ 0 <= b /\ b < 146097
    BY <2>1, <2>2, SMT
  <2> QED BY <2>3, SMT
<1>2. EraOf(d) = era /\ DayInEra(d) = n /\ 0 <= n /\ n < 146097
  <2>1. d \in Int /\ InEra(d, era, n)
    BY <1>1, SMT DEF InEra
  <2>2. EraOf(d) = era /\ DayInEra(d) = n
    BY <2>1, WhichEra, Zenon
  <2> QED BY <1>1, <2>2, SMTT(30)
<1>3. PICK y \in Int : y = YearOfEra(n) /\ 0 <= y /\ y < 400
  BY <1>2, YearContainsDay, SMTT(30)
<1>4. PICK t \in Int : t = StartOf(y) /\ t <= n
  BY <1>2, <1>3, YearContainsDay, SMTT(30)
<1>5. PICK l \in Int : l = LengthOf(y) /\ (l = 365 \/ l = 366)
  BY DEF LengthOf
<1>6. PICK x \in Int : x = n - t /\ 0 <= x
  BY <1>4
<1>7. x < l
  <2>1. (y = 399 /\ n <= t + 365) \/ n < StartOf(y + 1)
    BY <1>2, <1>3, <1>4, YearContainsDay, SMTT(30)
  <2>2. /\ y < 399 => StartOf(y + 1) = t + l
        /\ y = 399 => t = 145731 /\ l = 366
    BY <1>3, <1>4, <1>5, YearsJoin, SMTT(30)
  <2>3. CASE y = 399
    BY <1>2, <1>6, <2>2, <2>3, SMT
  <2>4. CASE y < 399
    BY <1>6, <2>1, <2>2, <2>4, SMT
  <2> QED BY <1>3, <2>3, <2>4, SMT
<1>8. CivilFromDays(d) = Civil(era, y, x)
  <2>1. CivilFromDays(d) = CivilOfEra(EraOf(d), DayInEra(d))
    BY CivilOfDay
  <2>2. EraOf(d) = era /\ DayInEra(d) = n
    BY <1>2, SMTT(30)
  <2>3. y = YearOfEra(n) /\ x = n - StartOf(y)
    BY <1>3, <1>4, <1>6
  <2> QED BY <2>1, <2>2, <2>3 DEF CivilOfEra
<1>9. CanonicalDate(CivilFromDays(d))
  <2>1. PICK date : date = Civil(era, y, x)
    OBVIOUS
  <2>2. PICK p \in Int : p = MonthPrime(x)
    BY <1>5, <1>6, <1>7, DayOfYearSplits
  <2>3. PICK m \in Int : m = MonthLength(y, p)
    BY <1>5 DEF MonthLength
  <2>4. /\ date.month \in 1..12 /\ date.day \in Int /\ 1 <= date.day
        /\ DaysInMonth(date.year, date.month) = m /\ date.day <= m
    <3>1. x < LengthOf(y)
      BY <1>5, <1>7
    <3>2. LET day == Civil(era, y, x)
          IN /\ day.month \in 1..12 /\ day.day \in Int /\ 1 <= day.day
             /\ DaysInMonth(day.year, day.month) = MonthLength(y, MonthPrime(x))
             /\ day.day <= MonthLength(y, MonthPrime(x))
      BY <1>3, <1>6, <3>1, DaysOfCivil
    <3> QED BY <2>1, <2>2, <2>3, <3>2
  <2> QED BY <1>8, <2>1, <2>3, <2>4 DEF CanonicalDate
<1>10. CASE n < 146096
  <2>1. PICK k \in Int : k = n + 1 /\ 0 <= k /\ k < 146097
    BY <1>2, <1>10, SMTT(30)
  <2>2. PICK f \in Int : f = d + 1 /\ f + 719468 = 146097 * era + k
    BY <1>1, <2>1, SMTT(30)
  <2>3. EraOf(f) = era /\ DayInEra(f) = k
    <3>1. InEra(f, era, k)
      BY <2>1, <2>2, SMT DEF InEra
    <3> QED BY <3>1, WhichEra, Zenon
  <2>4. CivilFromDays(d + 1) = Civil(era, YearOfEra(k), k - StartOf(YearOfEra(k)))
    <3>1. CivilFromDays(f) = CivilOfEra(EraOf(f), DayInEra(f))
      BY CivilOfDay
    <3>2. f = d + 1
      BY <2>2, SMTT(30)
    <3>3. CivilFromDays(f) = CivilOfEra(era, k)
      BY ONLY <2>3, <3>1
    <3>4. CivilFromDays(d + 1) = CivilOfEra(era, k)
      BY ONLY <3>2, <3>3, Zenon
    <3> QED BY ONLY <3>4, Zenon DEF CivilOfEra
  <2>5. /\ x + 1 < l => YearOfEra(k) = y /\ k - StartOf(YearOfEra(k)) = x + 1
        /\ x + 1 >= l => /\ x + 1 = l /\ YearOfEra(k) = y + 1
                         /\ k - StartOf(YearOfEra(k)) = 0
    <3>1. n \in Int /\ 0 <= n /\ n < 146096
      BY <1>2, <1>10, SMT
    <3>2. n \in Int /\ NotLastOfEra(n)
      BY <3>1, SMT DEF NotLastOfEra
    <3>3. DayFollows(n)
      BY <3>2, NextDayOfEra, Zenon
    <3>4. YearOfEra(n) = y /\ LengthOf(y) = l /\ n - StartOf(y) = x /\ n + 1 = k
      BY <1>3, <1>4, <1>5, <1>6, <2>1, SMTT(30)
    <3>5. YearGoesOn(y, x, l, k)
      BY ONLY <3>3, <3>4, Zenon DEF DayFollows
    <3> QED BY <3>5 DEF YearGoesOn
  <2>6. CASE x + 1 < l
    <3>1. Civil(era, y, x + 1) = NextDay(Civil(era, y, x))
      BY <1>3, <1>5, <1>6, <2>6, NextInYear
    <3> QED BY <1>8, <1>9, <2>4, <2>5, <2>6, <3>1
  <2>7. CASE x + 1 >= l
    <3>1. PICK v \in Int : v = y + 1 /\ v + 400 * era = y + 400 * era + 1
      OBVIOUS
    <3>2. x + 1 = LengthOf(y)
      BY <1>5, <2>5, <2>7
    <3>3. Civil(era, v, 0) = NextDay(Civil(era, y, x))
      BY <1>3, <1>6, <3>1, <3>2, NextAfterYear
    <3>4. CivilFromDays(d + 1) = Civil(era, v, 0)
      BY <2>4, <2>5, <2>7, <3>1
    <3> QED BY <1>8, <1>9, <3>3, <3>4
  <2> QED BY <2>6, <2>7
<1>11. CASE n = 146096
  <2>1. PICK h \in Int : h = era + 1 /\ 0 + 400 * h = 399 + 400 * era + 1
    OBVIOUS
  <2>2. PICK f \in Int : f = d + 1 /\ f + 719468 = 146097 * h + 0
    BY <1>1, <1>11, <2>1, SMTT(30)
  <2>3. EraOf(f) = h /\ DayInEra(f) = 0
    <3>1. 0 \in Int /\ InEra(f, h, 0)
      BY <2>2, SMT DEF InEra
    <3> QED BY <3>1, WhichEra, Zenon
  <2>4. YearOfEra(0) = 0 /\ StartOf(0) = 0
    BY SMTT(30) DEF YearOfEra, StartOf
  <2>5. CivilFromDays(d + 1) = Civil(h, 0, 0)
    <3>1. CivilFromDays(f) = CivilOfEra(EraOf(f), DayInEra(f))
      BY CivilOfDay
    <3>2. f = d + 1
      BY <2>2, SMTT(30)
    <3>3. CivilFromDays(d + 1) = CivilOfEra(h, 0)
      BY ONLY <2>3, <3>1, <3>2, Zenon
    <3>4. CivilOfEra(h, 0) = Civil(h, 0, 0 - 0)
      BY ONLY <2>4, Zenon DEF CivilOfEra
    <3>5. 0 - 0 = 0
      BY SMT
    <3> QED BY ONLY <3>3, <3>4, <3>5, Zenon
  <2>6. y = 399 /\ x + 1 = l
    <3>1. StartOf(399) = 145731
      BY YearsJoin, SMTT(30)
    <3>2. y < 399 => t + l <= 145731
      <4>1. SUFFICES ASSUME y < 399 PROVE t + l <= 145731
        BY SMTT(30)
      <4>2. StartOf(y) + LengthOf(y) <= StartOf(399)
        BY <1>3, <4>1, StartsAreOrdered
      <4> QED BY <1>4, <1>5, <3>1, <4>2, SMTT(30)
    <3>3. y = 399
      BY <1>3, <1>5, <1>6, <1>7, <1>11, <3>2, SMT
    <3>4. t = 145731 /\ l = 366
      BY <1>3, <1>4, <1>5, <3>3, YearsJoin, SMTT(30)
    <3> QED BY <1>6, <1>11, <3>3, <3>4, SMTT(30)
  <2>7. Civil(h, 0, 0) = NextDay(Civil(era, y, x))
    BY <1>3, <1>5, <1>6, <2>1, <2>6, NextAfterYear
  <2> QED BY <1>8, <1>9, <2>5, <2>7
<1> QED BY <1>2, <1>10, <1>11, SMT

(* Whatever the day, a stamp read from the clock and one that was advanced *)
(* over midnight are in the same calendar (civil_from_days,                *)
(* increment_canonical_timestamp).                                         *)
THEOREM CalendarsAgree == OneCalendar
BY DaysAreCounted, NextCivilDay DEF OneCalendar

------------------------------------------------------------
(* The rows and the operations that the transitions leave *)

RowRecord ==
  [state : RunState, recovery : RecoveryOutcome \cup {Unset}, identity : BOOLEAN, group : BOOLEAN,
   started : Nat, updated : Nat, ended : Nat, deletion : Nat, deleted : Nat]

StopRecord == [row : OperationRow, created : Nat, updated : Nat, completed : Nat]

IsActive(stop) == stop.row.status \in ActiveStatus

RunIsKept(r) == rows[r] = Absent \/ (rows[r] \in RowRecord /\ RowReads(rows[r]))

StopFits(stop, r, entry) == stop.row.run = r /\ stop.row.status # "ABSENT" /\ StopReads(stop, entry)

StopIsKept(o) ==
  \/ stops[o].row = AbsentRow
  \/ \E r \in RowRuns : rows[r] # Absent /\ StopFits(stops[o], r, rows[r])

(* A run has one stop at a time that goes on. *)
OneActiveIn(ledger) ==
  \A o, p \in RowStops :
    IsActive(ledger[o]) /\ IsActive(ledger[p]) /\ ledger[o].row.run = ledger[p].row.run => o = p

(* The stamp of a monitor is of use while the run is RUNNING. *)
ExitIsLater(entry, exit) ==
  /\ entry.state \in {"ABSENT", "STARTING"} => exit = NoTime
  /\ entry.state = "RUNNING" /\ exit # NoTime => exit > entry.updated

LedgerInv ==
  /\ rows \in [RowRuns -> RowRecord \cup {Absent}]
  /\ stops \in [RowStops -> StopRecord]
  /\ confirmed \in [RowRuns -> Nat]
  /\ ~refused
  /\ \A r \in RowRuns : RunIsKept(r)
  /\ \A o \in RowStops : StopIsKept(o)
  /\ OneActiveIn(stops)
  /\ \A r \in RowRuns : ExitIsLater(rows[r], confirmed[r])

LEMMA NextTimestampIsLater ==
  ASSUME NEW previous \in Nat, NEW reading \in Nat
  PROVE  NextTimestamp(previous, reading) \in Nat /\ NextTimestamp(previous, reading) > previous
BY DEF NextTimestamp

LEMMA LaterIsLater ==
  ASSUME NEW a \in Nat, NEW b \in Nat
  PROVE  Later(a, b) \in Nat /\ Later(a, b) >= a /\ Later(a, b) >= b
BY DEF Later

(* A row as it is read, with its fields *)
LEMMA PresentRow ==
  ASSUME LedgerInv, NEW r \in RowRuns, rows[r] # Absent
  PROVE  rows[r] \in RowRecord /\ RowReads(rows[r]) /\ rows[r].updated \in Nat
BY DEF LedgerInv, RunIsKept, RowRecord

LEMMA PresentStop ==
  ASSUME LedgerInv, NEW o \in RowStops, stops[o].row.status # "ABSENT"
  PROVE  \E r \in RowRuns :
           /\ rows[r] # Absent /\ rows[r] \in RowRecord /\ RowReads(rows[r])
           /\ stops[o] \in StopRecord /\ stops[o].row.run = r /\ StopReads(stops[o], rows[r])
<1>1. stops[o].row # AbsentRow
  BY DEF AbsentRow
<1>2. PICK r \in RowRuns : rows[r] # Absent /\ StopFits(stops[o], r, rows[r])
  BY <1>1 DEF LedgerInv, StopIsKept
<1>3. stops[o] \in StopRecord
  BY DEF LedgerInv
<1> QED BY <1>2, <1>3, PresentRow DEF StopFits

LEMMA LatestIsLatest ==
  ASSUME LedgerInv, NEW r \in RowRuns, rows[r] # Absent
  PROVE  /\ LatestOf(r) \in Nat /\ LatestOf(r) >= rows[r].updated
         /\ \A o \in ActiveOf(r) : LatestOf(r) >= stops[o].updated
<1>1. PICK u \in Nat : u = rows[r].updated
  BY PresentRow
<1> DEFINE stamps == {rows[r].updated} \cup {stops[o].updated : o \in ActiveOf(r)}
           IsLatest(t) == t \in stamps /\ \A v \in stamps : v <= t
<1>2. \E t \in stamps : t \in Nat /\ \A v \in stamps : v <= t
  <2>1. CASE ActiveOf(r) = {}
    <3>1. stamps = {u}
      BY <1>1, <2>1
    <3>2. u \in stamps /\ u \in Nat /\ \A v \in stamps : v <= u
      BY <3>1
    <3> QED BY <3>2
  <2>2. CASE ActiveOf(r) # {}
    <3>1. PICK g \in RowStops : g \in ActiveOf(r)
      BY <2>2 DEF ActiveOf, StopsOf
    <3>2. ActiveOf(r) = {g}
      BY <3>1 DEF ActiveOf, StopsOf, LedgerInv, OneActiveIn, IsActive
    <3>3. PICK v \in Nat : v = stops[g].updated
      BY DEF LedgerInv, StopRecord
    <3>4. stamps = {u, v}
      BY <1>1, <3>2, <3>3
    <3> HIDE DEF stamps
    <3>5. CASE u <= v
      BY <3>4, <3>5
    <3>6. CASE v < u
      BY <3>4, <3>6
    <3> QED BY <3>5, <3>6
  <2> QED BY <2>1, <2>2
<1>3. LatestOf(r) = CHOOSE t \in stamps : \A v \in stamps : v <= t
  BY DEF LatestOf
<1> HIDE DEF stamps
<1>4. LatestOf(r) \in stamps /\ \A v \in stamps : v <= LatestOf(r)
  BY <1>2, <1>3
<1>5. \A v \in stamps : v \in Nat
  <2>1. \A o \in ActiveOf(r) : stops[o].updated \in Nat
    BY DEF ActiveOf, StopsOf, LedgerInv, StopRecord
  <2> QED BY <1>1, <2>1 DEF stamps
<1>6. rows[r].updated \in stamps /\ \A o \in ActiveOf(r) : stops[o].updated \in stamps
  BY DEF stamps
<1> QED BY <1>4, <1>5, <1>6

(* An operation that was read can be read after a transition that left the *)
(* state and the end of its run alone, and, unless it goes on, after any   *)
(* that moved on a run which had not ended.                                *)
LEMMA StopKept ==
  ASSUME NEW stop, NEW entry, NEW after, StopReads(stop, entry), RowReads(after),
         after.state = entry.state, after.ended = entry.ended
  PROVE  StopReads(stop, after)
BY DEF StopReads, StopResultReads, RowReads

LEMMA QuietStop ==
  ASSUME NEW stop, NEW entry, NEW after, StopReads(stop, entry), RowReads(after),
         entry.state \in RecoveryCandidate, ~IsActive(stop)
  PROVE  StopReads(stop, after)
<1>1. stop.row.outcome = "NONE"
  BY DEF StopReads, StopResultReads, ValidResult, RecoveryCandidate, LiveRunState, StoppingRunState
<1>2. ValidResult(stop.row, after.state)
  BY <1>1 DEF StopReads, StopResultReads, ValidResult, IsActive
<1> QED BY <1>1, <1>2 DEF StopReads, StopResultReads, RowReads, IsActive

(* Only a run that is being stopped has a stop that goes on. *)
LEMMA ActiveRunIsStopping ==
  ASSUME NEW stop, NEW entry, StopReads(stop, entry), IsActive(stop)
  PROVE  entry.state \in StoppingRunState /\ entry.ended = NoTime
BY DEF StopReads, IsActive, Eligible, StoppingRunState

LEMMA TransactKeeps ==
  ASSUME LedgerInv,
         NEW r \in RowRuns, NEW now, NEW previous, now > previous,
         NEW after \in RowRecord, RowReads(after),
         NEW changed \in [RowStops -> StopRecord], OneActiveIn(changed),
         \A o \in RowStops :
           (changed[o] = stops[o] /\ stops[o].row.run # r) \/ StopFits(changed[o], r, after),
         confirmed' \in [RowRuns -> Nat],
         \A q \in RowRuns : q # r => confirmed'[q] = confirmed[q],
         ExitIsLater(after, confirmed'[r]),
         Transact(r, now, previous, after, changed)
  PROVE  LedgerInv'
<1>1. \A o \in RowStops : changed[o] # stops[o] => StopReads(changed[o], after)
  BY DEF StopFits
<1>2. rows' = [rows EXCEPT ![r] = after] /\ stops' = changed /\ refused' = refused
  BY <1>1 DEF Transact
<1>3. rows'[r] = after /\ \A q \in RowRuns : q # r => rows'[q] = rows[q]
  BY <1>2 DEF LedgerInv
<1>4. after # Absent
  BY DEF Absent, RowRecord, RunState
<1>5. rows' \in [RowRuns -> RowRecord \cup {Absent}] /\ stops' \in [RowStops -> StopRecord] /\ ~refused'
  BY <1>2 DEF LedgerInv
<1>6. \A q \in RowRuns : RunIsKept(q)'
  BY <1>3 DEF LedgerInv, RunIsKept
<1>7. ASSUME NEW o \in RowStops PROVE StopIsKept(o)'
  <2>1. CASE StopFits(changed[o], r, after)
    BY <1>2, <1>3, <1>4, <2>1 DEF StopIsKept
  <2>2. CASE changed[o] = stops[o] /\ stops[o].row.run # r
    <3>1. CASE stops[o].row = AbsentRow
      BY <1>2, <2>2, <3>1 DEF StopIsKept
    <3>2. CASE stops[o].row # AbsentRow
      <4>1. PICK q \in RowRuns : rows[q] # Absent /\ StopFits(stops[o], q, rows[q])
        BY <3>2 DEF LedgerInv, StopIsKept
      <4>2. q # r
        BY <2>2, <4>1 DEF StopFits
      <4> QED BY <1>2, <1>3, <2>2, <4>1, <4>2 DEF StopIsKept
    <3> QED BY <3>1, <3>2
  <2> QED BY <2>1, <2>2
<1>8. OneActiveIn(stops)'
  BY <1>2 DEF OneActiveIn
<1>9. \A q \in RowRuns : ExitIsLater(rows[q], confirmed[q])'
  BY <1>3 DEF LedgerInv, ExitIsLater
<1> QED BY <1>5, <1>6, <1>7, <1>8, <1>9 DEF LedgerInv

(* What the transitions make of a row *)
LEMMA NewRowReads ==
  ASSUME NEW reading \in Readings,
         NEW entry, entry = [state |-> "STARTING", recovery |-> Unset, identity |-> FALSE, group |-> FALSE,
                         started |-> reading, updated |-> reading, ended |-> NoTime,
                         deletion |-> NoTime, deleted |-> NoTime]
  PROVE  entry \in RowRecord /\ RowReads(entry)
<1>1. reading \in Nat
  BY ReadingsAreTimes
<1>2. entry \in RowRecord
  BY <1>1 DEF RowRecord, RunState, NoTime
<1>3. EndFits(entry) /\ RetentionReads(entry)
  BY <1>1 DEF EndFits, RetentionReads, NoTime
<1>4. RecoveryFits(entry)
  BY UnsetIsNoValue DEF RecoveryFits, RecoveryOutcome
<1> QED
  BY <1>2, <1>3, <1>4, UnsetIsNoValue
  DEF RowReads, RunReads, SummaryReads, HistoryReads, CandidateReads, TimelineReads, UnfinishedReads,
      Finished, TerminalRunState, NoTime, RecoveryOutcome, StartReads

(* A row that is not finished has no marks of the log retention, and none *)
(* of a recovery unless it was recovered.                                 *)
LEMMA CandidateRow ==
  ASSUME NEW entry \in RowRecord, RowReads(entry), entry.state \in RecoveryCandidate
  PROVE  /\ entry.ended = NoTime /\ entry.deletion = NoTime /\ entry.deleted = NoTime
         /\ entry.started <= entry.updated
         /\ entry.recovery \in {Unset, "RECOVERED"}
         /\ entry.state \in {"STARTING", "RUNNING"} => entry.recovery = Unset
         /\ entry.state = "RECOVERED" => entry.recovery = "RECOVERED"
<1>1. UnfinishedReads(entry) /\ RunReads(entry)
  BY DEF RowReads
<1>2. entry.state \notin TerminalRunState
  BY DEF RecoveryCandidate, LiveRunState, StoppingRunState, TerminalRunState
<1>3. entry.deletion = NoTime /\ entry.deleted = NoTime
  BY <1>1, <1>2 DEF RunReads, Finished
<1>4. entry.ended = NoTime /\ entry.recovery \in {Unset, "RECOVERED"}
  BY <1>1 DEF UnfinishedReads
<1>5. entry.started <= entry.updated /\ RecoveryFits(entry)
  BY <1>1 DEF RunReads, TimelineReads, EndFits
<1>6. entry.state \in {"STARTING", "RUNNING"} => entry.recovery = Unset
  BY <1>1 DEF UnfinishedReads, StoppingRunState
<1>7. entry.state = "RECOVERED" => entry.recovery = "RECOVERED"
  BY <1>5 DEF RecoveryFits
<1> QED BY <1>3, <1>4, <1>5, <1>6, <1>7

(* A row that goes on keeps what it carries while its state and its stamp *)
(* move.                                                                  *)
LEMMA MovedRowReads ==
  ASSUME NEW entry \in RowRecord, RowReads(entry), entry.state \in RecoveryCandidate,
         NEW now \in Nat, now >= entry.updated,
         NEW after \in RowRecord, after.state \in RecoveryCandidate,
         after.state = "STARTING" => entry.state = "STARTING",
         after.state = "RUNNING" => entry.state = "STARTING" /\ after.identity,
         after.state = "RECOVERED" => after.recovery = "RECOVERED",
         after.recovery = entry.recovery
           \/ (after.recovery = "RECOVERED" /\ after.state \in {"RECOVERED"} \cup StoppingRunState),
         after.identity = entry.identity \/ after.identity,
         after.group => after.identity,
         after.started = entry.started, after.updated = now, after.ended = NoTime,
         after.deletion = entry.deletion, after.deleted = entry.deleted
  PROVE  RowReads(after)
<1>1. /\ entry.ended = NoTime /\ entry.deletion = NoTime /\ entry.deleted = NoTime
      /\ entry.started <= entry.updated
      /\ entry.recovery \in {Unset, "RECOVERED"}
      /\ entry.state \in {"STARTING", "RUNNING"} => entry.recovery = Unset
      /\ entry.state = "RECOVERED" => entry.recovery = "RECOVERED"
  BY CandidateRow
<1>2. entry.started \in Nat /\ entry.updated \in Nat
  BY DEF RowRecord
<1>3. after.started <= after.updated
  BY <1>1, <1>2
<1>4. after.state \notin {"EXITED", "FAILED", "EXITED_WHILE_OFFLINE"} /\ after.state \notin TerminalRunState
  BY DEF RecoveryCandidate, LiveRunState, StoppingRunState, TerminalRunState
<1>5. EndFits(after)
  BY <1>3, <1>4 DEF EndFits
<1>6. Unset # "RECOVERED"
  BY UnsetIsNoValue DEF RecoveryOutcome
<1>7. /\ after.recovery \in {Unset, "RECOVERED"}
      /\ after.state \in {"STARTING", "RUNNING"} => after.recovery = Unset
      /\ after.state = "RECOVERED" => after.recovery = "RECOVERED"
  BY <1>1 DEF StoppingRunState
<1>8. RecoveryFits(after)
  BY <1>4, <1>6, <1>7 DEF RecoveryFits, RecoveryCandidate
<1>9. UnfinishedReads(after)
  BY <1>4, <1>6, <1>7 DEF UnfinishedReads, RecoveryCandidate, LiveRunState
<1>10. RetentionReads(after)
  BY <1>1 DEF RetentionReads
<1> QED
  BY <1>1, <1>4, <1>5, <1>8, <1>9, <1>10
  DEF RowReads, RunReads, SummaryReads, HistoryReads, StartReads, Finished, TimelineReads

(* A row that ends keeps what it carries, too. *)
LEMMA EndedRowReads ==
  ASSUME NEW entry \in RowRecord, RowReads(entry), entry.state \in RecoveryCandidate,
         NEW now \in Nat, now > entry.updated,
         NEW after \in RowRecord, after.state \in TerminalRunState,
         after.state = "EXITED_WHILE_OFFLINE" => after.recovery = "EXITED_WHILE_OFFLINE",
         after.recovery = entry.recovery \/ after.recovery = after.state,
         after.identity = entry.identity, after.group = entry.group,
         after.started = entry.started, after.updated = now,
         after.ended = IF after.state \in {"EXITED", "FAILED", "EXITED_WHILE_OFFLINE"} THEN now ELSE NoTime,
         after.deletion = entry.deletion, after.deleted = entry.deleted
  PROVE  RowReads(after)
<1>1. /\ entry.deletion = NoTime /\ entry.deleted = NoTime /\ entry.started <= entry.updated
      /\ entry.recovery \in {Unset, "RECOVERED"}
  BY CandidateRow
<1>2. entry.started \in Nat /\ entry.updated \in Nat
  BY DEF RowRecord
<1>3. now \in after.started..after.updated /\ now # NoTime /\ after.started <= after.updated
  BY <1>1, <1>2 DEF NoTime
<1>4. EndFits(after)
  BY <1>3 DEF EndFits
<1>5. RecoveryFits(after)
  BY <1>1 DEF RecoveryFits, TerminalRunState
<1>6. RetentionReads(after) /\ CandidateReads(after)
  BY <1>1 DEF RetentionReads, CandidateReads
<1>7. entry.group => entry.identity
  BY DEF RowReads, RunReads
<1>8. after.state \notin RecoveryCandidate /\ after.state # "RUNNING"
  BY DEF RecoveryCandidate, LiveRunState, StoppingRunState, TerminalRunState
<1> QED
  BY <1>1, <1>4, <1>5, <1>6, <1>7, <1>8
  DEF RowReads, RunReads, SummaryReads, HistoryReads, Finished, TimelineReads

(* The stops of a run that a transition does not write *)
LEMMA StopOfRun ==
  ASSUME LedgerInv, NEW r \in RowRuns, NEW o \in RowStops, stops[o].row.run = r
  PROVE  StopFits(stops[o], r, rows[r])
<1>1. stops[o].row # AbsentRow
  BY UnsetIsNoValue DEF AbsentRow
<1>2. PICK q \in RowRuns : StopFits(stops[o], q, rows[q])
  BY <1>1 DEF LedgerInv, StopIsKept
<1> QED BY <1>2 DEF StopFits

LEMMA OtherStopsStay ==
  ASSUME LedgerInv, NEW r \in RowRuns, NEW after, RowReads(after),
         after.state = rows[r].state /\ after.ended = rows[r].ended
  PROVE  \A o \in RowStops : stops[o].row.run # r \/ StopFits(stops[o], r, after)
<1> SUFFICES ASSUME NEW o \in RowStops, stops[o].row.run = r PROVE StopFits(stops[o], r, after)
  OBVIOUS
<1>1. StopFits(stops[o], r, rows[r])
  BY StopOfRun
<1> QED BY <1>1, StopKept DEF StopFits

LEMMA QuietStopsStay ==
  ASSUME LedgerInv, NEW r \in RowRuns, NEW after, RowReads(after), rows[r].state \in RecoveryCandidate
  PROVE  \A o \in RowStops :
           stops[o].row.run # r \/ IsActive(stops[o]) \/ StopFits(stops[o], r, after)
<1> SUFFICES ASSUME NEW o \in RowStops, stops[o].row.run = r, ~IsActive(stops[o])
             PROVE  StopFits(stops[o], r, after)
  OBVIOUS
<1>1. StopFits(stops[o], r, rows[r])
  BY StopOfRun
<1> QED BY <1>1, QuietStop DEF StopFits

LEMMA LiveRunsHaveNoStop ==
  ASSUME LedgerInv, NEW r \in RowRuns, rows[r].state \notin StoppingRunState
  PROVE  \A o \in RowStops : stops[o].row.run = r => ~IsActive(stops[o])
<1> SUFFICES ASSUME NEW o \in RowStops, stops[o].row.run = r, IsActive(stops[o]) PROVE FALSE
  OBVIOUS
<1>1. StopReads(stops[o], rows[r])
  BY StopOfRun DEF StopFits
<1> QED BY <1>1, ActiveRunIsStopping

LEMMA OneActiveMoves ==
  ASSUME LedgerInv, NEW o \in RowStops, NEW stop \in StopRecord,
         IsActive(stop) => /\ stop.row.run # Unset
                           /\ \A p \in RowStops : p # o /\ IsActive(stops[p]) => stops[p].row.run # stop.row.run
  PROVE  OneActiveIn([stops EXCEPT ![o] = stop])
BY DEF LedgerInv, OneActiveIn

------------------------------------------------------------
(* Transitions of a run alone *)

(* A transition that writes the row of a run and no operation *)
LEMMA RowTransition ==
  ASSUME LedgerInv, NEW r \in RowRuns, NEW now, NEW previous, now > previous,
         NEW after \in RowRecord, RowReads(after),
         \A o \in RowStops : stops[o].row.run # r \/ StopFits(stops[o], r, after),
         confirmed' \in [RowRuns -> Nat],
         \A q \in RowRuns : q # r => confirmed'[q] = confirmed[q],
         ExitIsLater(after, confirmed'[r]),
         Transact(r, now, previous, after, stops)
  PROVE  LedgerInv'
<1>1. stops \in [RowStops -> StopRecord] /\ OneActiveIn(stops)
  BY DEF LedgerInv
<1> QED BY <1>1, TransactKeeps

LEMMA Creation ==
  ASSUME LedgerInv, NEW r \in RowRuns, NEW reading \in Readings, CreateStartingRun(r, reading)
  PROVE  LedgerInv'
<1>1. PICK entry : entry = [state |-> "STARTING", recovery |-> Unset, identity |-> FALSE, group |-> FALSE,
                        started |-> reading, updated |-> reading, ended |-> NoTime,
                        deletion |-> NoTime, deleted |-> NoTime]
  OBVIOUS
<1>2. entry \in RowRecord /\ RowReads(entry)
  BY <1>1, NewRowReads
<1>3. /\ rows[r] = Absent /\ rows' = [rows EXCEPT ![r] = entry]
      /\ stops' = stops /\ confirmed' = confirmed /\ refused' = refused
  BY <1>1 DEF CreateStartingRun
<1>4. rows'[r] = entry /\ \A q \in RowRuns : q # r => rows'[q] = rows[q]
  BY <1>3 DEF LedgerInv
<1>5. rows' \in [RowRuns -> RowRecord \cup {Absent}]
  BY <1>2, <1>3 DEF LedgerInv
<1>6. \A q \in RowRuns : RunIsKept(q)'
  BY <1>2, <1>4 DEF LedgerInv, RunIsKept
<1>7. ASSUME NEW o \in RowStops PROVE StopIsKept(o)'
  <2>1. CASE stops[o].row = AbsentRow
    BY <1>3, <2>1 DEF StopIsKept
  <2>2. CASE stops[o].row # AbsentRow
    <3>1. PICK q \in RowRuns : rows[q] # Absent /\ StopFits(stops[o], q, rows[q])
      BY <2>2 DEF LedgerInv, StopIsKept
    <3>2. q # r
      BY <1>3, <3>1
    <3> QED BY <1>3, <1>4, <3>1, <3>2 DEF StopIsKept
  <2> QED BY <2>1, <2>2
<1>8. ExitIsLater(entry, confirmed[r])
  BY <1>1, <1>3 DEF LedgerInv, ExitIsLater, Absent
<1>9. \A q \in RowRuns : ExitIsLater(rows[q], confirmed[q])'
  BY <1>3, <1>4, <1>8 DEF LedgerInv
<1>10. OneActiveIn(stops)'
  BY <1>3 DEF LedgerInv, OneActiveIn
<1> QED BY <1>3, <1>5, <1>6, <1>7, <1>9, <1>10 DEF LedgerInv

LEMMA Binding ==
  ASSUME LedgerInv, NEW r \in RowRuns, rows[r] # Absent, NEW reading \in Readings,
         BindIdentity(r, reading)
  PROVE  LedgerInv'
<1>1. PICK entry \in RowRecord : entry = rows[r] /\ RowReads(entry)
  BY PresentRow
<1>2. PICK now \in Nat : now = NextTimestamp(entry.updated, reading) /\ now > entry.updated
  BY ReadingsAreTimes, NextTimestampIsLater DEF RowRecord
<1>3. PICK group \in BOOLEAN :
        Transact(r, now, entry.updated,
                 [entry EXCEPT !.identity = TRUE, !.group = group, !.updated = now], stops)
  BY <1>1, <1>2 DEF BindIdentity
<1>4. PICK after : after = [entry EXCEPT !.identity = TRUE, !.group = group, !.updated = now]
  OBVIOUS
<1>5. after \in RowRecord
  BY <1>4 DEF RowRecord
<1>6. entry.state = "STARTING"
  BY <1>1 DEF BindIdentity, Unbound
<1>7. entry.ended = NoTime
  BY <1>1, <1>6, CandidateRow DEF RecoveryCandidate
<1>8. RowReads(after)
  <2>1. /\ after.state = "STARTING" /\ after.recovery = entry.recovery /\ after.identity
        /\ after.started = entry.started /\ after.updated = now /\ after.ended = NoTime
        /\ after.deletion = entry.deletion /\ after.deleted = entry.deleted
    BY <1>4, <1>6, <1>7 DEF RowRecord
  <2>2. entry.state \in RecoveryCandidate /\ after.state \in RecoveryCandidate /\ now >= entry.updated
    BY <1>2, <1>6, <2>1 DEF RecoveryCandidate, RowRecord
  <2> QED BY <1>1, <1>5, <1>6, <2>1, <2>2, MovedRowReads
<1>9. after.state = entry.state /\ after.ended = entry.ended
  BY <1>4 DEF RowRecord
<1>10. \A o \in RowStops : stops[o].row.run # r \/ StopFits(stops[o], r, after)
  BY <1>1, <1>8, <1>9, OtherStopsStay
<1>11. confirmed' = confirmed /\ confirmed \in [RowRuns -> Nat]
  BY DEF BindIdentity, LedgerInv
<1>12. ExitIsLater(after, confirmed[r])
  BY <1>1, <1>6, <1>9 DEF LedgerInv, ExitIsLater
<1> QED BY <1>2, <1>3, <1>4, <1>5, <1>8, <1>10, <1>11, <1>12, RowTransition

LEMMA LaunchEnd ==
  ASSUME LedgerInv, NEW r \in RowRuns, rows[r] # Absent, NEW reading \in Readings,
         NEW state \in {"RUNNING", "FAILED", "ORPHANED"}, EndLaunch(r, state, reading)
  PROVE  LedgerInv'
<1>1. PICK entry \in RowRecord : entry = rows[r] /\ RowReads(entry)
  BY PresentRow
<1>2. PICK now \in Nat : now = NextTimestamp(entry.updated, reading) /\ now > entry.updated
  BY ReadingsAreTimes, NextTimestampIsLater DEF RowRecord
<1>3. PICK end \in Nat : end = IF state = "FAILED" THEN now ELSE NoTime
  BY DEF NoTime
<1>4. PICK after : after = [Stamped(entry, state, now) EXCEPT !.ended = end]
  OBVIOUS
<1>5. Transact(r, now, entry.updated, after, stops)
  BY <1>1, <1>2, <1>3, <1>4 DEF EndLaunch
<1>6. entry.state = "STARTING" /\ entry.state \in RecoveryCandidate /\ (state = "RUNNING" => entry.identity)
  BY <1>1 DEF EndLaunch, Startable, RecoveryCandidate
<1>7. /\ after \in RowRecord /\ after.state = state /\ after.ended = end /\ after.updated = now
      /\ after.recovery = entry.recovery /\ after.identity = entry.identity /\ after.group = entry.group
      /\ after.started = entry.started /\ after.deletion = entry.deletion /\ after.deleted = entry.deleted
  BY <1>4 DEF Stamped, RowRecord, RunState
<1>8. RowReads(after)
  <2>1. CASE state = "RUNNING"
    <3>1. after.ended = NoTime /\ after.identity /\ after.state \in RecoveryCandidate
      BY <1>3, <1>6, <1>7, <2>1 DEF RecoveryCandidate, LiveRunState
    <3>2. now >= entry.updated
      BY <1>2 DEF RowRecord
    <3> QED BY <1>1, <1>6, <1>7, <2>1, <3>1, <3>2, MovedRowReads
  <2>2. CASE state # "RUNNING"
    <3>1. after.state \in TerminalRunState /\ after.state # "EXITED_WHILE_OFFLINE"
      BY <1>7, <2>2 DEF TerminalRunState
    <3>2. after.ended = IF after.state \in {"EXITED", "FAILED", "EXITED_WHILE_OFFLINE"} THEN now ELSE NoTime
      BY <1>3, <1>7
    <3> QED BY <1>1, <1>2, <1>6, <1>7, <3>1, <3>2, EndedRowReads
  <2> QED BY <2>1, <2>2
<1>9. \A o \in RowStops : stops[o].row.run # r \/ StopFits(stops[o], r, after)
  <2>1. rows[r].state \notin StoppingRunState
    BY <1>1, <1>6 DEF StoppingRunState
  <2> QED BY <1>1, <1>6, <1>8, <2>1, LiveRunsHaveNoStop, QuietStopsStay
<1>10. confirmed' = confirmed /\ confirmed \in [RowRuns -> Nat] /\ confirmed[r] = NoTime
  BY <1>1, <1>6 DEF EndLaunch, LedgerInv, ExitIsLater
<1>11. ExitIsLater(after, confirmed[r])
  BY <1>10 DEF ExitIsLater
<1> QED BY <1>2, <1>5, <1>7, <1>8, <1>9, <1>10, <1>11, RowTransition

(* The rows stay, and the stamps of the monitors move. *)
LEMMA MonitorStep ==
  ASSUME LedgerInv, UNCHANGED <<rows, stops, refused>>, confirmed' \in [RowRuns -> Nat],
         \A q \in RowRuns : ExitIsLater(rows[q], confirmed'[q])
  PROVE  LedgerInv'
<1>1. \A r \in RowRuns : RunIsKept(r)'
  BY DEF LedgerInv, RunIsKept
<1>2. \A o \in RowStops : StopIsKept(o)'
  BY DEF LedgerInv, StopIsKept
<1>3. OneActiveIn(stops)'
  BY DEF LedgerInv, OneActiveIn
<1>4. \A q \in RowRuns : ExitIsLater(rows[q], confirmed[q])'
  BY DEF ExitIsLater
<1> QED BY <1>1, <1>2, <1>3, <1>4 DEF LedgerInv

LEMMA Confirmation ==
  ASSUME LedgerInv, NEW r \in RowRuns, rows[r] # Absent, NEW reading \in Readings,
         ConfirmExit(r, reading)
  PROVE  LedgerInv'
<1>1. PICK entry \in RowRecord : entry = rows[r] /\ RowReads(entry)
  BY PresentRow
<1>2. PICK now \in Nat : now = NextTimestamp(entry.updated, reading) /\ now > entry.updated
  BY ReadingsAreTimes, NextTimestampIsLater DEF RowRecord
<1>3. confirmed' = [confirmed EXCEPT ![r] = now] /\ confirmed \in [RowRuns -> Nat]
  BY <1>1, <1>2 DEF ConfirmExit, LedgerInv
<1>4. ExitIsLater(rows[r], now)
  BY <1>1, <1>2 DEF ConfirmExit, ExitIsLater
<1>5. \A q \in RowRuns : ExitIsLater(rows[q], confirmed'[q])
  BY <1>3, <1>4 DEF LedgerInv
<1> QED BY <1>3, <1>5, MonitorStep DEF ConfirmExit

(* The monitor may give up a stamp at any time. *)
LEMMA StampGivenUp ==
  ASSUME LedgerInv, NEW r \in RowRuns
  PROVE  /\ [confirmed EXCEPT ![r] = NoTime] \in [RowRuns -> Nat]
         /\ \A q \in RowRuns : ExitIsLater(rows[q], [confirmed EXCEPT ![r] = NoTime][q])
<1>1. [confirmed EXCEPT ![r] = NoTime] \in [RowRuns -> Nat]
  BY DEF LedgerInv, NoTime
<1>2. \A entry : ExitIsLater(entry, NoTime)
  BY DEF ExitIsLater
<1>3. \A q \in RowRuns : [confirmed EXCEPT ![r] = NoTime][q] = IF q = r THEN NoTime ELSE confirmed[q]
  BY DEF LedgerInv
<1> QED BY <1>1, <1>2, <1>3 DEF LedgerInv

LEMMA MonitorLeaves ==
  ASSUME LedgerInv, NEW r \in RowRuns, MonitorReturns(r)
  PROVE  LedgerInv'
BY StampGivenUp, MonitorStep DEF MonitorReturns

LEMMA ExitRecorded ==
  ASSUME LedgerInv, NEW r \in RowRuns, rows[r] # Absent, MarkRunningExited(r)
  PROVE  LedgerInv'
<1>1. CASE /\ SameExit(r) /\ confirmed' = [confirmed EXCEPT ![r] = NoTime]
           /\ UNCHANGED <<rows, stops, refused>>
  BY <1>1, StampGivenUp, MonitorStep
<1>2. CASE /\ Exitable(r)
           /\ Transact(r, confirmed[r], rows[r].updated,
                       [Stamped(rows[r], "EXITED", confirmed[r]) EXCEPT !.ended = confirmed[r]], stops)
           /\ confirmed' \in {confirmed, [confirmed EXCEPT ![r] = NoTime]}
  <2>1. PICK entry \in RowRecord : entry = rows[r] /\ RowReads(entry)
    BY PresentRow
  <2>2. entry.state = "RUNNING" /\ entry.state \in RecoveryCandidate
    BY <1>2, <2>1 DEF Exitable, RecoveryCandidate, LiveRunState
  <2>3. PICK now \in Nat : now = confirmed[r] /\ now > entry.updated
    BY <2>1, <2>2 DEF MarkRunningExited, LedgerInv, ExitIsLater
  <2>4. PICK after : after = [Stamped(entry, "EXITED", now) EXCEPT !.ended = now]
    OBVIOUS
  <2>5. Transact(r, now, entry.updated, after, stops)
    BY <1>2, <2>1, <2>3, <2>4
  <2>6. /\ after \in RowRecord /\ after.state = "EXITED" /\ after.ended = now /\ after.updated = now
        /\ after.recovery = entry.recovery /\ after.identity = entry.identity /\ after.group = entry.group
        /\ after.started = entry.started /\ after.deletion = entry.deletion /\ after.deleted = entry.deleted
    BY <2>4 DEF Stamped, RowRecord, RunState
  <2>7. RowReads(after)
    <3>1. after.state \in TerminalRunState
      BY <2>6 DEF TerminalRunState
    <3> QED BY <2>1, <2>2, <2>3, <2>6, <3>1, EndedRowReads
  <2>8. \A o \in RowStops : stops[o].row.run # r \/ StopFits(stops[o], r, after)
    <3>1. rows[r].state \notin StoppingRunState
      BY <2>1, <2>2 DEF StoppingRunState
    <3> QED BY <2>1, <2>2, <2>7, <3>1, LiveRunsHaveNoStop, QuietStopsStay
  <2>9. /\ confirmed' \in [RowRuns -> Nat]
        /\ \A q \in RowRuns : q # r => confirmed'[q] = confirmed[q]
    BY <1>2 DEF LedgerInv, NoTime
  <2>10. ExitIsLater(after, confirmed'[r])
    BY <2>6 DEF ExitIsLater
  <2> QED BY <2>3, <2>5, <2>6, <2>7, <2>8, <2>9, <2>10, RowTransition
<1> QED BY <1>1, <1>2 DEF MarkRunningExited

LEMMA LogDeletionBegun ==
  ASSUME LedgerInv, NEW r \in RowRuns, rows[r] # Absent, NEW reading \in Readings,
         BeginLogDeletion(r, reading)
  PROVE  LedgerInv'
<1>1. PICK entry \in RowRecord : entry = rows[r] /\ RowReads(entry)
  BY PresentRow
<1>2. RetentionTime(entry) \in Nat
  BY DEF RetentionTime, RowRecord
<1>3. PICK now \in Nat : now = NextTimestamp(RetentionTime(entry), reading) /\ now > RetentionTime(entry)
  BY <1>2, ReadingsAreTimes, NextTimestampIsLater
<1>4. PICK after : after = [entry EXCEPT !.deletion = now]
  OBVIOUS
<1>5. Transact(r, now, RetentionTime(entry), after, stops)
  BY <1>1, <1>3, <1>4 DEF BeginLogDeletion
<1>6. Finished(entry) /\ entry.deletion = NoTime
  BY <1>1 DEF BeginLogDeletion
<1>7. /\ after \in RowRecord /\ after.state = entry.state /\ after.ended = entry.ended
      /\ after.updated = entry.updated /\ after.started = entry.started /\ after.recovery = entry.recovery
      /\ after.identity = entry.identity /\ after.group = entry.group
      /\ after.deletion = now /\ after.deleted = entry.deleted
  BY <1>4 DEF RowRecord
<1>8. RetentionTime(after) = RetentionTime(entry)
  BY <1>7 DEF RetentionTime
<1>9. entry.deleted = NoTime
  BY <1>1, <1>6 DEF RowReads, RunReads
<1>10. RowReads(after)
  <2>1. RetentionReads(after) /\ CandidateReads(after)
    BY <1>2, <1>3, <1>7, <1>8, <1>9 DEF RetentionReads, CandidateReads
  <2>2. EndFits(after) /\ RecoveryFits(after) /\ (after.group => after.identity) /\ Finished(after)
    BY <1>1, <1>6, <1>7
    DEF RowReads, RunReads, TimelineReads, EndFits, RecoveryFits, Finished
  <2>3. after.state \notin RecoveryCandidate /\ after.state # "RUNNING"
    BY <2>2 DEF Finished, RecoveryCandidate, LiveRunState, StoppingRunState, TerminalRunState
  <2> QED
    BY <1>7, <1>9, <2>1, <2>2, <2>3 DEF RowReads, RunReads, SummaryReads, HistoryReads, TimelineReads
<1>11. \A o \in RowStops : stops[o].row.run # r \/ StopFits(stops[o], r, after)
  BY <1>1, <1>7, <1>10, OtherStopsStay
<1>12. confirmed' = confirmed /\ confirmed \in [RowRuns -> Nat]
  BY DEF BeginLogDeletion, LedgerInv
<1>13. ExitIsLater(after, confirmed[r])
  BY <1>1, <1>7 DEF LedgerInv, ExitIsLater
<1> QED BY <1>3, <1>5, <1>7, <1>10, <1>11, <1>12, <1>13, RowTransition

LEMMA LogsDeleted ==
  ASSUME LedgerInv, NEW r \in RowRuns, rows[r] # Absent, NEW reading \in Readings,
         MarkLogsDeleted(r, reading)
  PROVE  LedgerInv'
<1>1. PICK entry \in RowRecord : entry = rows[r] /\ RowReads(entry)
  BY PresentRow
<1>2. entry.deletion \in Nat
  BY DEF RowRecord
<1>3. PICK now \in Nat : now = NextTimestamp(entry.deletion, reading) /\ now > entry.deletion
  BY <1>2, ReadingsAreTimes, NextTimestampIsLater
<1>4. PICK after : after = [entry EXCEPT !.deleted = now]
  OBVIOUS
<1>5. Transact(r, now, entry.deletion, after, stops)
  BY <1>1, <1>3, <1>4 DEF MarkLogsDeleted
<1>6. Finished(entry) /\ entry.deletion # NoTime
  BY <1>1 DEF MarkLogsDeleted
<1>7. /\ after \in RowRecord /\ after.state = entry.state /\ after.ended = entry.ended
      /\ after.updated = entry.updated /\ after.started = entry.started /\ after.recovery = entry.recovery
      /\ after.identity = entry.identity /\ after.group = entry.group
      /\ after.deletion = entry.deletion /\ after.deleted = now
  BY <1>4 DEF RowRecord
<1>8. RetentionTime(after) = RetentionTime(entry)
  BY <1>7 DEF RetentionTime
<1>9. RetentionTime(entry) <= entry.deletion
  BY <1>1, <1>6 DEF RowReads, RunReads, RetentionReads
<1>10. RowReads(after)
  <2>1. RetentionReads(after) /\ CandidateReads(after)
    BY <1>2, <1>3, <1>7, <1>8, <1>9 DEF RetentionReads, CandidateReads
  <2>2. EndFits(after) /\ RecoveryFits(after) /\ (after.group => after.identity) /\ Finished(after)
    BY <1>1, <1>6, <1>7
    DEF RowReads, RunReads, TimelineReads, EndFits, RecoveryFits, Finished
  <2>3. after.state \notin RecoveryCandidate /\ after.state # "RUNNING"
    BY <2>2 DEF Finished, RecoveryCandidate, LiveRunState, StoppingRunState, TerminalRunState
  <2> QED
    BY <1>6, <1>7, <2>1, <2>2, <2>3 DEF RowReads, RunReads, SummaryReads, HistoryReads, TimelineReads
<1>11. \A o \in RowStops : stops[o].row.run # r \/ StopFits(stops[o], r, after)
  BY <1>1, <1>7, <1>10, OtherStopsStay
<1>12. confirmed' = confirmed /\ confirmed \in [RowRuns -> Nat]
  BY DEF MarkLogsDeleted, LedgerInv
<1>13. ExitIsLater(after, confirmed[r])
  BY <1>1, <1>7 DEF LedgerInv, ExitIsLater
<1> QED BY <1>3, <1>5, <1>7, <1>10, <1>11, <1>12, <1>13, RowTransition

------------------------------------------------------------
(* Transitions of a run and one operation *)

LEMMA StopTransition ==
  ASSUME LedgerInv, NEW r \in RowRuns, NEW now, NEW previous, now > previous,
         NEW after \in RowRecord, RowReads(after),
         NEW o \in RowStops, NEW stop \in StopRecord, StopFits(stop, r, after),
         \A p \in RowStops : p = o \/ stops[p].row.run # r \/ StopFits(stops[p], r, after),
         IsActive(stop) =>
           \A p \in RowStops : p # o /\ IsActive(stops[p]) => stops[p].row.run # r,
         UNCHANGED confirmed, ExitIsLater(after, confirmed[r]),
         Transact(r, now, previous, after, [stops EXCEPT ![o] = stop])
  PROVE  LedgerInv'
<1>1. PICK changed : changed = [stops EXCEPT ![o] = stop]
  OBVIOUS
<1>2. changed \in [RowStops -> StopRecord]
  BY <1>1 DEF LedgerInv
<1>3. stop.row.run = r /\ r # Unset
  BY UnsetIsNoValue DEF StopFits
<1>4. OneActiveIn(changed)
  BY <1>1, <1>3, OneActiveMoves
<1>5. \A p \in RowStops :
        (changed[p] = stops[p] /\ stops[p].row.run # r) \/ StopFits(changed[p], r, after)
  BY <1>1 DEF LedgerInv
<1>6. confirmed' \in [RowRuns -> Nat] /\ ExitIsLater(after, confirmed'[r])
      /\ \A q \in RowRuns : q # r => confirmed'[q] = confirmed[q]
  BY DEF LedgerInv
<1> QED BY <1>1, <1>2, <1>4, <1>5, <1>6, TransactKeeps

(* What is asked for reads. *)
LEMMA AskedReads ==
  ASSUME NEW r \in RowRuns, NEW k \in Kind, NEW superseded \in RowStops \cup {Unset}, NEW now \in Nat,
         NEW entry, RowReads(entry), entry.ended = NoTime, Eligible(k, "REQUESTED", entry.state)
  PROVE  /\ Asked(r, k, superseded, now) \in StopRecord
         /\ StopFits(Asked(r, k, superseded, now), r, entry)
<1>1. PICK stop : stop = Asked(r, k, superseded, now)
  OBVIOUS
<1>2. /\ stop.row = RequestedRow(r, k, superseded) /\ stop.created = now /\ stop.updated = now
      /\ stop.completed = NoTime
  BY <1>1 DEF Asked
<1>3. /\ stop.row.run = r /\ stop.row.kind = k /\ stop.row.status = "REQUESTED"
      /\ stop.row.disposition = "NONE" /\ stop.row.outcome = "NONE"
  BY <1>2 DEF RequestedRow
<1>4. stop \in StopRecord
  BY <1>1 DEF Asked, StopRecord, OperationRow, RequestedRow, ActiveStatus, NoTime
<1>5. ValidResult(stop.row, entry.state)
  BY <1>3 DEF ValidResult
<1>6. StopReads(stop, entry)
  BY <1>2, <1>3, <1>5 DEF StopReads, StopResultReads, RowReads, FinalStatus
<1> QED BY <1>1, <1>3, <1>4, <1>6 DEF StopFits

LEMMA StopBegun ==
  ASSUME LedgerInv, NEW r \in RowRuns, rows[r] # Absent, NEW reading \in Readings,
         NEW o \in RowStops, NEW k \in Kind, BeginStop(r, o, k, reading)
  PROVE  LedgerInv'
<1>1. PICK entry \in RowRecord : entry = rows[r] /\ RowReads(entry)
  BY PresentRow
<1>2. PICK now \in Nat : now = NextTimestamp(LatestOf(r), reading) /\ now > LatestOf(r)
  BY ReadingsAreTimes, NextTimestampIsLater, LatestIsLatest
<1>3. now > entry.updated
  BY <1>1, <1>2, LatestIsLatest DEF RowRecord
<1>4. PICK after : after = Stamped(entry, "STOP_REQUESTED", now)
  OBVIOUS
<1>5. PICK stop : stop = Asked(r, k, Unset, now)
  OBVIOUS
<1>6. Transact(r, now, entry.updated, after, [stops EXCEPT ![o] = stop])
  BY <1>1, <1>2, <1>4, <1>5 DEF BeginStop
<1>7. entry.state \in LiveRunState /\ entry.state \in RecoveryCandidate /\ entry.identity
  BY <1>1 DEF BeginStop, RecoveryCandidate
<1>8. entry.ended = NoTime
  BY <1>1, <1>7, CandidateRow
<1>9. /\ after \in RowRecord /\ after.state = "STOP_REQUESTED" /\ after.ended = entry.ended
      /\ after.updated = now /\ after.started = entry.started /\ after.recovery = entry.recovery
      /\ after.identity = entry.identity /\ after.group = entry.group
      /\ after.deletion = entry.deletion /\ after.deleted = entry.deleted
  BY <1>4 DEF Stamped, RowRecord, RunState
<1>10. RowReads(after)
  <2>1. after.state \in RecoveryCandidate
    BY <1>9 DEF RecoveryCandidate, StoppingRunState
  <2>2. now >= entry.updated
    BY <1>3 DEF RowRecord
  <2> QED BY <1>1, <1>7, <1>8, <1>9, <2>1, <2>2, MovedRowReads
<1>11. stop \in StopRecord /\ StopFits(stop, r, after)
  BY <1>5, <1>8, <1>9, <1>10, AskedReads DEF Eligible
<1>12. \A p \in RowStops : stops[p].row.run = r => ~IsActive(stops[p])
  <2>1. rows[r].state \notin StoppingRunState
    BY <1>1, <1>7 DEF LiveRunState, StoppingRunState
  <2> QED BY <2>1, LiveRunsHaveNoStop
<1>13. \A p \in RowStops : p = o \/ stops[p].row.run # r \/ StopFits(stops[p], r, after)
  BY <1>1, <1>7, <1>10, <1>12, QuietStopsStay
<1>14. UNCHANGED confirmed /\ ExitIsLater(after, confirmed[r])
  BY <1>9 DEF BeginStop, ExitIsLater
<1> QED BY <1>3, <1>6, <1>9, <1>10, <1>11, <1>12, <1>13, <1>14, StopTransition

LEMMA FinishedStopBegun ==
  ASSUME LedgerInv, NEW r \in RowRuns, rows[r] # Absent, NEW reading \in Readings,
         NEW o \in RowStops, NEW k \in Kind, BeginFinished(r, o, k, reading)
  PROVE  LedgerInv'
<1>1. PICK entry \in RowRecord : entry = rows[r] /\ RowReads(entry)
  BY PresentRow
<1>2. PICK now \in Nat : now = NextTimestamp(LatestOf(r), reading) /\ now > LatestOf(r)
  BY ReadingsAreTimes, NextTimestampIsLater, LatestIsLatest
<1>3. now > entry.updated
  BY <1>1, <1>2, LatestIsLatest DEF RowRecord
<1>4. PICK outcome : outcome = OutcomeOfFinishedRun(entry.state)
  OBVIOUS
<1>5. PICK stop : stop = Ended(Asked(r, k, Unset, now), CompletedRow(RequestedRow(r, k, Unset), outcome), now)
  OBVIOUS
<1>6. Transact(r, now, entry.updated, entry, [stops EXCEPT ![o] = stop])
  BY <1>1, <1>2, <1>4, <1>5 DEF BeginFinished, Asked
<1>7. entry.state \in TerminalRunState
  BY <1>1 DEF BeginFinished, Finished
<1>8. /\ outcome \in {"ALREADY_EXITED", "IDENTITY_MISMATCH", "ORPHANED", "FAILED"}
      /\ outcome = "ALREADY_EXITED" => entry.state \in {"EXITED", "EXITED_WHILE_OFFLINE"}
      /\ outcome # "ALREADY_EXITED" => outcome = entry.state
  BY <1>4, <1>7 DEF OutcomeOfFinishedRun, TerminalRunState
<1>9. /\ stop.row.run = r /\ stop.row.kind = k /\ stop.row.status = "COMPLETED"
      /\ stop.row.disposition = "NONE" /\ stop.row.outcome = outcome
      /\ stop.created = now /\ stop.updated = now /\ stop.completed = now
  BY <1>5 DEF Ended, Moved, Asked, CompletedRow, RequestedRow
<1>10. stop \in StopRecord
  BY <1>5, <1>8 DEF Ended, Moved, Asked, CompletedRow, RequestedRow, StopRecord, OperationRow,
                    FinalStatus, Outcome
<1>11. now # NoTime
  BY <1>3 DEF RowRecord, NoTime
<1>12. ValidResult(stop.row, entry.state)
  BY <1>8, <1>9 DEF ValidResult, ActiveStatus
<1>13. outcome \in {"IDENTITY_MISMATCH", "ORPHANED", "SIGNAL_UNAVAILABLE"} => entry.ended = NoTime
  BY <1>1, <1>8 DEF RowReads, SummaryReads, EndFits
<1>14. StopReads(stop, entry)
  BY <1>1, <1>9, <1>11, <1>12, <1>13
  DEF StopReads, StopResultReads, RowReads, FinalStatus, ActiveStatus
<1>15. StopFits(stop, r, entry) /\ ~IsActive(stop)
  BY <1>9, <1>14 DEF StopFits, IsActive, ActiveStatus
<1>16. \A p \in RowStops : p = o \/ stops[p].row.run # r \/ StopFits(stops[p], r, entry)
  BY <1>1, StopOfRun
<1>17. UNCHANGED confirmed /\ ExitIsLater(entry, confirmed[r])
  BY <1>1 DEF BeginFinished, LedgerInv
<1> QED BY <1>1, <1>3, <1>6, <1>10, <1>15, <1>16, <1>17, StopTransition

------------------------------------------------------------
(* The stages of a worker *)

(* What a worker finds: its operation goes on, and its run is being *)
(* stopped.                                                         *)
LEMMA WorkerFinds ==
  ASSUME LedgerInv, NEW o \in RowStops, IsActive(stops[o])
  PROVE  \E r \in RowRuns :
           /\ stops[o].row.run = r /\ rows[r] # Absent /\ stops[o] \in StopRecord
           /\ rows[r] \in RowRecord /\ RowReads(rows[r]) /\ StopReads(stops[o], rows[r])
           /\ rows[r].state \in StoppingRunState /\ rows[r].ended = NoTime
           /\ Eligible(stops[o].row.kind, stops[o].row.status, rows[r].state)
           /\ \A p \in RowStops : p # o /\ IsActive(stops[p]) => stops[p].row.run # r
<1>1. stops[o].row.status # "ABSENT"
  BY DEF IsActive, ActiveStatus
<1>2. PICK r \in RowRuns :
        /\ rows[r] # Absent /\ rows[r] \in RowRecord /\ RowReads(rows[r])
        /\ stops[o] \in StopRecord /\ stops[o].row.run = r /\ StopReads(stops[o], rows[r])
  BY <1>1, PresentStop
<1>3. rows[r].state \in StoppingRunState /\ rows[r].ended = NoTime
  BY <1>2, ActiveRunIsStopping
<1>4. Eligible(stops[o].row.kind, stops[o].row.status, rows[r].state)
  BY <1>2 DEF StopReads, IsActive
<1>5. \A p \in RowStops : p # o /\ IsActive(stops[p]) => stops[p].row.run # r
  BY <1>2 DEF LedgerInv, OneActiveIn
<1> QED BY <1>2, <1>3, <1>4, <1>5

LEMMA WorkerTimeIsLater ==
  ASSUME LedgerInv, NEW o \in RowStops, NEW r \in RowRuns, stops[o].row.run = r,
         rows[r] \in RowRecord, NEW reading \in Readings
  PROVE  /\ WorkerTime(o, reading) \in Nat
         /\ WorkerTime(o, reading) > Later(stops[o].updated, rows[r].updated)
         /\ WorkerTime(o, reading) > stops[o].updated /\ WorkerTime(o, reading) > rows[r].updated
<1>1. PICK a \in Nat : a = stops[o].updated
  BY DEF LedgerInv, StopRecord
<1>2. PICK b \in Nat : b = rows[r].updated
  BY DEF RowRecord
<1>3. PICK m \in Nat : m = Later(a, b) /\ m >= a /\ m >= b
  BY LaterIsLater
<1>4. PICK now \in Nat : now = NextTimestamp(m, reading) /\ now > m
  BY ReadingsAreTimes, NextTimestampIsLater
<1>5. WorkerTime(o, reading) = now
  BY <1>1, <1>2, <1>3, <1>4 DEF WorkerTime
<1>6. now > a /\ now > b
  BY <1>3, <1>4
<1> QED BY <1>1, <1>2, <1>3, <1>4, <1>5, <1>6

(* A stage that leaves the operation as `stop' and the run as `after' *)
LEMMA StageKeeps ==
  ASSUME LedgerInv, NEW o \in RowStops, NEW r \in RowRuns, stops[o].row.run = r,
         rows[r].state \in RecoveryCandidate,
         \A p \in RowStops : p # o /\ IsActive(stops[p]) => stops[p].row.run # r,
         NEW now \in Nat, now > Later(stops[o].updated, rows[r].updated),
         NEW entry, entry.run = r,
         NEW stop \in StopRecord,
         stop = IF entry.status \in FinalStatus THEN Ended(stops[o], entry, now) ELSE Moved(stops[o], entry, now),
         NEW after \in RowRecord, RowReads(after), StopReads(stop, after), entry.status # "ABSENT",
         after.state \notin {"STARTING", "RUNNING"},
         Stage(o, entry, now, after), UNCHANGED confirmed
  PROVE  LedgerInv'
<1>1. stop.row = entry
  BY DEF Ended, Moved, LedgerInv, StopRecord
<1>2. StopFits(stop, r, after)
  BY <1>1 DEF StopFits
<1>3. Transact(r, now, Later(stops[o].updated, rows[r].updated), after, [stops EXCEPT ![o] = stop])
  BY DEF Stage
<1>4. \A p \in RowStops : p = o \/ stops[p].row.run # r \/ StopFits(stops[p], r, after)
  BY QuietStopsStay
<1>5. ExitIsLater(after, confirmed[r])
  BY DEF ExitIsLater, RowRecord, RunState
<1> QED BY <1>2, <1>3, <1>4, <1>5, StopTransition

LEMMA SignalPending ==
  ASSUME LedgerInv, NEW o \in RowStops, NEW reading \in Readings, MarkSignalPending(o, reading)
  PROVE  LedgerInv'
<1>1. IsActive(stops[o])
  BY DEF MarkSignalPending, IsActive, ActiveStatus
<1>2. PICK r \in RowRuns :
        /\ stops[o].row.run = r /\ rows[r] # Absent /\ stops[o] \in StopRecord
        /\ rows[r] \in RowRecord /\ RowReads(rows[r]) /\ StopReads(stops[o], rows[r])
        /\ rows[r].state \in StoppingRunState /\ rows[r].ended = NoTime
        /\ Eligible(stops[o].row.kind, stops[o].row.status, rows[r].state)
        /\ \A p \in RowStops : p # o /\ IsActive(stops[p]) => stops[p].row.run # r
  BY <1>1, WorkerFinds
<1>3. PICK now \in Nat :
        /\ now = WorkerTime(o, reading) /\ now > Later(stops[o].updated, rows[r].updated)
        /\ now > stops[o].updated /\ now > rows[r].updated
  BY <1>2, WorkerTimeIsLater
<1>4. PICK entry : entry = [stops[o].row EXCEPT !.status = "SIGNAL_PENDING"]
  OBVIOUS
<1>5. PICK stop : stop = Moved(stops[o], entry, now)
  OBVIOUS
<1>6. /\ entry \in OperationRow /\ entry.run = r /\ entry.kind = stops[o].row.kind
      /\ entry.status = "SIGNAL_PENDING"
      /\ entry.disposition = stops[o].row.disposition /\ entry.outcome = stops[o].row.outcome
  BY <1>2, <1>4 DEF StopRecord, OperationRow, ActiveStatus
<1>7. /\ stop \in StopRecord /\ stop.row = entry /\ stop.created = stops[o].created
      /\ stop.updated = now /\ stop.completed = stops[o].completed
  BY <1>2, <1>5, <1>6 DEF Moved, StopRecord
<1>8. stops[o].row.status = "REQUESTED"
  BY DEF MarkSignalPending
<1>9. Eligible(entry.kind, entry.status, rows[r].state)
  BY <1>2, <1>6, <1>8 DEF Eligible
<1>10. StopReads(stop, rows[r])
  BY <1>2, <1>3, <1>6, <1>7, <1>8, <1>9
  DEF StopReads, StopResultReads, ValidResult, StopRecord, FinalStatus, ActiveStatus
<1>11. Stage(o, entry, now, rows[r]) /\ UNCHANGED confirmed
  BY <1>2, <1>3, <1>4 DEF MarkSignalPending
<1>12. entry.status \notin FinalStatus
  BY <1>6 DEF FinalStatus
<1>13. rows[r].state \in RecoveryCandidate /\ rows[r].state \notin {"STARTING", "RUNNING"}
  BY <1>2 DEF RecoveryCandidate, StoppingRunState
<1> QED BY <1>2, <1>3, <1>5, <1>6, <1>7, <1>10, <1>11, <1>12, <1>13, StageKeeps

LEMMA SignalAttempted ==
  ASSUME LedgerInv, NEW o \in RowStops, NEW reading \in Readings, NEW d \in Disposition,
         MarkSignalAttempted(o, d, reading)
  PROVE  LedgerInv'
<1>1. IsActive(stops[o])
  BY DEF MarkSignalAttempted, IsActive, ActiveStatus
<1>2. PICK r \in RowRuns :
        /\ stops[o].row.run = r /\ rows[r] # Absent /\ stops[o] \in StopRecord
        /\ rows[r] \in RowRecord /\ RowReads(rows[r]) /\ StopReads(stops[o], rows[r])
        /\ rows[r].state \in StoppingRunState /\ rows[r].ended = NoTime
        /\ Eligible(stops[o].row.kind, stops[o].row.status, rows[r].state)
        /\ \A p \in RowStops : p # o /\ IsActive(stops[p]) => stops[p].row.run # r
  BY <1>1, WorkerFinds
<1>3. PICK now \in Nat :
        /\ now = WorkerTime(o, reading) /\ now > Later(stops[o].updated, rows[r].updated)
        /\ now > stops[o].updated /\ now > rows[r].updated
  BY <1>2, WorkerTimeIsLater
<1>4. PICK entry : entry = [stops[o].row EXCEPT !.status = "IN_PROGRESS", !.disposition = d]
  OBVIOUS
<1>5. PICK stop : stop = Moved(stops[o], entry, now)
  OBVIOUS
<1>6. PICK after : after = Stamped(rows[r], SignalledRunState(stops[o].row.kind), now)
  OBVIOUS
<1>7. /\ entry \in OperationRow /\ entry.run = r /\ entry.kind = stops[o].row.kind
      /\ entry.status = "IN_PROGRESS"
      /\ entry.disposition = d /\ entry.outcome = stops[o].row.outcome
  BY <1>2, <1>4 DEF StopRecord, OperationRow, ActiveStatus
<1>8. /\ stop \in StopRecord /\ stop.row = entry /\ stop.created = stops[o].created
      /\ stop.updated = now /\ stop.completed = stops[o].completed
  BY <1>2, <1>5, <1>7 DEF Moved, StopRecord
<1>9. /\ after \in RowRecord /\ after.state = SignalledRunState(entry.kind) /\ after.updated = now
      /\ after.ended = rows[r].ended /\ after.started = rows[r].started
      /\ after.recovery = rows[r].recovery
      /\ after.identity = rows[r].identity /\ after.group = rows[r].group
      /\ after.deletion = rows[r].deletion /\ after.deleted = rows[r].deleted
  BY <1>2, <1>6, <1>7 DEF Stamped, RowRecord, RunState, SignalledRunState
<1>10. /\ rows[r].state \in RecoveryCandidate
       /\ after.state \in StoppingRunState /\ after.state \in RecoveryCandidate
       /\ after.state \notin {"STARTING", "RUNNING", "RECOVERED"}
  BY <1>2, <1>9 DEF RecoveryCandidate, StoppingRunState, SignalledRunState
<1>11. RowReads(after)
  <2>1. now >= rows[r].updated
    BY <1>2, <1>3 DEF RowRecord
  <2>2. after.group => after.identity
    BY <1>2, <1>9 DEF RowReads, RunReads
  <2> QED BY <1>2, <1>9, <1>10, <2>1, <2>2, MovedRowReads
<1>12. stops[o].row.status = "SIGNAL_PENDING"
  BY DEF MarkSignalAttempted
<1>13. Eligible(entry.kind, entry.status, after.state)
  BY <1>2, <1>7, <1>9 DEF Eligible, SignalledRunState, StopRecord, OperationRow, Kind
<1>14. ValidResult(stop.row, after.state)
  <2>1. stops[o].row.outcome = "NONE"
    BY <1>2, <1>12 DEF StopReads, StopResultReads, ValidResult
  <2>2. d # "NONE"
    BY DEF Disposition
  <2> QED BY <1>7, <1>8, <1>13, <2>1, <2>2 DEF ValidResult
<1>15. StopReads(stop, after)
  <2>1. stop.created <= stop.updated
    BY <1>2, <1>3, <1>8 DEF StopReads, StopResultReads, StopRecord
  <2>2. stop.completed = NoTime
    BY <1>2, <1>8, <1>12 DEF StopReads, StopResultReads, FinalStatus
  <2> QED
    BY <1>2, <1>7, <1>8, <1>9, <1>11, <1>13, <1>14, <2>1, <2>2
    DEF StopReads, StopResultReads, RowReads, FinalStatus
<1>16. Stage(o, entry, now, after) /\ UNCHANGED confirmed
  BY <1>2, <1>3, <1>4, <1>6 DEF MarkSignalAttempted
<1>17. entry.status \notin FinalStatus
  BY <1>7 DEF FinalStatus
<1> QED BY <1>2, <1>3, <1>5, <1>7, <1>8, <1>9, <1>10, <1>11, <1>15, <1>16, <1>17, StageKeeps

LEMMA TimedOut ==
  ASSUME LedgerInv, NEW o \in RowStops, NEW reading \in Readings, MarkTimedOut(o, reading)
  PROVE  LedgerInv'
<1>1. IsActive(stops[o])
  BY DEF MarkTimedOut, IsActive, ActiveStatus
<1>2. PICK r \in RowRuns :
        /\ stops[o].row.run = r /\ rows[r] # Absent /\ stops[o] \in StopRecord
        /\ rows[r] \in RowRecord /\ RowReads(rows[r]) /\ StopReads(stops[o], rows[r])
        /\ rows[r].state \in StoppingRunState /\ rows[r].ended = NoTime
        /\ Eligible(stops[o].row.kind, stops[o].row.status, rows[r].state)
        /\ \A p \in RowStops : p # o /\ IsActive(stops[p]) => stops[p].row.run # r
  BY <1>1, WorkerFinds
<1>3. PICK now \in Nat :
        /\ now = WorkerTime(o, reading) /\ now > Later(stops[o].updated, rows[r].updated)
        /\ now > stops[o].updated /\ now > rows[r].updated
  BY <1>2, WorkerTimeIsLater
<1>4. PICK entry : entry = [stops[o].row EXCEPT !.status = "TIMED_OUT"]
  OBVIOUS
<1>5. PICK stop : stop = Moved(stops[o], entry, now)
  OBVIOUS
<1>6. PICK after : after = [rows[r] EXCEPT !.updated = now]
  OBVIOUS
<1>7. /\ entry \in OperationRow /\ entry.run = r /\ entry.kind = stops[o].row.kind
      /\ entry.status = "TIMED_OUT"
      /\ entry.disposition = stops[o].row.disposition /\ entry.outcome = stops[o].row.outcome
  BY <1>2, <1>4 DEF StopRecord, OperationRow, ActiveStatus
<1>8. /\ stop \in StopRecord /\ stop.row = entry /\ stop.created = stops[o].created
      /\ stop.updated = now /\ stop.completed = stops[o].completed
  BY <1>2, <1>5, <1>7 DEF Moved, StopRecord
<1>9. /\ after \in RowRecord /\ after.state = rows[r].state /\ after.updated = now
      /\ after.ended = rows[r].ended /\ after.started = rows[r].started
      /\ after.recovery = rows[r].recovery
      /\ after.identity = rows[r].identity /\ after.group = rows[r].group
      /\ after.deletion = rows[r].deletion /\ after.deleted = rows[r].deleted
  BY <1>2, <1>6 DEF RowRecord
<1>10. /\ rows[r].state \in RecoveryCandidate /\ after.state \in RecoveryCandidate
       /\ after.state \notin {"STARTING", "RUNNING", "RECOVERED"}
  BY <1>2, <1>9 DEF RecoveryCandidate, StoppingRunState
<1>11. RowReads(after)
  <2>1. now >= rows[r].updated
    BY <1>2, <1>3 DEF RowRecord
  <2>2. after.group => after.identity
    BY <1>2, <1>9 DEF RowReads, RunReads
  <2> QED BY <1>2, <1>9, <1>10, <2>1, <2>2, MovedRowReads
<1>12. stops[o].row.status = "IN_PROGRESS" /\ stops[o].row.kind = "GRACEFUL"
  BY DEF MarkTimedOut
<1>13. Eligible(entry.kind, entry.status, after.state)
  BY <1>2, <1>7, <1>9, <1>12 DEF Eligible
<1>14. ValidResult(stop.row, after.state)
  <2>1. stops[o].row.outcome = "NONE" /\ stops[o].row.disposition # "NONE"
    BY <1>2, <1>12 DEF StopReads, StopResultReads, ValidResult
  <2> QED BY <1>7, <1>8, <1>13, <2>1 DEF ValidResult
<1>15. StopReads(stop, after)
  <2>1. stop.created <= stop.updated
    BY <1>2, <1>3, <1>8 DEF StopReads, StopResultReads, StopRecord
  <2>2. stop.completed = NoTime
    BY <1>2, <1>8, <1>12 DEF StopReads, StopResultReads, FinalStatus
  <2> QED
    BY <1>2, <1>7, <1>8, <1>9, <1>11, <1>13, <1>14, <2>1, <2>2
    DEF StopReads, StopResultReads, RowReads, FinalStatus
<1>16. Stage(o, entry, now, after) /\ UNCHANGED confirmed
  BY <1>2, <1>3, <1>4, <1>6 DEF MarkTimedOut
<1>17. entry.status \notin FinalStatus
  BY <1>7 DEF FinalStatus
<1> QED BY <1>2, <1>3, <1>5, <1>7, <1>8, <1>9, <1>10, <1>11, <1>15, <1>16, <1>17, StageKeeps

(* An operation that is closed with the outcome of its run *)
LEMMA ClosedReads ==
  ASSUME NEW r \in RowRuns, NEW stop \in StopRecord, NEW entry, StopFits(stop, r, entry), IsActive(stop),
         NEW now \in Nat, now >= stop.updated, now # NoTime,
         NEW outcome \in Outcome, NEW after, RowReads(after),
         outcome = "SIGNAL_UNAVAILABLE" => stop.row.disposition = "UNAVAILABLE",
         outcome = "EXITED" => after.state = "EXITED",
         outcome = "ALREADY_EXITED" => after.state \in {"EXITED", "EXITED_WHILE_OFFLINE"},
         outcome = "IDENTITY_MISMATCH" => after.state = "IDENTITY_MISMATCH",
         outcome \in {"ORPHANED", "SIGNAL_UNAVAILABLE"} => after.state = "ORPHANED",
         outcome = "FAILED" => after.state = "FAILED"
  PROVE  LET closed == Ended(stop, CompletedRow(stop.row, outcome), now)
         IN closed \in StopRecord /\ StopFits(closed, r, after) /\ ~IsActive(closed)
<1>1. PICK closed : closed = Ended(stop, CompletedRow(stop.row, outcome), now)
  OBVIOUS
<1>2. /\ closed \in StopRecord /\ closed.created = stop.created
      /\ closed.updated = now /\ closed.completed = now
      /\ closed.row.run = stop.row.run /\ closed.row.status = "COMPLETED"
      /\ closed.row.disposition = stop.row.disposition /\ closed.row.outcome = outcome
  BY <1>1 DEF Ended, Moved, CompletedRow, StopRecord, OperationRow, FinalStatus
<1>3. outcome # "NONE"
  BY DEF Outcome
<1>4. ValidResult(closed.row, after.state)
  BY <1>2, <1>3 DEF ValidResult, ActiveStatus, Outcome
<1>5. closed.created <= closed.updated /\ closed.completed \in closed.created..closed.updated
  <2>1. stop.created <= stop.updated /\ stop.created \in Nat /\ stop.updated \in Nat
    BY DEF StopFits, StopReads, StopResultReads, StopRecord
  <2> QED BY <1>2, <2>1
<1>6. outcome \in {"IDENTITY_MISMATCH", "ORPHANED", "SIGNAL_UNAVAILABLE"} => after.ended = NoTime
  BY DEF RowReads, SummaryReads, EndFits
<1>7. closed.row.status \notin ActiveStatus /\ closed.row.status \in FinalStatus
  BY <1>2 DEF ActiveStatus, FinalStatus
<1>8. StopReads(closed, after)
  BY <1>2, <1>4, <1>5, <1>6, <1>7 DEF StopReads, StopResultReads, RowReads
<1> QED BY <1>1, <1>2, <1>7, <1>8 DEF StopFits, IsActive

LEMMA Completion ==
  ASSUME LedgerInv, NEW o \in RowStops, NEW reading \in Readings, NEW outcome \in Outcome,
         CompleteWith(o, outcome, reading)
  PROVE  LedgerInv'
<1>1. IsActive(stops[o])
  BY DEF CompleteWith, IsActive, ActiveStatus
<1>2. PICK r \in RowRuns :
        /\ stops[o].row.run = r /\ rows[r] # Absent /\ stops[o] \in StopRecord
        /\ rows[r] \in RowRecord /\ RowReads(rows[r]) /\ StopReads(stops[o], rows[r])
        /\ rows[r].state \in StoppingRunState /\ rows[r].ended = NoTime
        /\ Eligible(stops[o].row.kind, stops[o].row.status, rows[r].state)
        /\ \A p \in RowStops : p # o /\ IsActive(stops[p]) => stops[p].row.run # r
  BY <1>1, WorkerFinds
<1>3. PICK now \in Nat :
        /\ now = WorkerTime(o, reading) /\ now > Later(stops[o].updated, rows[r].updated)
        /\ now > stops[o].updated /\ now > rows[r].updated
  BY <1>2, WorkerTimeIsLater
<1>4. PICK entry : entry = CompletedRow(stops[o].row, outcome)
  OBVIOUS
<1>5. PICK stop : stop = Ended(stops[o], entry, now)
  OBVIOUS
<1>6. PICK state : state = RunStateAfter(outcome)
  OBVIOUS
<1>7. /\ state \in {"EXITED", "IDENTITY_MISMATCH", "ORPHANED", "FAILED"}
      /\ outcome \in {"EXITED", "ALREADY_EXITED"} => state = "EXITED"
      /\ outcome = "IDENTITY_MISMATCH" => state = "IDENTITY_MISMATCH"
      /\ outcome \in {"ORPHANED", "SIGNAL_UNAVAILABLE"} => state = "ORPHANED"
      /\ outcome = "FAILED" => state = "FAILED"
  BY <1>6 DEF RunStateAfter, Outcome
<1>8. PICK end \in Nat : end = IF state \in {"EXITED", "FAILED"} THEN now ELSE NoTime
  BY DEF NoTime
<1>9. PICK after : after = [Stamped(rows[r], state, now) EXCEPT !.ended = end]
  OBVIOUS
<1>10. /\ after \in RowRecord /\ after.state = state /\ after.updated = now
       /\ after.ended = end /\ after.started = rows[r].started
       /\ after.recovery = rows[r].recovery
       /\ after.identity = rows[r].identity /\ after.group = rows[r].group
       /\ after.deletion = rows[r].deletion /\ after.deleted = rows[r].deleted
  BY <1>2, <1>7, <1>9 DEF Stamped, RowRecord, RunState
<1>11. /\ rows[r].state \in RecoveryCandidate
       /\ after.state \in TerminalRunState /\ after.state # "EXITED_WHILE_OFFLINE"
       /\ after.state \notin {"STARTING", "RUNNING"}
  BY <1>2, <1>7, <1>10 DEF RecoveryCandidate, TerminalRunState
<1>12. RowReads(after)
  <2>1. after.ended = IF after.state \in {"EXITED", "FAILED", "EXITED_WHILE_OFFLINE"} THEN now ELSE NoTime
    BY <1>7, <1>8, <1>10
  <2> QED BY <1>2, <1>3, <1>10, <1>11, <2>1, EndedRowReads
<1>13. now >= stops[o].updated /\ now # NoTime
  BY <1>2, <1>3 DEF StopRecord, NoTime
<1>14. outcome = "SIGNAL_UNAVAILABLE" => stops[o].row.disposition = "UNAVAILABLE"
  BY DEF CompleteWith, Completable
<1>15. StopFits(stops[o], r, rows[r])
  BY <1>2, StopOfRun
<1>16. stop \in StopRecord /\ StopFits(stop, r, after) /\ ~IsActive(stop)
  <2>1. /\ outcome = "EXITED" => after.state = "EXITED"
        /\ outcome = "ALREADY_EXITED" => after.state \in {"EXITED", "EXITED_WHILE_OFFLINE"}
        /\ outcome = "IDENTITY_MISMATCH" => after.state = "IDENTITY_MISMATCH"
        /\ outcome \in {"ORPHANED", "SIGNAL_UNAVAILABLE"} => after.state = "ORPHANED"
        /\ outcome = "FAILED" => after.state = "FAILED"
    BY <1>7, <1>10
  <2> QED BY <1>1, <1>2, <1>4, <1>5, <1>12, <1>13, <1>14, <1>15, <2>1, ClosedReads
<1>17. entry.run = r /\ entry.status = "COMPLETED" /\ entry.status \in FinalStatus
  BY <1>2, <1>4 DEF CompletedRow, StopRecord, OperationRow, FinalStatus
<1>18. Stage(o, entry, now, after) /\ UNCHANGED confirmed
  BY <1>2, <1>3, <1>4, <1>6, <1>8, <1>9 DEF CompleteWith
<1>19. StopReads(stop, after)
  BY <1>16 DEF StopFits
<1> QED
  BY <1>2, <1>3, <1>5, <1>10, <1>11, <1>12, <1>16, <1>17, <1>18, <1>19, StageKeeps

------------------------------------------------------------
(* A force stop takes the place of a graceful one. *)
LEMMA SupersededReads ==
  ASSUME NEW r \in RowRuns, NEW stop \in StopRecord, NEW entry, StopFits(stop, r, entry), IsActive(stop),
         stop.row.kind = "GRACEFUL", NEW now \in Nat, now >= stop.updated, now # NoTime,
         NEW after, RowReads(after)
  PROVE  LET closed == Ended(stop, [stop.row EXCEPT !.status = "SUPERSEDED"], now)
         IN closed \in StopRecord /\ StopFits(closed, r, after) /\ ~IsActive(closed)
<1>1. PICK closed : closed = Ended(stop, [stop.row EXCEPT !.status = "SUPERSEDED"], now)
  OBVIOUS
<1>2. /\ closed \in StopRecord /\ closed.created = stop.created
      /\ closed.updated = now /\ closed.completed = now
      /\ closed.row.run = stop.row.run /\ closed.row.status = "SUPERSEDED"
      /\ closed.row.kind = stop.row.kind
      /\ closed.row.disposition = stop.row.disposition /\ closed.row.outcome = stop.row.outcome
  BY <1>1 DEF Ended, Moved, StopRecord, OperationRow, FinalStatus
<1>3. stop.row.outcome = "NONE"
  BY DEF StopFits, StopReads, StopResultReads, ValidResult, IsActive, ActiveStatus
<1>4. ValidResult(closed.row, after.state)
  BY <1>2, <1>3 DEF ValidResult, ActiveStatus
<1>5. closed.created <= closed.updated /\ closed.completed \in closed.created..closed.updated
  <2>1. stop.created <= stop.updated /\ stop.created \in Nat /\ stop.updated \in Nat
    BY DEF StopFits, StopReads, StopResultReads, StopRecord
  <2> QED BY <1>2, <2>1
<1>6. closed.row.status \notin ActiveStatus /\ closed.row.status \in FinalStatus
  BY <1>2 DEF ActiveStatus, FinalStatus
<1>7. StopReads(closed, after)
  BY <1>2, <1>3, <1>4, <1>5, <1>6 DEF StopReads, StopResultReads, RowReads
<1> QED BY <1>1, <1>2, <1>6, <1>7 DEF StopFits, IsActive

LEMMA Supersession ==
  ASSUME LedgerInv, NEW r \in RowRuns, rows[r] # Absent, NEW reading \in Readings,
         NEW o \in RowStops, NEW g \in RowStops, BeginSupersession(r, o, g, reading)
  PROVE  LedgerInv'
<1>1. PICK entry \in RowRecord : entry = rows[r] /\ RowReads(entry)
  BY PresentRow
<1>2. stops[g].row.run = r /\ IsActive(stops[g]) /\ stops[g] \in StopRecord /\ stops[g].row.kind = "GRACEFUL"
  BY DEF BeginSupersession, ActiveOf, StopsOf, IsActive, LedgerInv
<1>3. StopFits(stops[g], r, entry)
  BY <1>1, <1>2, StopOfRun
<1>4. PICK now \in Nat : now = NextTimestamp(LatestOf(r), reading) /\ now > LatestOf(r)
  BY ReadingsAreTimes, NextTimestampIsLater, LatestIsLatest
<1>5. now > entry.updated /\ now > stops[g].updated
  <2>1. LatestOf(r) >= entry.updated /\ LatestOf(r) \in Nat
    BY <1>1, LatestIsLatest
  <2>2. g \in ActiveOf(r)
    BY DEF BeginSupersession
  <2>3. LatestOf(r) >= stops[g].updated
    BY <2>2, LatestIsLatest
  <2>4. entry.updated \in Nat /\ stops[g].updated \in Nat
    BY <1>1, <1>2 DEF RowRecord, StopRecord
  <2> QED BY <1>4, <2>1, <2>3, <2>4
<1>6. PICK after : after = [entry EXCEPT !.updated = now]
  OBVIOUS
<1>7. PICK asked : asked = Asked(r, "FORCE", g, now)
  OBVIOUS
<1>8. PICK closed : closed = Ended(stops[g], [stops[g].row EXCEPT !.status = "SUPERSEDED"], now)
  OBVIOUS
<1>9. PICK previous : previous = Later(stops[g].updated, entry.updated) /\ now > previous
  BY <1>1, <1>2, <1>5 DEF Later, RowRecord, StopRecord
<1>10. PICK changed : changed = [stops EXCEPT ![o] = asked, ![g] = closed]
  OBVIOUS
<1>11. Transact(r, now, previous, after, changed)
  BY <1>1, <1>4, <1>6, <1>7, <1>8, <1>9, <1>10 DEF BeginSupersession
<1>12. entry.state \in {"STOP_REQUESTED", "GRACEFUL_STOPPING"} /\ entry.state \in RecoveryCandidate
  BY <1>1 DEF BeginSupersession, RecoveryCandidate, StoppingRunState
<1>13. entry.ended = NoTime
  BY <1>1, <1>12, CandidateRow
<1>14. /\ after \in RowRecord /\ after.state = entry.state /\ after.updated = now
       /\ after.ended = entry.ended /\ after.started = entry.started /\ after.recovery = entry.recovery
       /\ after.identity = entry.identity /\ after.group = entry.group
       /\ after.deletion = entry.deletion /\ after.deleted = entry.deleted
  BY <1>6 DEF RowRecord
<1>15. RowReads(after)
  <2>1. now >= entry.updated
    BY <1>5 DEF RowRecord
  <2>2. after.group => after.identity
    BY <1>1, <1>14 DEF RowReads, RunReads
  <2> QED BY <1>1, <1>12, <1>13, <1>14, <2>1, <2>2, MovedRowReads
<1>16. asked \in StopRecord /\ StopFits(asked, r, after)
  <2>1. Eligible("FORCE", "REQUESTED", after.state)
    BY <1>12, <1>14 DEF Eligible
  <2> QED BY <1>7, <1>13, <1>14, <1>15, <2>1, AskedReads DEF Kind
<1>17. closed \in StopRecord /\ StopFits(closed, r, after) /\ ~IsActive(closed)
  <2>1. now >= stops[g].updated /\ now # NoTime
    BY <1>2, <1>5 DEF StopRecord, NoTime
  <2> QED BY <1>2, <1>3, <1>8, <1>15, <2>1, SupersededReads
<1>18. o # g
  BY <1>2 DEF BeginSupersession, Unused, IsActive, ActiveStatus
<1>19. /\ changed \in [RowStops -> StopRecord] /\ changed[o] = asked /\ changed[g] = closed
       /\ \A p \in RowStops : p # o /\ p # g => changed[p] = stops[p]
  BY <1>10, <1>16, <1>17, <1>18 DEF LedgerInv
<1>20. \A p \in RowStops : p # g /\ stops[p].row.run = r => ~IsActive(stops[p])
  BY <1>2 DEF LedgerInv, OneActiveIn
<1>21. OneActiveIn(changed)
  <2>1. \A p \in RowStops : IsActive(changed[p]) => p = o \/ (changed[p] = stops[p] /\ IsActive(stops[p]) /\ p # g)
    BY <1>17, <1>19
  <2>2. changed[o].row.run = r
    BY <1>16, <1>19 DEF StopFits
  <2> QED BY <1>20, <2>1, <2>2 DEF OneActiveIn, LedgerInv
<1>22. \A p \in RowStops :
         (changed[p] = stops[p] /\ stops[p].row.run # r) \/ StopFits(changed[p], r, after)
  <2>1. \A p \in RowStops : stops[p].row.run # r \/ StopFits(stops[p], r, after)
    BY <1>1, <1>14, <1>15, OtherStopsStay
  <2> QED BY <1>16, <1>17, <1>19, <2>1
<1>23. /\ confirmed' \in [RowRuns -> Nat] /\ \A q \in RowRuns : q # r => confirmed'[q] = confirmed[q]
       /\ ExitIsLater(after, confirmed'[r])
  BY <1>12, <1>14 DEF BeginSupersession, LedgerInv, ExitIsLater
<1> QED BY <1>9, <1>11, <1>14, <1>15, <1>19, <1>21, <1>22, <1>23, TransactKeeps

------------------------------------------------------------
(* The reconciliation of a run at startup *)
LEMMA Reconciliation ==
  ASSUME LedgerInv, NEW r \in RowRuns, rows[r] # Absent, NEW reading \in Readings,
         NEW outcome \in RecoveryOutcome, ReconcileRun(r, outcome, reading)
  PROVE  LedgerInv'
<1>1. PICK entry \in RowRecord : entry = rows[r] /\ RowReads(entry)
  BY PresentRow
<1>2. PICK now \in Nat : now = NextTimestamp(LatestOf(r), reading) /\ now > LatestOf(r)
  BY ReadingsAreTimes, NextTimestampIsLater, LatestIsLatest
<1>3. PICK previous \in Nat : previous = LatestOf(r) /\ previous >= entry.updated
  BY <1>1, LatestIsLatest
<1>4. now > entry.updated /\ now > previous
  BY <1>2, <1>3 DEF RowRecord
<1>5. PICK kept \in BOOLEAN : kept = (outcome = "RECOVERED" /\ ActiveOf(r) # {})
  OBVIOUS
<1>6. PICK state : state = IF kept THEN entry.state ELSE outcome
  OBVIOUS
<1>7. PICK end \in Nat : end = IF outcome = "EXITED_WHILE_OFFLINE" THEN now ELSE NoTime
  BY DEF NoTime
<1>8. PICK after : after = [entry EXCEPT !.state = state, !.recovery = outcome, !.updated = now, !.ended = end]
  OBVIOUS
<1> DEFINE Closed(o) == Ended(stops[o], CompletedRow(stops[o].row, StopOutcomeAfterRecovery(outcome)), now)
<1>9. PICK changed : changed = [o \in RowStops |-> IF o \in ActiveOf(r) /\ ~kept THEN Closed(o) ELSE stops[o]]
  OBVIOUS
<1>10. Transact(r, now, previous, after, changed)
  <2>1. after = [rows[r] EXCEPT !.state = IF kept THEN @ ELSE outcome, !.recovery = outcome,
                   !.updated = now, !.ended = IF outcome = "EXITED_WHILE_OFFLINE" THEN now ELSE NoTime]
    BY <1>1, <1>6, <1>7, <1>8
  <2> QED BY <1>2, <1>3, <1>5, <1>9, <2>1 DEF ReconcileRun
<1>11. entry.state \in RecoveryCandidate /\ (outcome = "RECOVERED" => MayRecover(r))
  BY <1>1 DEF ReconcileRun
<1>12. \A o \in RowStops : o \in ActiveOf(r) <=> stops[o].row.run = r /\ IsActive(stops[o])
  BY DEF ActiveOf, StopsOf, IsActive
<1>13. ActiveOf(r) # {} => entry.state \in StoppingRunState
  <2>1. ASSUME NEW o \in RowStops, o \in ActiveOf(r) PROVE entry.state \in StoppingRunState
    BY <1>1, <1>12, <2>1, StopOfRun, ActiveRunIsStopping DEF StopFits
  <2> QED BY <2>1 DEF ActiveOf, StopsOf
<1>14. entry.ended = NoTime /\ (entry.group => entry.identity)
  BY <1>1, <1>11, CandidateRow DEF RowReads, RunReads
<1>15. /\ after \in RowRecord /\ after.state = state /\ after.updated = now
       /\ after.ended = end /\ after.started = entry.started /\ after.recovery = outcome
       /\ after.identity = entry.identity /\ after.group = entry.group
       /\ after.deletion = entry.deletion /\ after.deleted = entry.deleted
  BY <1>6, <1>8 DEF RowRecord, RunState, RecoveryOutcome
<1>16. CASE outcome = "RECOVERED"
  <2>1. after.state \in {"RECOVERED"} \cup StoppingRunState
    BY <1>5, <1>6, <1>13, <1>15, <1>16
  <2>2. /\ after.state \in RecoveryCandidate /\ after.state \notin {"STARTING", "RUNNING"}
        /\ after.ended = NoTime /\ now >= entry.updated
    BY <1>4, <1>7, <1>15, <1>16, <2>1 DEF RecoveryCandidate, LiveRunState, StoppingRunState, RowRecord
  <2>3. RowReads(after)
    BY <1>1, <1>11, <1>14, <1>15, <1>16, <2>1, <2>2, MovedRowReads
  <2>4. changed = stops
    BY <1>5, <1>9, <1>16 DEF LedgerInv
  <2>5. \A o \in RowStops : stops[o].row.run # r \/ StopFits(stops[o], r, after)
    <3>1. CASE kept
      BY <1>1, <1>6, <1>14, <1>15, <2>2, <2>3, <3>1, OtherStopsStay
    <3>2. CASE ~kept
      <4>1. \A o \in RowStops : stops[o].row.run = r => ~IsActive(stops[o])
        BY <1>5, <1>12, <1>16, <3>2
      <4> QED BY <1>1, <1>11, <2>3, <4>1, QuietStopsStay
    <3> QED BY <3>1, <3>2
  <2>6. /\ confirmed' \in [RowRuns -> Nat] /\ \A q \in RowRuns : q # r => confirmed'[q] = confirmed[q]
        /\ ExitIsLater(after, confirmed'[r])
    BY <2>2 DEF ReconcileRun, LedgerInv, ExitIsLater, NoTime
  <2> QED BY <1>4, <1>10, <1>15, <2>3, <2>4, <2>5, <2>6, RowTransition
<1>17. CASE outcome # "RECOVERED"
  <2>1. ~kept /\ after.state = outcome /\ outcome \in {"EXITED_WHILE_OFFLINE", "IDENTITY_MISMATCH", "ORPHANED"}
    BY <1>5, <1>6, <1>15, <1>17 DEF RecoveryOutcome
  <2>2. after.state \in TerminalRunState /\ after.state \notin {"STARTING", "RUNNING"}
    BY <2>1 DEF TerminalRunState
  <2>3. after.ended = IF after.state \in {"EXITED", "FAILED", "EXITED_WHILE_OFFLINE"} THEN now ELSE NoTime
    BY <1>7, <1>15, <2>1
  <2>4. RowReads(after)
    BY <1>1, <1>4, <1>11, <1>15, <2>1, <2>2, <2>3, EndedRowReads
  <2>5. ASSUME NEW o \in ActiveOf(r)
        PROVE  Closed(o) \in StopRecord /\ StopFits(Closed(o), r, after) /\ ~IsActive(Closed(o))
    <3>1. o \in RowStops /\ stops[o].row.run = r /\ IsActive(stops[o]) /\ stops[o] \in StopRecord
      BY <2>5 DEF ActiveOf, StopsOf, IsActive, LedgerInv
    <3>2. StopFits(stops[o], r, entry)
      BY <1>1, <3>1, StopOfRun
    <3>3. now >= stops[o].updated /\ now # NoTime
      <4>1. previous >= stops[o].updated
        BY <1>3, <2>5, LatestIsLatest
      <4> QED BY <1>2, <1>3, <3>1, <4>1 DEF StopRecord, NoTime
    <3>4. PICK closed : closed = StopOutcomeAfterRecovery(outcome)
      OBVIOUS
    <3>5. /\ closed \in {"ALREADY_EXITED", "IDENTITY_MISMATCH", "ORPHANED"}
          /\ closed = "ALREADY_EXITED" => after.state = "EXITED_WHILE_OFFLINE"
          /\ closed # "ALREADY_EXITED" => after.state = closed
      BY <2>1, <3>4 DEF StopOutcomeAfterRecovery
    <3>6. closed \in Outcome
      BY <3>5 DEF Outcome
    <3> QED BY <2>4, <3>1, <3>2, <3>3, <3>4, <3>5, <3>6, ClosedReads
  <2>6. \A o \in RowStops : changed[o] = IF o \in ActiveOf(r) THEN Closed(o) ELSE stops[o]
    BY <1>9, <2>1
  <2> HIDE DEF Closed
  <2>7. changed \in [RowStops -> StopRecord]
    BY <1>9, <2>1, <2>5 DEF LedgerInv
  <2>8. OneActiveIn(changed)
    BY <2>5, <2>6 DEF OneActiveIn, LedgerInv
  <2>9. \A o \in RowStops :
          (changed[o] = stops[o] /\ stops[o].row.run # r) \/ StopFits(changed[o], r, after)
    <3>1. \A o \in RowStops : stops[o].row.run # r \/ IsActive(stops[o]) \/ StopFits(stops[o], r, after)
      BY <1>1, <1>11, <2>4, QuietStopsStay
    <3> QED BY <1>12, <2>5, <2>6, <3>1
  <2>10. /\ confirmed' \in [RowRuns -> Nat] /\ \A q \in RowRuns : q # r => confirmed'[q] = confirmed[q]
         /\ ExitIsLater(after, confirmed'[r])
    BY <2>2 DEF ReconcileRun, LedgerInv, ExitIsLater, NoTime
  <2> QED BY <1>4, <1>10, <1>15, <2>4, <2>7, <2>8, <2>9, <2>10, TransactKeeps
<1> QED BY <1>16, <1>17

------------------------------------------------------------
LEMMA LedgerStarts == RowsInit => LedgerInv
<1> SUFFICES ASSUME RowsInit PROVE LedgerInv
  OBVIOUS
<1>1. [row |-> AbsentRow, created |-> NoTime, updated |-> NoTime, completed |-> NoTime] \in StopRecord
  BY DEF AbsentRow, StopRecord, OperationRow, NoTime, Kind
<1>2. /\ rows \in [RowRuns -> RowRecord \cup {Absent}] /\ stops \in [RowStops -> StopRecord]
      /\ confirmed \in [RowRuns -> Nat] /\ ~refused
  BY <1>1 DEF RowsInit, NoTime
<1>3. \A r \in RowRuns : RunIsKept(r) /\ ExitIsLater(rows[r], confirmed[r])
  BY DEF RowsInit, RunIsKept, ExitIsLater, Absent
<1>4. \A o \in RowStops : stops[o].row = AbsentRow
  BY DEF RowsInit
<1>5. OneActiveIn(stops)
  BY <1>4 DEF OneActiveIn, IsActive, AbsentRow, ActiveStatus
<1> QED BY <1>2, <1>3, <1>4, <1>5 DEF LedgerInv, StopIsKept

LEMMA LedgerStays == LedgerInv /\ [RowsNext]_rowVars => LedgerInv'
<1> SUFFICES ASSUME LedgerInv, [RowsNext]_rowVars PROVE LedgerInv'
  OBVIOUS
<1>1. CASE UNCHANGED rowVars
  <2>1. UNCHANGED <<rows, stops, confirmed, refused>>
    BY <1>1 DEF rowVars
  <2> QED BY <2>1, MonitorStep DEF LedgerInv
<1>2. ASSUME NEW r \in RowRuns, NEW reading \in Readings, CreateStartingRun(r, reading)
      PROVE  LedgerInv'
  BY <1>2, Creation
<1>3. ASSUME NEW r \in RowRuns, NEW reading \in Readings, rows[r] # Absent, RunStep(r, reading)
      PROVE  LedgerInv'
  <2>1. CASE BindIdentity(r, reading)
    BY <1>3, <2>1, Binding
  <2>2. CASE \E s \in {"RUNNING", "FAILED", "ORPHANED"} : EndLaunch(r, s, reading)
    BY <1>3, <2>2, LaunchEnd
  <2>3. CASE ConfirmExit(r, reading)
    BY <1>3, <2>3, Confirmation
  <2>4. CASE MarkRunningExited(r)
    BY <1>3, <2>4, ExitRecorded
  <2>5. CASE MonitorReturns(r)
    BY <2>5, MonitorLeaves
  <2>6. CASE \E o \in RowStops, k \in Kind : BeginStop(r, o, k, reading) \/ BeginFinished(r, o, k, reading)
    BY <1>3, <2>6, StopBegun, FinishedStopBegun
  <2>7. CASE \E o, g \in RowStops : BeginSupersession(r, o, g, reading)
    BY <1>3, <2>7, Supersession
  <2>8. CASE \E outcome \in RecoveryOutcome : ReconcileRun(r, outcome, reading)
    BY <1>3, <2>8, Reconciliation
  <2>9. CASE BeginLogDeletion(r, reading)
    BY <1>3, <2>9, LogDeletionBegun
  <2>10. CASE MarkLogsDeleted(r, reading)
    BY <1>3, <2>10, LogsDeleted
  <2> QED
    BY <1>3, <2>1, <2>2, <2>3, <2>4, <2>5, <2>6, <2>7, <2>8, <2>9, <2>10 DEF RunStep
<1>4. ASSUME NEW o \in RowStops, NEW reading \in Readings, StopStep(o, reading)
      PROVE  LedgerInv'
  BY <1>4, SignalPending, SignalAttempted, TimedOut, Completion DEF StopStep
<1> QED BY <1>1, <1>2, <1>3, <1>4 DEF RowsNext

(* Whatever the clock does, every row that launches, stops, restarts and *)
(* the log retention leave is accepted by all that read it, and no       *)
(* transition that the states allow is refused (next_canonical_timestamp *)
(* and the transitions of run_contract.rs, stop_contract.rs and          *)
(* recovery_contract.rs).                                                *)
THEOREM RowsStayReadable == RowsInit /\ [][RowsNext]_rowVars => []RowsAreReadable
<1>1. LedgerInv => RowsAreReadable
  <2> SUFFICES ASSUME LedgerInv PROVE RowsAreReadable
    OBVIOUS
  <2>1. \A r \in RowRuns : rows[r] # Absent =>
          RowReads(rows[r]) /\ \A o \in StopsOf(r) : StopReads(stops[o], rows[r])
    BY PresentRow, StopOfRun DEF StopsOf, StopFits
  <2> QED BY <2>1, CalendarsAgree DEF RowsAreReadable, LedgerInv
<1> QED BY <1>1, LedgerStarts, LedgerStays, PTL

------------------------------------------------------------
(* The handles of a launch: what is dropped, and in which order. *)

(* All ends there are. *)
Ends == {CallLocals[i] : i \in 1..28}

(* The list of drops in which every end occurs has the output of a console *)
(* before the console.                                                     *)
LEMMA LocalsInOrder ==
  /\ DOMAIN CallLocals = 1..28
  /\ CallLocals[21] = "OutputReader" /\ CallLocals[22] = "Console"
  /\ \A i \in 1..28 : CallLocals[i] = "Console" => i = 22
BY DEF CallLocals, ChildFields, PseudoConsoleFields

(* q drops what is held of c in these ends, once the reader of a console's *)
(* output has been dropped the console.                                    *)
Drops(q, c, by, ends) ==
  /\ q \in Seq(Opened(c, by, ends))
  /\ \A e \in ends : \E i \in DOMAIN q : q[i].end = e
  /\ "OutputReader" \in ends =>
       \A i \in DOMAIN q : q[i].end = "Console" =>
         \E j \in DOMAIN q : j < i /\ q[j].end = "OutputReader"

LEMMA RankGrows ==
  ASSUME NEW n \in Nat, NEW at \in SUBSET (1..n), NEW i \in at, NEW j \in at, i < j
  PROVE  Rank(at, i) < Rank(at, j)
<1> DEFINE low == {k \in at : k <= i}  high == {k \in at : k <= j}
<1>1. IsFiniteSet(1..n)
  BY FS_Interval
<1>2. IsFiniteSet(high)
  BY <1>1, FS_Subset
<1>3. low \subseteq high /\ low # high
  <2>1. j \in high /\ j \notin low /\ low \subseteq high
    <3>1. i \in Nat /\ j \in Nat /\ \A k \in at : k \in Nat
      OBVIOUS
    <3>2. (\A k \in at : k <= i => k <= j) /\ ~(j <= i) /\ j <= j
      BY <3>1
    <3> QED BY <3>2
  <2> HIDE DEF low, high
  <2> QED BY <2>1
<1> HIDE DEF low, high
<1>4. Cardinality(low) <= Cardinality(high) /\ Cardinality(low) # Cardinality(high)
      /\ Cardinality(low) \in Nat /\ Cardinality(high) \in Nat
  BY <1>2, <1>3, FS_Subset, FS_CardinalityType
<1> QED BY <1>4 DEF low, high, Rank

LEMMA DroppedDrops ==
  ASSUME NEW c, NEW by, NEW ends \in SUBSET Ends
  PROVE  Drops(Dropped(c, by, ends), c, by, ends)
<1> DEFINE at == {i \in DOMAIN CallLocals : CallLocals[i] \in ends}
           order == Filtered(CallLocals, at)
           source(k) == CHOOSE i \in at : Rank(at, i) = k
           size == Cardinality(at)
           q == [i \in DOMAIN order |-> [of |-> c, by |-> by, end |-> order[i]]]
<1>1. at \in SUBSET (1..28) /\ \A i \in at : CallLocals[i] \in ends
  BY LocalsInOrder
<1>2. \A e \in ends : \E i \in at : CallLocals[i] = e
  BY LocalsInOrder DEF Ends
<1>3. order = [k \in 1..size |-> CallLocals[source(k)]]
  BY DEF Filtered, Rank
<1>4. Dropped(c, by, ends) = q
  BY DEF Dropped
<1> HIDE DEF at
<1>5. /\ size \in Nat
      /\ \A k \in 1..size : \E i \in at : Rank(at, i) = k
      /\ \A i \in at : Rank(at, i) \in 1..size
      /\ \A i, j \in at : Rank(at, i) = Rank(at, j) => i = j
  BY <1>1, RanksCover, SMTT(60)
<1>6. ASSUME NEW k \in 1..size PROVE source(k) \in at /\ Rank(at, source(k)) = k
  <2>1. \E i \in at : Rank(at, i) = k
    BY <1>5
  <2> QED BY <2>1
<1>7. \A i \in at : source(Rank(at, i)) = i
  BY <1>5, <1>6
<1> HIDE DEF source, order, size
<1>8. DOMAIN q = 1..size /\ \A k \in 1..size : q[k] = [of |-> c, by |-> by,
      end |-> CallLocals[source(k)]]
  BY <1>3
<1>9. q \in Seq(Opened(c, by, ends))
  <2>1. \A k \in 1..size : q[k] \in Opened(c, by, ends)
    <3>1. ASSUME NEW k \in 1..size PROVE q[k] \in Opened(c, by, ends)
      <4>1. CallLocals[source(k)] \in ends
        BY <1>1, <1>6
      <4>2. q[k] = [of |-> c, by |-> by, end |-> CallLocals[source(k)]]
        BY <1>8
      <4> HIDE DEF q
      <4> QED BY <4>1, <4>2 DEF Opened
    <3> QED BY <3>1
  <2>2. q \in [1..size -> Opened(c, by, ends)]
    BY <1>3, <2>1
  <2> QED BY <1>5, <2>2
<1>10. \A i \in at : Rank(at, i) \in DOMAIN q /\ q[Rank(at, i)].end = CallLocals[i]
  BY <1>5, <1>7, <1>8
<1>11. ASSUME NEW e \in ends PROVE \E k \in DOMAIN q : q[k].end = e
  <2>1. PICK i \in at : CallLocals[i] = e
    BY <1>2
  <2>2. PICK k : k \in DOMAIN q /\ q[k].end = e
    BY <1>10, <2>1
  <2> QED BY <2>2
<1>12. ASSUME "OutputReader" \in ends, NEW k \in DOMAIN q, q[k].end = "Console"
       PROVE  \E j \in DOMAIN q : j < k /\ q[j].end = "OutputReader"
  <2>1. source(k) = 22 /\ 22 \in at /\ Rank(at, 22) = k
    <3>1. CallLocals[source(k)] = "Console" /\ source(k) \in 1..28
      <4>1. q[k] = [of |-> c, by |-> by, end |-> CallLocals[source(k)]] /\ source(k) \in at
        BY <1>6, <1>8, <1>12
      <4>2. source(k) \in 1..28
        BY <1>1, <4>1
      <4>3. q[k].end = "Console"
        BY <1>12
      <4> HIDE DEF q, source
      <4> QED BY <4>1, <4>2, <4>3
    <3>2. source(k) = 22
      BY <3>1, LocalsInOrder
    <3> QED BY <1>6, <1>8, <3>2
  <2>2. 21 \in at
    BY <1>12, LocalsInOrder DEF at
  <2>3. Rank(at, 21) < Rank(at, 22)
    BY <1>1, <2>1, <2>2, RankGrows
  <2>4. q[Rank(at, 21)].end = "OutputReader" /\ Rank(at, 21) \in DOMAIN q
    BY <1>10, <2>2, LocalsInOrder
  <2>5. k = Rank(at, 22) /\ Rank(at, 21) < k
    BY <2>1, <2>3
  <2> HIDE DEF q
  <2> QED BY <2>4, <2>5
<1> HIDE DEF q
<1> QED BY <1>4, <1>9, <1>11, <1>12 DEF Drops

------------------------------------------------------------
(* Where the steps of a launch are. *)

StageOf(k) == LaunchSteps[k].stage

CreatesAt == IF Windows THEN (IF Terminal THEN 12 ELSE 14) ELSE IF Terminal THEN 12 ELSE 9
OwnsAt    == IF Windows THEN CreatesAt + 1 ELSE CreatesAt + 4
MarksAt   == IF Windows THEN OwnsAt + 10 ELSE OwnsAt + 4

IsAt(stage, n) == \A k \in 1..MarksAt : StageOf(k) = stage <=> k = n

PlacesFit ==
  /\ DOMAIN LaunchSteps = 1..MarksAt
  /\ IsAt("mark", MarksAt) /\ IsAt("resume", MarksAt - 1) /\ IsAt("capture", MarksAt - 2)
  /\ IsAt("own", OwnsAt)
  /\ \A k \in 1..MarksAt : StageOf(k) \in Creates <=> k = CreatesAt
  /\ IsAt("openpty", IF ~Windows /\ Terminal THEN 5 ELSE 0)
  /\ IsAt("CreatePseudoConsole", IF Windows /\ Terminal THEN 9 ELSE 0)
  /\ IsAt("OpenRequestedExecutable", IF Windows THEN 3 ELSE 0)
  /\ IsAt("AssignProcessToJobObject", IF Windows THEN OwnsAt + 1 ELSE 0)
  /\ IsAt("GetCreatedProcessImageFileId", IF Windows THEN OwnsAt + 4 ELSE 0)

LEMMA PlacesMacosPipes ==
  ASSUME ~Windows, ~Terminal
  PROVE  PlacesFit
<1> USE DEF StageOf, LaunchSteps, PrepareSteps, PrepareProcessGroup,
            SpawnAttributes, SpawnFileActions,
            DuplicatePipeWriters, OpenManagedTerminal, Ask, Close,
            Step
<1>0. MarksAt = 17 /\ OwnsAt = 13 /\ CreatesAt = 9
  BY DEF MarksAt, OwnsAt, CreatesAt
<1>1. DOMAIN LaunchSteps = 1..17
  OBVIOUS
<1>2. \A k \in 1..17 : StageOf(k) = "mark" <=> k = 17
  OBVIOUS
<1>3. \A k \in 1..17 : StageOf(k) = "resume" <=> k = 16
  OBVIOUS
<1>4. \A k \in 1..17 : StageOf(k) = "capture" <=> k = 15
  OBVIOUS
<1>5. \A k \in 1..17 : StageOf(k) = "own" <=> k = 13
  OBVIOUS
<1>6. \A k \in 1..17 : StageOf(k) \in {"posix_spawn", "CreateProcessW"} <=> k = 9
  OBVIOUS
<1>7. \A k \in 1..17 : StageOf(k) = "openpty" <=> k = 0
  OBVIOUS
<1>8. \A k \in 1..17 : StageOf(k) = "CreatePseudoConsole" <=> k = 0
  OBVIOUS
<1>9. \A k \in 1..17 : StageOf(k) = "OpenRequestedExecutable" <=> k = 0
  OBVIOUS
<1>10. \A k \in 1..17 : StageOf(k) = "AssignProcessToJobObject" <=> k = 0
  OBVIOUS
<1>11. \A k \in 1..17 : StageOf(k) = "GetCreatedProcessImageFileId" <=> k = 0
  OBVIOUS
<1> HIDE DEF StageOf, LaunchSteps, PrepareSteps, PrepareProcessGroup,
            SpawnAttributes, SpawnFileActions,
            DuplicatePipeWriters, OpenManagedTerminal, Ask, Close,
            Step
<1>12. /\ IsAt("mark", MarksAt) /\ IsAt("resume", MarksAt - 1)
       /\ IsAt("capture", MarksAt - 2) /\ IsAt("own", OwnsAt)
  BY <1>0, <1>2, <1>3, <1>4, <1>5 DEF IsAt
<1> QED BY <1>0, <1>1, <1>6, <1>7, <1>8, <1>9, <1>10, <1>11, <1>12 DEF PlacesFit, IsAt, Creates

LEMMA PlacesMacosTerminal ==
  ASSUME ~Windows, Terminal
  PROVE  PlacesFit
<1> USE DEF StageOf, LaunchSteps, PrepareSteps, PrepareProcessGroup,
            SpawnAttributes, SpawnFileActions,
            DuplicatePipeWriters, OpenManagedTerminal, Ask, Close,
            Step
<1>0. MarksAt = 20 /\ OwnsAt = 16 /\ CreatesAt = 12
  BY DEF MarksAt, OwnsAt, CreatesAt
<1>1. DOMAIN LaunchSteps = 1..20
  OBVIOUS
<1>2. \A k \in 1..20 : StageOf(k) = "mark" <=> k = 20
  OBVIOUS
<1>3. \A k \in 1..20 : StageOf(k) = "resume" <=> k = 19
  OBVIOUS
<1>4. \A k \in 1..20 : StageOf(k) = "capture" <=> k = 18
  OBVIOUS
<1>5. \A k \in 1..20 : StageOf(k) = "own" <=> k = 16
  OBVIOUS
<1>6. \A k \in 1..20 : StageOf(k) \in {"posix_spawn", "CreateProcessW"} <=> k = 12
  OBVIOUS
<1>7. \A k \in 1..20 : StageOf(k) = "openpty" <=> k = 5
  OBVIOUS
<1>8. \A k \in 1..20 : StageOf(k) = "CreatePseudoConsole" <=> k = 0
  OBVIOUS
<1>9. \A k \in 1..20 : StageOf(k) = "OpenRequestedExecutable" <=> k = 0
  OBVIOUS
<1>10. \A k \in 1..20 : StageOf(k) = "AssignProcessToJobObject" <=> k = 0
  OBVIOUS
<1>11. \A k \in 1..20 : StageOf(k) = "GetCreatedProcessImageFileId" <=> k = 0
  OBVIOUS
<1> HIDE DEF StageOf, LaunchSteps, PrepareSteps, PrepareProcessGroup,
            SpawnAttributes, SpawnFileActions,
            DuplicatePipeWriters, OpenManagedTerminal, Ask, Close,
            Step
<1>12. /\ IsAt("mark", MarksAt) /\ IsAt("resume", MarksAt - 1)
       /\ IsAt("capture", MarksAt - 2) /\ IsAt("own", OwnsAt)
  BY <1>0, <1>2, <1>3, <1>4, <1>5 DEF IsAt
<1> QED BY <1>0, <1>1, <1>6, <1>7, <1>8, <1>9, <1>10, <1>11, <1>12, ZenonT(60) DEF PlacesFit, IsAt, Creates

LEMMA PlacesWindowsPipes ==
  ASSUME Windows, ~Terminal
  PROVE  PlacesFit
<1> USE DEF StageOf, LaunchSteps, PrepareSteps, PrepareIntoJob, OpenImageFile,
            CreateJob, InheritedStandardHandles,
            PreparedPseudoConsole, AttributeList,
            VerifyProcessImage, Ask, Close, Step
<1>0. MarksAt = 25 /\ OwnsAt = 15 /\ CreatesAt = 14
  BY DEF MarksAt, OwnsAt, CreatesAt
<1>1. DOMAIN LaunchSteps = 1..25
  OBVIOUS
<1>2. \A k \in 1..25 : StageOf(k) = "mark" <=> k = 25
  OBVIOUS
<1>3. \A k \in 1..25 : StageOf(k) = "resume" <=> k = 24
  OBVIOUS
<1>4. \A k \in 1..25 : StageOf(k) = "capture" <=> k = 23
  OBVIOUS
<1>5. \A k \in 1..25 : StageOf(k) = "own" <=> k = 15
  OBVIOUS
<1>6. \A k \in 1..25 : StageOf(k) \in {"posix_spawn", "CreateProcessW"} <=> k = 14
  OBVIOUS
<1>7. \A k \in 1..25 : StageOf(k) = "openpty" <=> k = 0
  OBVIOUS
<1>8. \A k \in 1..25 : StageOf(k) = "CreatePseudoConsole" <=> k = 0
  OBVIOUS
<1>9. \A k \in 1..25 : StageOf(k) = "OpenRequestedExecutable" <=> k = 3
  OBVIOUS
<1>10. \A k \in 1..25 : StageOf(k) = "AssignProcessToJobObject" <=> k = 16
  OBVIOUS
<1>11. \A k \in 1..25 : StageOf(k) = "GetCreatedProcessImageFileId" <=> k = 19
  OBVIOUS
<1> HIDE DEF StageOf, LaunchSteps, PrepareSteps, PrepareIntoJob, OpenImageFile,
            CreateJob, InheritedStandardHandles,
            PreparedPseudoConsole, AttributeList,
            VerifyProcessImage, Ask, Close, Step
<1>12. /\ IsAt("mark", MarksAt) /\ IsAt("resume", MarksAt - 1)
       /\ IsAt("capture", MarksAt - 2) /\ IsAt("own", OwnsAt)
  BY <1>0, <1>2, <1>3, <1>4, <1>5 DEF IsAt
<1> QED BY <1>0, <1>1, <1>6, <1>7, <1>8, <1>9, <1>10, <1>11, <1>12 DEF PlacesFit, IsAt, Creates

LEMMA PlacesWindowsTerminal ==
  ASSUME Windows, Terminal
  PROVE  PlacesFit
<1> USE DEF StageOf, LaunchSteps, PrepareSteps, PrepareIntoJob, OpenImageFile,
            CreateJob, InheritedStandardHandles,
            PreparedPseudoConsole, AttributeList,
            VerifyProcessImage, Ask, Close, Step
<1>0. MarksAt = 23 /\ OwnsAt = 13 /\ CreatesAt = 12
  BY DEF MarksAt, OwnsAt, CreatesAt
<1>1. DOMAIN LaunchSteps = 1..23
  OBVIOUS
<1>2. \A k \in 1..23 : StageOf(k) = "mark" <=> k = 23
  OBVIOUS
<1>3. \A k \in 1..23 : StageOf(k) = "resume" <=> k = 22
  OBVIOUS
<1>4. \A k \in 1..23 : StageOf(k) = "capture" <=> k = 21
  OBVIOUS
<1>5. \A k \in 1..23 : StageOf(k) = "own" <=> k = 13
  OBVIOUS
<1>6. \A k \in 1..23 : StageOf(k) \in {"posix_spawn", "CreateProcessW"} <=> k = 12
  OBVIOUS
<1>7. \A k \in 1..23 : StageOf(k) = "openpty" <=> k = 0
  OBVIOUS
<1>8. \A k \in 1..23 : StageOf(k) = "CreatePseudoConsole" <=> k = 9
  OBVIOUS
<1>9. \A k \in 1..23 : StageOf(k) = "OpenRequestedExecutable" <=> k = 3
  OBVIOUS
<1>10. \A k \in 1..23 : StageOf(k) = "AssignProcessToJobObject" <=> k = 14
  OBVIOUS
<1>11. \A k \in 1..23 : StageOf(k) = "GetCreatedProcessImageFileId" <=> k = 17
  OBVIOUS
<1> HIDE DEF StageOf, LaunchSteps, PrepareSteps, PrepareIntoJob, OpenImageFile,
            CreateJob, InheritedStandardHandles,
            PreparedPseudoConsole, AttributeList,
            VerifyProcessImage, Ask, Close, Step
<1>12. /\ IsAt("mark", MarksAt) /\ IsAt("resume", MarksAt - 1)
       /\ IsAt("capture", MarksAt - 2) /\ IsAt("own", OwnsAt)
  BY <1>0, <1>2, <1>3, <1>4, <1>5 DEF IsAt
<1> QED BY <1>0, <1>1, <1>6, <1>7, <1>8, <1>9, <1>10, <1>11, <1>12 DEF PlacesFit, IsAt, Creates

LEMMA Places == MachinesAreKnown /\ machine \in Machines => PlacesFit
BY PlacesMacosPipes, PlacesMacosTerminal, PlacesWindowsPipes, PlacesWindowsTerminal

(* What leaves a call at a step: what is dropped or given to the owner. *)
Leaving(k) == LaunchSteps[k].closes \cup (IF StageOf(k) = "own" THEN OwnedEnds ELSE {})

(* What a call holds when it gets to a step: what an earlier one opened *)
(* and none has dropped or given away since.                            *)
HeldAt(k) ==
  {e \in Ends : \E i \in 1..(k - 1) : e \in LaunchSteps[i].opens
                                     /\ \A j \in (i + 1)..(k - 1) : e \notin Leaving(j)}

(* What a new owner is given. *)
Owned ==
  IF Windows THEN {"Job", "Process", "Thread"}
                  \cup (IF Terminal THEN {"Console", "InputWriter", "OutputReader"} ELSE {})
             ELSE IF Terminal THEN {"Master", "OutputMaster"} ELSE {}

(* The end e is opened by the step "from" and leaves at the step "to". *)
Lives(e, from, to) ==
  /\ from \in 1..MarksAt /\ to \in 1..MarksAt /\ from < to /\ to <= MarksAt - 4
  /\ \A k \in 1..MarksAt : e \in LaunchSteps[k].opens <=> k = from
  /\ \A k \in 1..MarksAt : e \in Leaving(k) <=> k = to

(* Every end leaves before the launch binds, those that an owner needs to it. *)
EndsFit ==
  /\ \A k \in 1..MarksAt : LaunchSteps[k].opens \subseteq Ends
  /\ \A k \in (MarksAt - 3)..MarksAt : LaunchSteps[k].opens = {}
  /\ HeldAt(MarksAt - 3) = {}
  /\ HeldAt(OwnsAt) \cap OwnedEnds = Owned
  /\ \A k \in 1..MarksAt : "Console" \notin LaunchSteps[k].closes
  /\ \A k \in 1..MarksAt :
       StageOf(k) = "CreatePseudoConsole" => LaunchSteps[k].closes = {}
         /\ "Console" \in LaunchSteps[k].opens

LEMMA LocalsAll ==
  Ends = {"ActualImage", "FileActions", "OutSource", "ErrSource", "Slave", "RawMaster", "RawSlave",
          "AttributeList", "NullDuplicate", "OutDuplicate", "ErrDuplicate", "Null", "InputReader",
          "OutputWriter", "Job", "Process", "Thread", "Master", "OutputMaster", "InputWriter",
          "OutputReader", "Console", "Attributes", "Image", "OutReader", "OutWriter", "ErrReader",
          "ErrWriter"}
BY DEF Ends, CallLocals, ChildFields, PseudoConsoleFields

LEMMA LivesOn ==
  ASSUME NEW e \in Ends, NEW from, NEW to, Lives(e, from, to), MarksAt \in Nat, OwnsAt \in 1..MarksAt
  PROVE  /\ e \notin HeldAt(MarksAt - 3)
         /\ from < OwnsAt /\ OwnsAt <= to => e \in HeldAt(OwnsAt)
         /\ \A k \in 1..MarksAt : e \in LaunchSteps[k].opens => k < MarksAt - 3
<1>1. ASSUME e \in HeldAt(MarksAt - 3) PROVE FALSE
  <2>1. PICK i \in 1..(MarksAt - 4) : e \in LaunchSteps[i].opens
                                     /\ \A j \in (i + 1)..(MarksAt - 4) : e \notin Leaving(j)
    BY <1>1 DEF HeldAt
  <2>2. i = from
    BY <2>1 DEF Lives
  <2> QED BY <2>1, <2>2 DEF Lives
<1>2. ASSUME from < OwnsAt, OwnsAt <= to PROVE e \in HeldAt(OwnsAt)
  <2>1. from \in 1..(OwnsAt - 1) /\ e \in LaunchSteps[from].opens
    BY <1>2 DEF Lives
  <2>2. \A j \in (from + 1)..(OwnsAt - 1) : e \notin Leaving(j)
    BY <1>2 DEF Lives
  <2> QED BY <2>1, <2>2 DEF HeldAt
<1>3. ASSUME NEW k \in 1..MarksAt, e \in LaunchSteps[k].opens PROVE k < MarksAt - 3
  BY <1>3 DEF Lives
<1> QED BY <1>1, <1>2, <1>3

LEMMA EndsMacosPipes ==
  ASSUME ~Windows, ~Terminal
  PROVE  EndsFit
<1> USE DEF StageOf, LaunchSteps, PrepareSteps, PrepareProcessGroup,
            SpawnAttributes, SpawnFileActions,
            DuplicatePipeWriters, OpenManagedTerminal, Ask, Close,
            Step, Leaving, OwnedEnds
<1>0. MarksAt = 17 /\ OwnsAt = 13
  BY DEF MarksAt, OwnsAt, CreatesAt
<1> DEFINE all == {"Attributes", "OutSource", "ErrSource", "FileActions"}
<1>1. \A k \in 1..17 : LaunchSteps[k].opens \subseteq all
  OBVIOUS
<1>2. \A k \in 1..17 : "Attributes" \in LaunchSteps[k].opens <=> k = 3
  OBVIOUS
<1>3. \A k \in 1..17 : "Attributes" \in Leaving(k) <=> k = 13
  OBVIOUS
<1>4. \A k \in 1..17 : "OutSource" \in LaunchSteps[k].opens <=> k = 5
  OBVIOUS
<1>5. \A k \in 1..17 : "OutSource" \in Leaving(k) <=> k = 10
  OBVIOUS
<1>6. \A k \in 1..17 : "ErrSource" \in LaunchSteps[k].opens <=> k = 6
  OBVIOUS
<1>7. \A k \in 1..17 : "ErrSource" \in Leaving(k) <=> k = 10
  OBVIOUS
<1>8. \A k \in 1..17 : "FileActions" \in LaunchSteps[k].opens <=> k = 7
  OBVIOUS
<1>9. \A k \in 1..17 : "FileActions" \in Leaving(k) <=> k = 10
  OBVIOUS
<1>10. \A k \in 1..17 : "Console" \notin LaunchSteps[k].closes
  OBVIOUS
<1>11. \A k \in 1..17 :
        StageOf(k) = "CreatePseudoConsole" => LaunchSteps[k].closes = {}
          /\ "Console" \in LaunchSteps[k].opens
  OBVIOUS
<1> HIDE DEF StageOf, LaunchSteps, PrepareSteps, PrepareProcessGroup,
            SpawnAttributes, SpawnFileActions,
            DuplicatePipeWriters, OpenManagedTerminal, Ask, Close,
            Step, Leaving, OwnedEnds
<1>12. /\ Lives("Attributes", 3, 13)
      /\ Lives("OutSource", 5, 10)
      /\ Lives("ErrSource", 6, 10)
      /\ Lives("FileActions", 7, 10)
  BY <1>0, <1>2, <1>3, <1>4, <1>5, <1>6, <1>7, <1>8, <1>9 DEF Lives
<1>13. all \subseteq Ends
  BY LocalsAll
<1>14. all \cap HeldAt(MarksAt - 3) = {} /\ (all \cap OwnedEnds) \ HeldAt(OwnsAt) = {}
  BY <1>0, <1>12, <1>13, LivesOn DEF OwnedEnds
<1>15. \A k \in (MarksAt - 3)..MarksAt : LaunchSteps[k].opens = {}
  BY <1>0, <1>1, <1>12, <1>13, LivesOn
<1>16. HeldAt(MarksAt - 3) \subseteq all /\ HeldAt(OwnsAt) \subseteq all
  BY <1>0, <1>1 DEF HeldAt
<1>17. all \cap OwnedEnds = Owned
  BY DEF OwnedEnds, Owned
<1> HIDE DEF all
<1> QED BY <1>0, <1>1, <1>10, <1>11, <1>13, <1>14, <1>15, <1>16, <1>17 DEF EndsFit

LEMMA EndsMacosTerminal ==
  ASSUME ~Windows, Terminal
  PROVE  EndsFit
<1> USE DEF StageOf, LaunchSteps, PrepareSteps, PrepareProcessGroup,
            SpawnAttributes, SpawnFileActions,
            DuplicatePipeWriters, OpenManagedTerminal, Ask, Close,
            Step, Leaving, OwnedEnds
<1>0. MarksAt = 20 /\ OwnsAt = 16
  BY DEF MarksAt, OwnsAt, CreatesAt
<1> DEFINE all == {"Attributes", "RawMaster", "RawSlave", "Master", "Slave",
            "OutputMaster", "FileActions"}
<1>1. \A k \in 1..20 : LaunchSteps[k].opens \subseteq all
  OBVIOUS
<1>2. \A k \in 1..20 : "Attributes" \in LaunchSteps[k].opens <=> k = 3
  OBVIOUS
<1>3. \A k \in 1..20 : "Attributes" \in Leaving(k) <=> k = 16
  OBVIOUS
<1>4. \A k \in 1..20 : "RawMaster" \in LaunchSteps[k].opens <=> k = 5
  OBVIOUS
<1>5. \A k \in 1..20 : "RawMaster" \in Leaving(k) <=> k = 8
  OBVIOUS
<1>6. \A k \in 1..20 : "RawSlave" \in LaunchSteps[k].opens <=> k = 5
  OBVIOUS
<1>7. \A k \in 1..20 : "RawSlave" \in Leaving(k) <=> k = 8
  OBVIOUS
<1>8. \A k \in 1..20 : "Master" \in LaunchSteps[k].opens <=> k = 6
  OBVIOUS
<1>9. \A k \in 1..20 : "Master" \in Leaving(k) <=> k = 16
  OBVIOUS
<1>10. \A k \in 1..20 : "Slave" \in LaunchSteps[k].opens <=> k = 7
  OBVIOUS
<1>11. \A k \in 1..20 : "Slave" \in Leaving(k) <=> k = 13
  OBVIOUS
<1>12. \A k \in 1..20 : "OutputMaster" \in LaunchSteps[k].opens <=> k = 9
  OBVIOUS
<1>13. \A k \in 1..20 : "OutputMaster" \in Leaving(k) <=> k = 16
  OBVIOUS
<1>14. \A k \in 1..20 : "FileActions" \in LaunchSteps[k].opens <=> k = 10
  OBVIOUS
<1>15. \A k \in 1..20 : "FileActions" \in Leaving(k) <=> k = 13
  OBVIOUS
<1>16. \A k \in 1..20 : "Console" \notin LaunchSteps[k].closes
  OBVIOUS
<1>17. \A k \in 1..20 :
        StageOf(k) = "CreatePseudoConsole" => LaunchSteps[k].closes = {}
          /\ "Console" \in LaunchSteps[k].opens
  OBVIOUS
<1> HIDE DEF StageOf, LaunchSteps, PrepareSteps, PrepareProcessGroup,
            SpawnAttributes, SpawnFileActions,
            DuplicatePipeWriters, OpenManagedTerminal, Ask, Close,
            Step, Leaving, OwnedEnds
<1>18. /\ Lives("Attributes", 3, 16)
      /\ Lives("RawMaster", 5, 8)
      /\ Lives("RawSlave", 5, 8)
      /\ Lives("Master", 6, 16)
      /\ Lives("Slave", 7, 13)
      /\ Lives("OutputMaster", 9, 16)
      /\ Lives("FileActions", 10, 13)
  BY <1>0, <1>2, <1>3, <1>4, <1>5, <1>6, <1>7, <1>8, <1>9, <1>10, <1>11, <1>12, <1>13,
     <1>14, <1>15 DEF Lives
<1>19. all \subseteq Ends
  BY LocalsAll
<1>20. all \cap HeldAt(MarksAt - 3) = {} /\ (all \cap OwnedEnds) \ HeldAt(OwnsAt) = {}
  BY <1>0, <1>18, <1>19, LivesOn DEF OwnedEnds
<1>21. \A k \in (MarksAt - 3)..MarksAt : LaunchSteps[k].opens = {}
  BY <1>0, <1>1, <1>18, <1>19, LivesOn
<1>22. HeldAt(MarksAt - 3) \subseteq all /\ HeldAt(OwnsAt) \subseteq all
  BY <1>0, <1>1 DEF HeldAt
<1>23. all \cap OwnedEnds = Owned
  BY DEF OwnedEnds, Owned
<1> HIDE DEF all
<1> QED BY <1>0, <1>1, <1>16, <1>17, <1>19, <1>20, <1>21, <1>22, <1>23 DEF EndsFit

LEMMA EndsWindowsPipes ==
  ASSUME Windows, ~Terminal
  PROVE  EndsFit
<1> USE DEF StageOf, LaunchSteps, PrepareSteps, PrepareIntoJob, OpenImageFile,
            CreateJob, InheritedStandardHandles,
            PreparedPseudoConsole, AttributeList,
            VerifyProcessImage, Ask, Close, Step, Leaving,
            OwnedEnds
<1>0. MarksAt = 25 /\ OwnsAt = 15
  BY DEF MarksAt, OwnsAt, CreatesAt
<1> DEFINE all == {"Image", "Job", "Null", "NullDuplicate", "OutDuplicate",
            "ErrDuplicate", "AttributeList", "Process", "Thread",
            "ActualImage"}
<1>1. \A k \in 1..25 : LaunchSteps[k].opens \subseteq all
  OBVIOUS
<1>2. \A k \in 1..25 : "Image" \in LaunchSteps[k].opens <=> k = 3
  OBVIOUS
<1>3. \A k \in 1..25 : "Image" \in Leaving(k) <=> k = 21
  BY SMTT(60)
<1>4. \A k \in 1..25 : "Job" \in LaunchSteps[k].opens <=> k = 5
  OBVIOUS
<1>5. \A k \in 1..25 : "Job" \in Leaving(k) <=> k = 15
  OBVIOUS
<1>6. \A k \in 1..25 : "Null" \in LaunchSteps[k].opens <=> k = 7
  BY SMTT(60)
<1>7. \A k \in 1..25 : "Null" \in Leaving(k) <=> k = 13
  BY SMTT(60)
<1>8. \A k \in 1..25 : "NullDuplicate" \in LaunchSteps[k].opens <=> k = 8
  OBVIOUS
<1>9. \A k \in 1..25 : "NullDuplicate" \in Leaving(k) <=> k = 15
  OBVIOUS
<1>10. \A k \in 1..25 : "OutDuplicate" \in LaunchSteps[k].opens <=> k = 9
  BY SMTT(60)
<1>11. \A k \in 1..25 : "OutDuplicate" \in Leaving(k) <=> k = 15
  OBVIOUS
<1>12. \A k \in 1..25 : "ErrDuplicate" \in LaunchSteps[k].opens <=> k = 10
  OBVIOUS
<1>13. \A k \in 1..25 : "ErrDuplicate" \in Leaving(k) <=> k = 15
  OBVIOUS
<1>14. \A k \in 1..25 : "AttributeList" \in LaunchSteps[k].opens <=> k = 11
  BY SMTT(60)
<1>15. \A k \in 1..25 : "AttributeList" \in Leaving(k) <=> k = 15
  OBVIOUS
<1>16. \A k \in 1..25 : "Process" \in LaunchSteps[k].opens <=> k = 14
  OBVIOUS
<1>17. \A k \in 1..25 : "Process" \in Leaving(k) <=> k = 15
  OBVIOUS
<1>18. \A k \in 1..25 : "Thread" \in LaunchSteps[k].opens <=> k = 14
  OBVIOUS
<1>19. \A k \in 1..25 : "Thread" \in Leaving(k) <=> k = 15
  OBVIOUS
<1>20. \A k \in 1..25 : "ActualImage" \in LaunchSteps[k].opens <=> k = 18
  OBVIOUS
<1>21. \A k \in 1..25 : "ActualImage" \in Leaving(k) <=> k = 20
  BY SMTT(60)
<1>22. \A k \in 1..25 : "Console" \notin LaunchSteps[k].closes
  BY SMTT(60)
<1>23. \A k \in 1..25 :
        StageOf(k) = "CreatePseudoConsole" => LaunchSteps[k].closes = {}
          /\ "Console" \in LaunchSteps[k].opens
  OBVIOUS
<1> HIDE DEF StageOf, LaunchSteps, PrepareSteps, PrepareIntoJob, OpenImageFile,
            CreateJob, InheritedStandardHandles,
            PreparedPseudoConsole, AttributeList,
            VerifyProcessImage, Ask, Close, Step, Leaving,
            OwnedEnds
<1>24. /\ Lives("Image", 3, 21)
      /\ Lives("Job", 5, 15)
      /\ Lives("Null", 7, 13)
      /\ Lives("NullDuplicate", 8, 15)
      /\ Lives("OutDuplicate", 9, 15)
      /\ Lives("ErrDuplicate", 10, 15)
      /\ Lives("AttributeList", 11, 15)
      /\ Lives("Process", 14, 15)
      /\ Lives("Thread", 14, 15)
      /\ Lives("ActualImage", 18, 20)
  BY <1>0, <1>2, <1>3, <1>4, <1>5, <1>6, <1>7, <1>8, <1>9, <1>10, <1>11, <1>12, <1>13,
     <1>14, <1>15, <1>16, <1>17, <1>18, <1>19, <1>20, <1>21, SMTT(60) DEF Lives
<1>25. all \subseteq Ends
  BY LocalsAll
<1>26. all \cap HeldAt(MarksAt - 3) = {} /\ (all \cap OwnedEnds) \ HeldAt(OwnsAt) = {}
  BY <1>0, <1>24, <1>25, LivesOn DEF OwnedEnds
<1>27. \A k \in (MarksAt - 3)..MarksAt : LaunchSteps[k].opens = {}
  BY <1>0, <1>1, <1>24, <1>25, LivesOn
<1>28. HeldAt(MarksAt - 3) \subseteq all /\ HeldAt(OwnsAt) \subseteq all
  BY <1>0, <1>1 DEF HeldAt
<1>29. all \cap OwnedEnds = Owned
  BY DEF OwnedEnds, Owned
<1> HIDE DEF all
<1> QED BY <1>0, <1>1, <1>22, <1>23, <1>25, <1>26, <1>27, <1>28, <1>29 DEF EndsFit

LEMMA EndsWindowsTerminal ==
  ASSUME Windows, Terminal
  PROVE  EndsFit
<1> USE DEF StageOf, LaunchSteps, PrepareSteps, PrepareIntoJob, OpenImageFile,
            CreateJob, InheritedStandardHandles,
            PreparedPseudoConsole, AttributeList,
            VerifyProcessImage, Ask, Close, Step, Leaving,
            OwnedEnds
<1>0. MarksAt = 23 /\ OwnsAt = 13
  BY DEF MarksAt, OwnsAt, CreatesAt
<1> DEFINE all == {"Image", "Job", "InputReader", "InputWriter", "OutputReader",
            "OutputWriter", "Console", "AttributeList", "Process",
            "Thread", "ActualImage"}
<1>1. \A k \in 1..23 : LaunchSteps[k].opens \subseteq all
  OBVIOUS
<1>2. \A k \in 1..23 : "Image" \in LaunchSteps[k].opens <=> k = 3
  OBVIOUS
<1>3. \A k \in 1..23 : "Image" \in Leaving(k) <=> k = 19
  OBVIOUS
<1>4. \A k \in 1..23 : "Job" \in LaunchSteps[k].opens <=> k = 5
  OBVIOUS
<1>5. \A k \in 1..23 : "Job" \in Leaving(k) <=> k = 13
  OBVIOUS
<1>6. \A k \in 1..23 : "InputReader" \in LaunchSteps[k].opens <=> k = 7
  OBVIOUS
<1>7. \A k \in 1..23 : "InputReader" \in Leaving(k) <=> k = 13
  OBVIOUS
<1>8. \A k \in 1..23 : "InputWriter" \in LaunchSteps[k].opens <=> k = 7
  OBVIOUS
<1>9. \A k \in 1..23 : "InputWriter" \in Leaving(k) <=> k = 13
  OBVIOUS
<1>10. \A k \in 1..23 : "OutputReader" \in LaunchSteps[k].opens <=> k = 8
  OBVIOUS
<1>11. \A k \in 1..23 : "OutputReader" \in Leaving(k) <=> k = 13
  OBVIOUS
<1>12. \A k \in 1..23 : "OutputWriter" \in LaunchSteps[k].opens <=> k = 8
  OBVIOUS
<1>13. \A k \in 1..23 : "OutputWriter" \in Leaving(k) <=> k = 13
  OBVIOUS
<1>14. \A k \in 1..23 : "Console" \in LaunchSteps[k].opens <=> k = 9
  OBVIOUS
<1>15. \A k \in 1..23 : "Console" \in Leaving(k) <=> k = 13
  OBVIOUS
<1>16. \A k \in 1..23 : "AttributeList" \in LaunchSteps[k].opens <=> k = 10
  OBVIOUS
<1>17. \A k \in 1..23 : "AttributeList" \in Leaving(k) <=> k = 13
  OBVIOUS
<1>18. \A k \in 1..23 : "Process" \in LaunchSteps[k].opens <=> k = 12
  OBVIOUS
<1>19. \A k \in 1..23 : "Process" \in Leaving(k) <=> k = 13
  OBVIOUS
<1>20. \A k \in 1..23 : "Thread" \in LaunchSteps[k].opens <=> k = 12
  OBVIOUS
<1>21. \A k \in 1..23 : "Thread" \in Leaving(k) <=> k = 13
  OBVIOUS
<1>22. \A k \in 1..23 : "ActualImage" \in LaunchSteps[k].opens <=> k = 16
  OBVIOUS
<1>23. \A k \in 1..23 : "ActualImage" \in Leaving(k) <=> k = 18
  OBVIOUS
<1>24. \A k \in 1..23 : "Console" \notin LaunchSteps[k].closes
  OBVIOUS
<1>25. \A k \in 1..23 :
        StageOf(k) = "CreatePseudoConsole" => LaunchSteps[k].closes = {}
          /\ "Console" \in LaunchSteps[k].opens
  OBVIOUS
<1> HIDE DEF StageOf, LaunchSteps, PrepareSteps, PrepareIntoJob, OpenImageFile,
            CreateJob, InheritedStandardHandles,
            PreparedPseudoConsole, AttributeList,
            VerifyProcessImage, Ask, Close, Step, Leaving,
            OwnedEnds
<1>26. /\ Lives("Image", 3, 19)
      /\ Lives("Job", 5, 13)
      /\ Lives("InputReader", 7, 13)
      /\ Lives("InputWriter", 7, 13)
      /\ Lives("OutputReader", 8, 13)
      /\ Lives("OutputWriter", 8, 13)
      /\ Lives("Console", 9, 13)
      /\ Lives("AttributeList", 10, 13)
      /\ Lives("Process", 12, 13)
      /\ Lives("Thread", 12, 13)
      /\ Lives("ActualImage", 16, 18)
  BY <1>0, <1>2, <1>3, <1>4, <1>5, <1>6, <1>7, <1>8, <1>9, <1>10, <1>11, <1>12, <1>13,
     <1>14, <1>15, <1>16, <1>17, <1>18, <1>19, <1>20, <1>21, <1>22, <1>23, SMTT(60) DEF Lives
<1>27. all \subseteq Ends
  BY LocalsAll
<1>28. all \cap HeldAt(MarksAt - 3) = {} /\ (all \cap OwnedEnds) \ HeldAt(OwnsAt) = {}
  BY <1>0, <1>26, <1>27, LivesOn DEF OwnedEnds
<1>29. \A k \in (MarksAt - 3)..MarksAt : LaunchSteps[k].opens = {}
  BY <1>0, <1>1, <1>26, <1>27, LivesOn
<1>30. HeldAt(MarksAt - 3) \subseteq all /\ HeldAt(OwnsAt) \subseteq all
  BY <1>0, <1>1 DEF HeldAt
<1>31. all \cap OwnedEnds = Owned
  BY DEF OwnedEnds, Owned
<1> HIDE DEF all
<1> QED BY <1>0, <1>1, <1>24, <1>25, <1>27, <1>28, <1>29, <1>30, <1>31 DEF EndsFit

LEMMA EndsOfALaunch == MachinesAreKnown /\ machine \in Machines => EndsFit
BY EndsMacosPipes, EndsMacosTerminal, EndsWindowsPipes, EndsWindowsTerminal

------------------------------------------------------------
(* What a launch and its handles come to. *)

Holders    == {"Call", "Launch", "Owner", "Worker", "Host"}
AllHandles == [of : Children, by : Holders, end : Ends]
Bodies     == {"NONE", "SUSPENDED", "GONE"} \cup Running
Holdings   == {"Nothing", "Launching", "Running", "Ended", "Pending", "Quarantined"}
Files      == {"first", "second"}
PipeEnds   == {"OutReader", "OutWriter", "ErrReader", "ErrWriter"}

(* Handles that are not about to be dropped *)
Closing == {closing[i] : i \in DOMAIN closing}
Left    == handles \ Closing
LeftBy(c, by) == HeldIn(Left, c, by)

HandleTypes ==
  /\ machine \in Machines
  /\ handles \subseteq AllHandles
  /\ closing \in Seq(AllHandles)
  /\ preparing \in [child : Children, step : 1..MarksAt, candidate : 1..MaxCandidates] \cup {Idle}
  /\ body \in [Children -> Bodies]
  /\ image \in [Children -> [asked : Files, loaded : Files]]
  /\ target \in Files
  /\ inJob \subseteq Children
  /\ holding \in [Children -> Holdings]

(* A console is dropped after the reader of its output. *)
ConsolesLast(all, q) ==
  \A i \in DOMAIN q :
    q[i].end = "Console" /\ "OutputReader" \in HeldIn(all, q[i].of, q[i].by) =>
      \E j \in DOMAIN q : j < i /\ q[j] = [q[i] EXCEPT !.end = "OutputReader"]

(* What the Supervisor has of a child, and what the child may do. *)
KeptOf(c) ==
  /\ holding[c] = "Launching" <=> c = preparing.child
  /\ holding[c] = "Nothing" =>
       body[c] = "NONE" /\ c \notin inJob /\ \A by \in Holders : HeldBy(c, by) = {}
  /\ c # preparing.child => LeftBy(c, "Call") = {} /\ LeftBy(c, "Launch") = {}
  /\ holding[c] = "Ended" =>
       /\ LeftBy(c, "Owner") = {}
       /\ body[c] \in {"NONE", "GONE"} \/ (c \in inJob /\ Opened(c, "Owner", {"Job"}) \subseteq Closing)
  /\ holding[c] = "Running" => LeftBy(c, "Owner") = Needed(c) /\ (Windows => c \in inJob)
  /\ holding[c] \in {"Pending", "Quarantined"} /\ Windows
     => {"Job", "Process"} \subseteq LeftBy(c, "Owner")

Bound(c) ==
  /\ HeldBy(c, "Worker") \subseteq Readers
  /\ HeldBy(c, "Host") # {} => "Console" \in HeldBy(c, "Call") \cup HeldBy(c, "Owner")
  /\ body[c] \in Running =>
       /\ Windows => c \in inJob /\ image[c].loaded = image[c].asked
       /\ \A by \in {"Call", "Launch", "Owner"} : HeldBy(c, by) \cap Readers = {}

OwnedAt(k) ==
  IF k <= OwnsAt THEN {}
  ELSE Owned \ ((IF k > MarksAt - 2 THEN Readers ELSE {})
                \cup (IF k > MarksAt - 1 THEN {"Thread"} ELSE {}))
PipesAt(k) == IF Terminal \/ k > MarksAt - 2 THEN {} ELSE PipeEnds

(* What a launch that got to step k has done. *)
Reached(c, k) ==
  /\ LeftBy(c, "Call") = HeldAt(k) /\ LeftBy(c, "Launch") = PipesAt(k)
  /\ LeftBy(c, "Owner") = OwnedAt(k)
  /\ body[c] = "NONE" <=> k <= CreatesAt
  /\ body[c] \in Running => k = MarksAt
  /\ c \in inJob <=> Windows /\ k > OwnsAt + 1
  /\ Windows /\ k > OwnsAt + 4 => image[c].loaded = image[c].asked

HandlesInv ==
  /\ HandleTypes
  /\ ConsolesLast(handles, closing)
  /\ \A c \in Children : KeptOf(c) /\ Bound(c)
  /\ preparing # Idle => Reached(preparing.child, preparing.step)

------------------------------------------------------------
(* Sets of handles *)

LEMMA HeldWith ==
  ASSUME NEW S, NEW c, NEW by, NEW d, NEW b, NEW E
  PROVE  HeldIn(S \cup Opened(d, b, E), c, by)
           = HeldIn(S, c, by) \cup (IF d = c /\ b = by THEN E ELSE {})
<1> DEFINE new == Opened(d, b, E)
<1>1. HeldIn(new, c, by) = IF d = c /\ b = by THEN E ELSE {}
  <2>1. \A h \in new : h.of = d /\ h.by = b /\ h.end \in E
    BY DEF Opened
  <2>2. \A e \in E : [of |-> d, by |-> b, end |-> e] \in new
    BY DEF Opened
  <2>3. \A e \in E : \E h \in new : h.of = d /\ h.by = b /\ h.end = e
    BY <2>2
  <2> HIDE DEF new
  <2> QED BY <2>1, <2>3 DEF HeldIn
<1> HIDE DEF new
<1>2. HeldIn(S \cup new, c, by) = HeldIn(S, c, by) \cup HeldIn(new, c, by)
  BY DEF HeldIn
<1> QED BY <1>1, <1>2 DEF new

LEMMA HeldWithout ==
  ASSUME NEW S \in SUBSET AllHandles, NEW c, NEW by, NEW d, NEW b, NEW E
  PROVE  HeldIn(S \ Opened(d, b, E), c, by)
           = HeldIn(S, c, by) \ (IF d = c /\ b = by THEN E ELSE {})
<1>1. \A h \in S : h = [of |-> h.of, by |-> h.by, end |-> h.end]
  BY DEF AllHandles
<1> QED BY <1>1 DEF HeldIn, Opened

LEMMA OthersAreHeld ==
  ASSUME NEW S \in SUBSET AllHandles, NEW c, NEW by, NEW d, NEW b, NEW E, c # d \/ b # by
  PROVE  HeldIn(S \ Opened(d, b, E), c, by) = HeldIn(S, c, by)
<1> DEFINE O == Opened(d, b, E)
<1>1. \A h \in O : h.of = d /\ h.by = b
  BY DEF Opened
<1> HIDE DEF O
<1>2. {h \in S \ O : h.of = c /\ h.by = by} = {h \in S : h.of = c /\ h.by = by}
  BY <1>1
<1> QED BY <1>2 DEF HeldIn, O

LEMMA HeldIsIn ==
  ASSUME NEW S \in SUBSET AllHandles, NEW c, NEW by, NEW e
  PROVE  e \in HeldIn(S, c, by) <=> [of |-> c, by |-> by, end |-> e] \in S
<1>1. \A h \in S : h = [of |-> h.of, by |-> h.by, end |-> h.end]
  BY DEF AllHandles
<1> QED BY <1>1 DEF HeldIn

LEMMA HeldAreEnds ==
  ASSUME NEW S \in SUBSET AllHandles, NEW c, NEW by
  PROVE  HeldIn(S, c, by) \subseteq Ends
BY DEF HeldIn, AllHandles

LEMMA OpenedAreHandles ==
  ASSUME NEW c \in Children, NEW by \in Holders, NEW E \in SUBSET Ends
  PROVE  Opened(c, by, E) \subseteq AllHandles
BY DEF Opened, AllHandles

LEMMA HeldIsMonotone ==
  ASSUME NEW S, NEW T \in SUBSET S, NEW c, NEW by
  PROVE  HeldIn(T, c, by) \subseteq HeldIn(S, c, by)
BY DEF HeldIn

(* q drops the handles S, of the set "all", in an order that does not wait. *)
Unwinds(q, all, S) ==
  q \in Seq(AllHandles) /\ {q[i] : i \in DOMAIN q} = S /\ ConsolesLast(all, q)

LEMMA NothingUnwinds == ASSUME NEW all PROVE Unwinds(<<>>, all, {})
BY DEF Unwinds, ConsolesLast

LEMMA DroppedUnwinds ==
  ASSUME NEW all \in SUBSET AllHandles, NEW c \in Children, NEW by \in Holders,
         NEW E \in SUBSET Ends, HeldIn(all, c, by) \subseteq E
  PROVE  Unwinds(Dropped(c, by, E), all, Opened(c, by, E))
<1> DEFINE q == Dropped(c, by, E)
<1>1. Drops(q, c, by, E)
  BY DroppedDrops
<1> HIDE DEF q
<1>2. Opened(c, by, E) \subseteq AllHandles
  BY OpenedAreHandles
<1>3. q \in Seq(Opened(c, by, E)) /\ q \in Seq(AllHandles)
  BY <1>1, <1>2 DEF Drops
<1>4. \A i \in DOMAIN q : q[i] = [of |-> c, by |-> by, end |-> q[i].end] /\ q[i].end \in E
  BY <1>3 DEF Opened
<1>5. {q[i] : i \in DOMAIN q} = Opened(c, by, E)
  BY <1>1, <1>3, <1>4 DEF Drops, Opened
<1>6. ConsolesLast(all, q)
  <2>1. ASSUME NEW i \in DOMAIN q, q[i].end = "Console",
               "OutputReader" \in HeldIn(all, q[i].of, q[i].by)
        PROVE  \E j \in DOMAIN q : j < i /\ q[j] = [q[i] EXCEPT !.end = "OutputReader"]
    <3>1. q[i].of = c /\ q[i].by = by
      BY <1>4
    <3>2. "OutputReader" \in E
      BY <2>1, <3>1
    <3>3. PICK j \in DOMAIN q : j < i /\ q[j].end = "OutputReader"
      BY <1>1, <2>1, <3>2 DEF Drops
    <3>4. q[j] = [of |-> c, by |-> by, end |-> "OutputReader"]
      BY <1>4, <3>3
    <3>5. [q[i] EXCEPT !.end = "OutputReader"] = [of |-> c, by |-> by, end |-> "OutputReader"]
      BY <1>4
    <3> QED BY <3>3, <3>4, <3>5
  <2> QED BY <2>1 DEF ConsolesLast
<1> QED BY <1>3, <1>5, <1>6 DEF Unwinds, q

LEMMA JoinedUnwinds ==
  ASSUME NEW all, NEW q, NEW r, NEW S, NEW T, Unwinds(q, all, S), Unwinds(r, all, T)
  PROVE  Unwinds(q \o r, all, S \cup T)
<1> DEFINE s == q \o r
<1>1. q \in Seq(AllHandles) /\ r \in Seq(AllHandles) /\ s \in Seq(AllHandles)
  BY DEF Unwinds
<1>2. Len(q) \in Nat /\ Len(r) \in Nat /\ DOMAIN q = 1..Len(q) /\ DOMAIN r = 1..Len(r)
      /\ DOMAIN s = 1..(Len(q) + Len(r))
  BY <1>1
<1>3. /\ \A i \in 1..Len(q) : s[i] = q[i]
      /\ \A i \in 1..Len(r) : s[Len(q) + i] = r[i]
  BY <1>1, <1>2
<1>4. \A i \in DOMAIN s : i \in 1..Len(q) \/ \E j \in 1..Len(r) : i = Len(q) + j
  <2>1. ASSUME NEW i \in DOMAIN s, i \notin 1..Len(q) PROVE \E j \in 1..Len(r) : i = Len(q) + j
    <3>1. i - Len(q) \in 1..Len(r) /\ i = Len(q) + (i - Len(q))
      BY <1>2, <2>1
    <3> QED BY <3>1
  <2> QED BY <2>1
<1> HIDE DEF s
<1>5. {s[i] : i \in DOMAIN s} = {q[i] : i \in DOMAIN q} \cup {r[i] : i \in DOMAIN r}
  <2>1. \A i \in DOMAIN s : (\E j \in DOMAIN q : s[i] = q[j]) \/ (\E j \in DOMAIN r : s[i] = r[j])
    BY <1>2, <1>3, <1>4, ZenonT(60)
  <2>2. \A j \in DOMAIN q : \E i \in DOMAIN s : s[i] = q[j]
    BY <1>2, <1>3
  <2>3. \A j \in DOMAIN r : \E i \in DOMAIN s : s[i] = r[j]
    <3>1. \A j \in DOMAIN r : Len(q) + j \in DOMAIN s /\ s[Len(q) + j] = r[j]
      BY <1>2, <1>3
    <3> QED BY <3>1
  <2> QED BY <2>1, <2>2, <2>3
<1>6. ConsolesLast(all, s)
  <2> SUFFICES ASSUME NEW i \in DOMAIN s, s[i].end = "Console",
                      "OutputReader" \in HeldIn(all, s[i].of, s[i].by)
               PROVE  \E j \in DOMAIN s : j < i /\ s[j] = [s[i] EXCEPT !.end = "OutputReader"]
    BY DEF ConsolesLast
  <2>1. CASE i \in 1..Len(q)
    <3>1. s[i] = q[i] /\ i \in DOMAIN q
      BY <1>2, <1>3, <2>1
    <3>2. PICK j \in DOMAIN q : j < i /\ q[j] = [q[i] EXCEPT !.end = "OutputReader"]
      BY <3>1 DEF Unwinds, ConsolesLast
    <3>3. j \in DOMAIN s /\ s[j] = q[j]
      BY <1>2, <1>3, <3>2
    <3> QED BY <3>1, <3>2, <3>3
  <2>2. ASSUME NEW k \in 1..Len(r), i = Len(q) + k
        PROVE  \E j \in DOMAIN s : j < i /\ s[j] = [s[i] EXCEPT !.end = "OutputReader"]
    <3>1. s[i] = r[k] /\ k \in DOMAIN r
      BY <1>2, <1>3, <2>2
    <3>2. PICK j \in DOMAIN r : j < k /\ r[j] = [r[k] EXCEPT !.end = "OutputReader"]
      BY <3>1 DEF Unwinds, ConsolesLast
    <3>3. Len(q) + j \in DOMAIN s /\ s[Len(q) + j] = r[j] /\ Len(q) + j < i
      BY <1>2, <1>3, <3>2, <2>2
    <3> QED BY <3>1, <3>2, <3>3
  <2> QED BY <1>4, <2>1, <2>2
<1> QED BY <1>1, <1>5, <1>6 DEF Unwinds, s

(* One drop of a list, of a handle that nothing else needs. *)
LEMMA TailUnwinds ==
  ASSUME NEW all \in SUBSET AllHandles, NEW left \in SUBSET all, NEW q \in Seq(AllHandles), q # <<>>,
         ConsolesLast(all, q),
         q[1] \notin left
  PROVE  /\ Tail(q) \in Seq(AllHandles) /\ q[1] \in AllHandles
         /\ {q[i] : i \in DOMAIN q} = {q[1]} \cup {Tail(q)[i] : i \in DOMAIN Tail(q)}
         /\ ConsolesLast(left, Tail(q))
<1> DEFINE t == Tail(q)
<1>1. t \in Seq(AllHandles) /\ q[1] \in AllHandles /\ Len(q) \in Nat \ {0} /\ Len(t) = Len(q) - 1
      /\ DOMAIN q = 1..Len(q) /\ DOMAIN t = 1..(Len(q) - 1)
      /\ \A i \in 1..(Len(q) - 1) : t[i] = q[i + 1]
  OBVIOUS
<1> HIDE DEF t
<1>2. {q[i] : i \in DOMAIN q} = {q[1]} \cup {t[i] : i \in DOMAIN t}
  <2>1. \A i \in DOMAIN q : i = 1 \/ \E j \in DOMAIN t : q[i] = t[j]
    <3>1. \A i \in DOMAIN q : i # 1 => i - 1 \in DOMAIN t /\ (i - 1) + 1 = i
      BY <1>1
    <3> QED BY <1>1, <3>1
  <2>2. 1 \in DOMAIN q /\ \A j \in DOMAIN t : j + 1 \in DOMAIN q
    BY <1>1
  <2> QED BY <1>1, <2>1, <2>2, SMTT(60)
<1>3. ConsolesLast(left, t)
  <2> SUFFICES ASSUME NEW i \in DOMAIN t, t[i].end = "Console",
                      "OutputReader" \in HeldIn(left, t[i].of, t[i].by)
               PROVE  \E j \in DOMAIN t : j < i /\ t[j] = [t[i] EXCEPT !.end = "OutputReader"]
    BY DEF ConsolesLast
  <2>1. t[i] = q[i + 1] /\ i + 1 \in DOMAIN q
    BY <1>1
  <2>2. "OutputReader" \in HeldIn(all, q[i + 1].of, q[i + 1].by)
    BY <2>1, HeldIsMonotone
  <2>3. PICK j \in DOMAIN q : j < i + 1 /\ q[j] = [q[i + 1] EXCEPT !.end = "OutputReader"]
    BY <2>1, <2>2 DEF ConsolesLast
  <2>4. q[i + 1] \in AllHandles
    BY <1>1, <2>1
  <2>5. q[j] = [of |-> q[i + 1].of, by |-> q[i + 1].by, end |-> "OutputReader"]
    BY <2>3, <2>4 DEF AllHandles
  <2>6. [of |-> q[i + 1].of, by |-> q[i + 1].by, end |-> "OutputReader"] \in left
    <3>1. PICK h \in left : h.of = q[i + 1].of /\ h.by = q[i + 1].by /\ h.end = "OutputReader"
      BY <2>1 DEF HeldIn
    <3>2. h \in AllHandles
      OBVIOUS
    <3>3. h = [of |-> h.of, by |-> h.by, end |-> h.end]
      BY <3>2 DEF AllHandles
    <3> QED BY <3>1, <3>3
  <2>7. j # 1
    BY <2>5, <2>6
  <2>8. j - 1 \in DOMAIN t /\ j - 1 < i /\ t[j - 1] = q[j]
    <3>1. j - 1 \in 1..(Len(q) - 1) /\ (j - 1) + 1 = j /\ j - 1 < i
      BY <1>1, <2>3, <2>7
    <3> QED BY <1>1, <3>1
  <2> QED BY <2>1, <2>3, <2>8
<1> QED BY <1>1, <1>2, <1>3 DEF t

(* No step before the first has opened anything. *)
LEMMA HeldAtFirst == HeldAt(1) = {}
BY DEF HeldAt

LEMMA HeldAtNext ==
  ASSUME MarksAt \in Nat, NEW k \in 1..MarksAt, LaunchSteps[k].opens \subseteq Ends
  PROVE  HeldAt(k + 1) = (HeldAt(k) \ Leaving(k)) \cup LaunchSteps[k].opens
<1> DEFINE opens(i) == LaunchSteps[i].opens
           before(e, n, i) == e \in opens(i) /\ \A j \in (i + 1)..(n - 1) : e \notin Leaving(j)
<1>1. k \in Nat /\ (k + 1) - 1 = k
  OBVIOUS
<1>2. /\ HeldAt(k + 1) = {e \in Ends : \E i \in 1..k : before(e, k + 1, i)}
      /\ HeldAt(k) = {e \in Ends : \E i \in 1..(k - 1) : before(e, k, i)}
  BY <1>1 DEF HeldAt
<1>3. ASSUME NEW e, NEW i \in 1..(k - 1)
      PROVE  before(e, k + 1, i) <=> before(e, k, i) /\ e \notin Leaving(k)
  <2>1. (i + 1)..((k + 1) - 1) = ((i + 1)..(k - 1)) \cup {k}
    BY <1>1
  <2> HIDE DEF opens
  <2> QED BY <2>1
<1>4. \A e : before(e, k + 1, k) <=> e \in opens(k)
  <2>1. (k + 1)..((k + 1) - 1) = {}
    BY <1>1
  <2> HIDE DEF opens
  <2> QED BY <2>1
<1>5. 1..k = (1..(k - 1)) \cup {k}
  BY <1>1
<1>6. opens(k) \subseteq Ends
  OBVIOUS
<1> HIDE DEF opens, before
<1>7. HeldAt(k + 1) = (HeldAt(k) \ Leaving(k)) \cup opens(k)
  BY <1>2, <1>3, <1>4, <1>5, <1>6
<1> QED BY <1>7 DEF opens

LEMMA PlacesAreOrdered ==
  /\ MarksAt \in Nat /\ OwnsAt \in Nat /\ CreatesAt \in Nat
  /\ 5 < CreatesAt /\ CreatesAt < OwnsAt /\ OwnsAt <= MarksAt - 4
  /\ Windows => OwnsAt = CreatesAt + 1 /\ MarksAt = OwnsAt + 10 /\ 9 < CreatesAt
BY DEF MarksAt, OwnsAt, CreatesAt

(* A launch that binds holds nothing of its own. *)
LEMMA HeldAtLast ==
  ASSUME EndsFit
  PROVE  \A k \in (MarksAt - 3)..MarksAt : HeldAt(k) = {}
<1> DEFINE n == MarksAt - 3
<1>1. n \in Nat /\ n > 0 /\ MarksAt = n + 3
  BY PlacesAreOrdered
<1>2. HeldAt(n) = {}
  BY DEF EndsFit
<1>3. \A k \in n..MarksAt : LaunchSteps[k].opens = {} /\ k \in 1..MarksAt
  BY <1>1 DEF EndsFit
<1>4. \A k \in n..MarksAt : HeldAt(k) = {} => HeldAt(k + 1) = {}
  BY <1>1, <1>3, HeldAtNext, PlacesAreOrdered
<1>5. HeldAt(n + 1) = {} /\ HeldAt(n + 2) = {} /\ HeldAt(n + 3) = {}
  <2>1. n \in n..MarksAt /\ n + 1 \in n..MarksAt /\ n + 2 \in n..MarksAt
        /\ (n + 1) + 1 = n + 2 /\ (n + 2) + 1 = n + 3
    BY <1>1
  <2> QED BY <1>2, <1>4, <2>1
<1>6. \A k \in n..MarksAt : k = n \/ k = n + 1 \/ k = n + 2 \/ k = n + 3
  BY <1>1
<1> HIDE DEF n
<1> QED BY <1>2, <1>5, <1>6 DEF n

LEMMA SameMachine ==
  ASSUME machine' = machine
  PROVE  /\ LaunchSteps' = LaunchSteps /\ OwnedEnds' = OwnedEnds
         /\ Windows' = Windows /\ Terminal' = Terminal /\ Owned' = Owned
         /\ CreatesAt' = CreatesAt /\ OwnsAt' = OwnsAt /\ MarksAt' = MarksAt
         /\ \A k : HeldAt(k)' = HeldAt(k) /\ OwnedAt(k)' = OwnedAt(k) /\ PipesAt(k)' = PipesAt(k)
<1>1. LaunchSteps' = LaunchSteps /\ OwnedEnds' = OwnedEnds /\ Windows' = Windows /\ Terminal' = Terminal
  BY DEF Windows, Terminal, LaunchSteps, PrepareSteps, PrepareProcessGroup, PrepareIntoJob,
         OpenImageFile, CreateJob, InheritedStandardHandles, PreparedPseudoConsole, AttributeList,
         VerifyProcessImage, SpawnAttributes, SpawnFileActions, DuplicatePipeWriters,
         OpenManagedTerminal, Ask, Close, Step, OwnedEnds
<1>2. Owned' = Owned /\ CreatesAt' = CreatesAt /\ OwnsAt' = OwnsAt /\ MarksAt' = MarksAt
  BY <1>1 DEF Owned, CreatesAt, OwnsAt, MarksAt
<1>3. \A k : HeldAt(k)' = HeldAt(k)
  BY <1>1 DEF HeldAt, Leaving, StageOf
<1>4. \A k : OwnedAt(k)' = OwnedAt(k) /\ PipesAt(k)' = PipesAt(k)
  BY <1>1, <1>2 DEF OwnedAt, PipesAt
<1> QED BY <1>1, <1>2, <1>3, <1>4

(* A step of d alone: nothing of any other child is touched. *)
MovesOnly(d) ==
  /\ machine' = machine
  /\ \A h \in AllHandles :
       h.of # d => (h \in handles' <=> h \in handles) /\ (h \in Closing' <=> h \in Closing)
  /\ \A c \in Children \ {d} :
       /\ holding'[c] = holding[c] /\ body'[c] = body[c] /\ image'[c] = image[c]
       /\ c \in inJob' <=> c \in inJob
       /\ c = preparing'.child <=> c = preparing.child
       /\ c = preparing.child => preparing' = preparing

LEMMA NothingCloses ==
  ASSUME closing = <<>>
  PROVE  Closing = {} /\ Left = handles /\ \A c, by : LeftBy(c, by) = HeldBy(c, by)
<1>1. Closing = {}
  BY DEF Closing
<1>2. Left = handles
  BY <1>1 DEF Left
<1> QED BY <1>1, <1>2 DEF LeftBy, HeldBy

LEMMA OthersKeep ==
  ASSUME HandlesInv, HandleTypes', NEW d \in Children, MovesOnly(d), NEW c \in Children \ {d}
  PROVE  /\ KeptOf(c)' /\ Bound(c)'
         /\ c = preparing.child => \A k : k = preparing.step => Reached(c, k)'
<1>1. \A by : HeldBy(c, by)' = HeldBy(c, by) /\ LeftBy(c, by)' = LeftBy(c, by)
  <2>1. \A h \in handles' \cup Closing' : h \in AllHandles
    BY DEF HandleTypes, Closing
  <2>2. \A h \in handles \cup Closing : h \in AllHandles
    BY DEF HandlesInv, HandleTypes, Closing
  <2>3. \A h : h.of = c => (h \in handles' <=> h \in handles) /\ (h \in Closing' <=> h \in Closing)
    BY <2>1, <2>2 DEF MovesOnly
  <2>4. \A h : h.of = c => (h \in Left' <=> h \in Left)
    BY <2>3 DEF Left
  <2>5. \A by : {h \in handles' : h.of = c /\ h.by = by} = {h \in handles : h.of = c /\ h.by = by}
    BY <2>3
  <2>6. \A by : {h \in Left' : h.of = c /\ h.by = by} = {h \in Left : h.of = c /\ h.by = by}
    BY <2>4
  <2> QED BY <2>5, <2>6 DEF HeldBy, LeftBy, HeldIn
<1>3. Opened(c, "Owner", {"Job"}) \subseteq Closing => Opened(c, "Owner", {"Job"}) \subseteq Closing'
  <2>1. \A h \in Closing : h \in AllHandles
    BY DEF HandlesInv, HandleTypes, Closing
  <2>2. \A h \in Opened(c, "Owner", {"Job"}) : h.of = c
    BY DEF Opened
  <2> QED BY <2>1, <2>2 DEF MovesOnly
<1>4. /\ holding'[c] = holding[c] /\ body'[c] = body[c] /\ image'[c] = image[c]
      /\ c \in inJob' <=> c \in inJob
      /\ c = preparing'.child <=> c = preparing.child
  BY DEF MovesOnly
<1>5. Windows' = Windows /\ Terminal' = Terminal /\ Needed(c)' = Needed(c)
  BY <1>4, SameMachine DEF MovesOnly, Needed
<1>6. KeptOf(c)'
  BY <1>1, <1>3, <1>4, <1>5 DEF HandlesInv, KeptOf
<1>7. Bound(c)'
  BY <1>1, <1>4, <1>5 DEF HandlesInv, Bound
<1>8. ASSUME c = preparing.child, NEW k, k = preparing.step PROVE Reached(c, k)'
  <2>1. preparing' = preparing /\ preparing # Idle
    BY <1>8, ChildrenAreChildren DEF MovesOnly, Idle
  <2>2. Reached(c, k)
    BY <1>8, <2>1 DEF HandlesInv
  <2> QED BY <1>1, <1>4, <2>1, <2>2, SameMachine DEF MovesOnly, Reached
<1> QED BY <1>6, <1>7, <1>8

(* What is to be shown of a step of d. *)
LEMMA StepOfOne ==
  ASSUME HandlesInv, NEW d \in Children, MovesOnly(d), HandleTypes',
         ConsolesLast(handles', closing'), KeptOf(d)', Bound(d)',
         preparing' # Idle /\ preparing'.child = d => \A k : k = preparing'.step => Reached(d, k)'
  PROVE  HandlesInv'
<1>1. \A c \in Children : KeptOf(c)' /\ Bound(c)'
  BY OthersKeep
<1>2. ASSUME preparing' # Idle, NEW c, c = preparing'.child, NEW k, k = preparing'.step
      PROVE  Reached(c, k)'
  <2>1. c \in Children
    BY <1>2 DEF HandleTypes
  <2>2. CASE c # d
    <3>1. c = preparing.child /\ k = preparing.step
      BY <1>2, <2>1, <2>2 DEF MovesOnly
    <3> QED BY <2>1, <2>2, <3>1, OthersKeep
  <2> QED BY <1>2, <2>2
<1>3. preparing' # Idle => Reached(preparing.child, preparing.step)'
  BY <1>2 DEF Reached
<1> QED BY <1>1, <1>3 DEF HandlesInv

(* What is left once a list of drops has been made out. *)
LEMMA Unwound ==
  ASSUME NEW S, Unwinds(closing', handles', S)
  PROVE  /\ closing' \in Seq(AllHandles) /\ ConsolesLast(handles', closing')
         /\ Closing' = S /\ Left' = handles' \ S
<1>1. Closing' = S
  BY DEF Unwinds, Closing
<1> QED BY <1>1 DEF Unwinds, Left

LEMMA NeededAreEnds ==
  ASSUME NEW c, holding[c] = "Running"
  PROVE  Windows => "Job" \in Needed(c)
BY DEF Needed

(* The owner of a child that is over, or of one in its job, drops what it has. *)
LEMMA DisposeKeeps ==
  ASSUME HandlesInv, NEW c \in Children, closing = <<>>, Dispose(c, "Ended"),
         holding[c] \in {"Running", "Pending"},
         body' = body \/ body' = [body EXCEPT ![c] = "GONE"],
         body'[c] \in {"NONE", "GONE"} \/ (c \in inJob /\ "Job" \in HeldBy(c, "Owner"))
  PROVE  HandlesInv'
<1> DEFINE H == HeldBy(c, "Owner")
<1>1. /\ HandleTypes /\ KeptOf(c) /\ Bound(c) /\ \A b : LeftBy(c, b) = HeldBy(c, b)
      /\ machine' = machine /\ handles' = handles /\ preparing' = preparing /\ image' = image
      /\ inJob' = inJob /\ target' = target
      /\ holding' = [holding EXCEPT ![c] = "Ended"] /\ closing' = Dropped(c, "Owner", H)
  BY NothingCloses DEF HandlesInv, Dispose, DropOwner, HeldBy
<1>2. handles \in SUBSET AllHandles /\ H \subseteq Ends /\ holding'[c] = "Ended" /\ c # preparing.child
  BY <1>1, HeldAreEnds DEF HandleTypes, HeldBy, KeptOf
<1> HIDE DEF H
<1>3. Unwinds(closing', handles', Opened(c, "Owner", H))
  <2>1. HeldIn(handles, c, "Owner") \subseteq H
    BY DEF H, HeldBy
  <2> QED BY <1>1, <1>2, <2>1, DroppedUnwinds DEF Holders
<1>4. /\ closing' \in Seq(AllHandles) /\ ConsolesLast(handles', closing')
      /\ Closing' = Opened(c, "Owner", H) /\ Left' = handles \ Opened(c, "Owner", H)
  BY <1>1, <1>3, Unwound
<1>5. \A b : HeldBy(c, b)' = HeldBy(c, b)
      /\ LeftBy(c, b)' = HeldBy(c, b) \ (IF b = "Owner" THEN H ELSE {})
  BY <1>1, <1>2, <1>4, HeldWithout DEF HeldBy, LeftBy
<1>6. Windows' = Windows
  BY <1>1, SameMachine
<1>7. HandleTypes'
  BY <1>1, <1>4, SameMachine DEF HandleTypes, Bodies, Holdings
<1>8. KeptOf(c)'
  <2>1. LeftBy(c, "Owner")' = {} /\ LeftBy(c, "Call")' = {} /\ LeftBy(c, "Launch")' = {}
    BY <1>1, <1>2, <1>5 DEF H, KeptOf
  <2>2. body'[c] \in {"NONE", "GONE"}
        \/ (c \in inJob' /\ Opened(c, "Owner", {"Job"}) \subseteq Closing')
    BY <1>1, <1>4 DEF Opened, H
  <2> QED BY <1>1, <1>2, <2>1, <2>2 DEF KeptOf
<1>9. Bound(c)'
  <2>1. body'[c] \in Running => body[c] \in Running
    BY <1>1 DEF Running, HandleTypes
  <2> QED BY <1>1, <1>5, <1>6, <2>1 DEF Bound
<1>10. MovesOnly(c)
  <2>1. \A h \in Closing' \cup Closing : h.of = c
    BY <1>4, NothingCloses DEF Opened
  <2> QED BY <1>1, <2>1 DEF MovesOnly, HandleTypes
<1> QED BY <1>1, <1>2, <1>4, <1>7, <1>8, <1>9, <1>10, StepOfOne

LEMMA PollExitKeeps ==
  ASSUME HandlesInv, NEW c \in Children, PollExit(c)
  PROVE  HandlesInv'
<1>1. body' = body /\ body'[c] = "GONE" /\ holding[c] = "Running" /\ closing = <<>>
      /\ Dispose(c, "Ended")
  BY DEF PollExit
<1> QED BY <1>1, DisposeKeeps

LEMMA RetryChildCleanupKeeps ==
  ASSUME HandlesInv, NEW c \in Children, RetryChildCleanup(c)
  PROVE  HandlesInv'
<1>1. /\ body' = [body EXCEPT ![c] = "GONE"] /\ body'[c] = "GONE"
      /\ holding[c] = "Pending" /\ closing = <<>> /\ Dispose(c, "Ended")
  BY DEF RetryChildCleanup, HandlesInv, HandleTypes
<1> QED BY <1>1, DisposeKeeps

(* Only the body of c moves, and it is not at its beginning. *)
LEMMA BodyKeeps ==
  ASSUME HandlesInv, NEW c \in Children,
         UNCHANGED <<machine, handles, preparing, closing, image, inJob, holding, target>>,
         \/ body' = [body EXCEPT ![c] = "GONE"] /\ (body[c] \in Running \/ holding[c] = "Running")
         \/ body' = [body EXCEPT ![c] = "HEADLESS"] /\ body[c] \in Running
  PROVE  HandlesInv'
<1>1. HandleTypes /\ KeptOf(c) /\ Bound(c) /\ body'[c] \in {"GONE", "HEADLESS"}
      /\ (body'[c] = "HEADLESS" => body[c] \in Running)
  BY DEF HandlesInv, HandleTypes
<1>2. /\ \A b : HeldBy(c, b)' = HeldBy(c, b) /\ LeftBy(c, b)' = LeftBy(c, b)
      /\ Closing' = Closing
  BY DEF HeldBy, LeftBy, Left, Closing
<1>3. Windows' = Windows /\ Needed(c)' = Needed(c)
  BY SameMachine DEF Needed
<1>4. HandleTypes'
  BY <1>1, SameMachine DEF HandleTypes, Bodies, Running
<1>5. KeptOf(c)'
  <2>1. holding[c] # "Nothing"
    BY <1>1 DEF KeptOf, Running
  <2>2. body'[c] \in {"NONE", "GONE"} \/ (body[c] \in Running /\ body[c] \notin {"NONE", "GONE"})
    BY <1>1 DEF Running
  <2> QED BY <1>1, <1>2, <1>3, <2>1, <2>2 DEF KeptOf
<1>6. Bound(c)'
  BY <1>1, <1>2, <1>3 DEF Bound, Running
<1>7. MovesOnly(c)
  BY <1>1, <1>2 DEF MovesOnly, HandleTypes
<1>8. ConsolesLast(handles', closing')
  BY DEF HandlesInv
<1>9. ASSUME preparing' # Idle, preparing'.child = c, NEW k, k = preparing'.step PROVE Reached(c, k)'
  <2>1. Reached(c, k) /\ holding[c] = "Launching"
    BY <1>1, <1>9 DEF HandlesInv, KeptOf
  <2>2. body[c] \in Running
    BY <2>1
  <2>3. body'[c] # "NONE" /\ body[c] # "NONE"
    BY <1>1, <2>2 DEF Running
  <2>4. k = MarksAt /\ ~(k <= CreatesAt)
    BY <2>1, <2>2, <2>3 DEF Reached
  <2> QED BY <1>2, <2>1, <2>3, <2>4, SameMachine DEF Reached
<1> QED BY <1>4, <1>5, <1>6, <1>7, <1>8, <1>9, StepOfOne

LEMMA BodyMovesKeeps ==
  ASSUME HandlesInv, NEW c \in Children, BodyMoves(c)
  PROVE  HandlesInv'
<1>1. UNCHANGED <<machine, handles, preparing, closing, image, inJob, holding, target>>
  BY DEF BodyMoves
<1>2. \/ body' = [body EXCEPT ![c] = "GONE"] /\ (body[c] \in Running \/ holding[c] = "Running")
      \/ body' = [body EXCEPT ![c] = "HEADLESS"] /\ body[c] \in Running
  BY DEF BodyMoves, Running
<1> QED BY <1>1, <1>2, BodyKeeps

LEMMA SendGracefulKeeps ==
  ASSUME HandlesInv, NEW c \in Children, SendGraceful(c)
  PROVE  HandlesInv'
<1>1. UNCHANGED <<machine, handles, preparing, closing, image, inJob, holding, target>>
  BY DEF SendGraceful
<1>2. \/ body' = [body EXCEPT ![c] = "GONE"] /\ (body[c] \in Running \/ holding[c] = "Running")
      \/ body' = [body EXCEPT ![c] = "HEADLESS"] /\ body[c] \in Running
  BY DEF SendGraceful, Running
<1> QED BY <1>1, <1>2, BodyKeeps

LEMMA SendForceKeeps ==
  ASSUME HandlesInv, NEW c \in Children, SendForce(c)
  PROVE  HandlesInv'
<1>1. UNCHANGED <<machine, handles, preparing, closing, image, inJob, holding, target>>
  BY DEF SendForce
<1>2. \/ body' = [body EXCEPT ![c] = "GONE"] /\ (body[c] \in Running \/ holding[c] = "Running")
      \/ body' = [body EXCEPT ![c] = "HEADLESS"] /\ body[c] \in Running
  BY DEF SendForce, Revalidated
<1> QED BY <1>1, <1>2, BodyKeeps

(* A cleanup that fails is forgotten with its handles. *)
LEMMA QuarantineKeeps ==
  ASSUME HandlesInv, NEW c \in Children, closing = <<>>, preparing = Idle,
         holding' = [holding EXCEPT ![c] = "Quarantined"],
         \/ holding[c] = "Pending" /\ closing' = closing
         \/ holding[c] = "Running" /\ ~Windows /\ closing' = DropOwner(handles, c),
         UNCHANGED <<machine, handles, preparing, body, image, inJob, target>>
  PROVE  HandlesInv'
<1> DEFINE H == HeldBy(c, "Owner")
<1>1. /\ HandleTypes /\ KeptOf(c) /\ Bound(c) /\ \A b : LeftBy(c, b) = HeldBy(c, b)
      /\ holding'[c] = "Quarantined" /\ preparing.child # c
  BY NothingCloses, ChildrenAreChildren DEF HandlesInv, HandleTypes, Idle
<1>2. handles \in SUBSET AllHandles /\ H \subseteq Ends
  BY <1>1, HeldAreEnds DEF HandleTypes, HeldBy
<1> HIDE DEF H
<1>3. \E S : Unwinds(closing', handles', S) /\ (S = {} \/ (~Windows /\ S = Opened(c, "Owner", H)))
  <2>1. CASE closing' = closing
    BY <2>1, NothingUnwinds
  <2>2. CASE ~Windows /\ closing' = DropOwner(handles, c)
    <3>1. HeldIn(handles, c, "Owner") \subseteq H /\ closing' = Dropped(c, "Owner", H)
      BY <2>2 DEF H, HeldBy, DropOwner
    <3>2. Unwinds(closing', handles', Opened(c, "Owner", H))
      BY <1>2, <3>1, DroppedUnwinds DEF Holders
    <3> QED BY <2>2, <3>2
  <2> QED BY <2>1, <2>2
<1>4. PICK S : Unwinds(closing', handles', S) /\ (S = {} \/ (~Windows /\ S = Opened(c, "Owner", H)))
  BY <1>3
<1>5. /\ closing' \in Seq(AllHandles) /\ ConsolesLast(handles', closing')
      /\ Closing' = S /\ Left' = handles \ S
  BY <1>4, Unwound
<1>6. \A b : HeldBy(c, b)' = HeldBy(c, b)
  BY DEF HeldBy
<1>7. \A b : b \in {"Call", "Launch"} \/ Windows => LeftBy(c, b)' = LeftBy(c, b)
  <2>1. CASE S = {}
    <3>1. Left' = Left
      BY <1>5, <2>1, NothingCloses
    <3> QED BY <3>1 DEF LeftBy
  <2>2. CASE ~Windows /\ S = Opened(c, "Owner", H)
    <3>1. ASSUME NEW b \in {"Call", "Launch"}
          PROVE  HeldIn(handles \ Opened(c, "Owner", H), c, b) = HeldIn(handles, c, b)
      BY <1>2, OthersAreHeld
    <3>2. Left' = handles \ Opened(c, "Owner", H)
      BY <1>5, <2>2
    <3> QED BY <1>1, <2>2, <3>1, <3>2 DEF LeftBy, HeldBy
  <2> QED BY <1>4, <2>1, <2>2
<1>8. Windows' = Windows
  BY SameMachine
<1>9. HandleTypes'
  BY <1>1, <1>5, SameMachine DEF HandleTypes, Holdings
<1>10. KeptOf(c)'
  BY <1>1, <1>7, <1>8 DEF KeptOf, Needed
<1>11. Bound(c)'
  BY <1>1, <1>6, <1>8 DEF Bound
<1>12. MovesOnly(c)
  <2>1. \A h \in Closing' \cup Closing : h.of = c
    BY <1>4, <1>5, NothingCloses DEF Opened
  <2> QED BY <1>1, <2>1 DEF MovesOnly, HandleTypes
<1> QED BY <1>1, <1>5, <1>9, <1>10, <1>11, <1>12, StepOfOne

LEMMA DropControlKeeps ==
  ASSUME HandlesInv, NEW c \in Children, DropControl(c)
  PROVE  HandlesInv'
<1>1. HandleTypes /\ KeptOf(c) /\ closing = <<>> /\ preparing = Idle
      /\ \A b : LeftBy(c, b) = HeldBy(c, b)
  BY NothingCloses DEF HandlesInv, DropControl
<1>2. CASE holding[c] = "Running" /\ Windows /\ Dispose(c, "Ended") /\ body' = body
  <2>1. c \in inJob /\ "Job" \in HeldBy(c, "Owner")
    BY <1>1, <1>2, NeededAreEnds DEF KeptOf
  <2> QED BY <1>1, <1>2, <2>1, DisposeKeeps
<1>3. CASE /\ holding[c] = "Pending" \/ (holding[c] = "Running" /\ ~Windows)
           /\ body' = [body EXCEPT ![c] = "GONE"] /\ Dispose(c, "Ended")
  <2>1. body'[c] = "GONE"
    BY <1>1, <1>3 DEF HandleTypes
  <2> QED BY <1>1, <1>3, <2>1, DisposeKeeps
<1>4. CASE /\ holding[c] = "Pending" /\ holding' = [holding EXCEPT ![c] = "Quarantined"]
           /\ UNCHANGED <<machine, handles, preparing, closing, body, image, inJob, target>>
  BY <1>1, <1>4, QuarantineKeeps
<1>5. CASE /\ holding[c] = "Running" /\ ~Windows /\ holding' = [holding EXCEPT ![c] = "Quarantined"]
           /\ closing' = DropTerminal(handles, c)
           /\ UNCHANGED <<machine, handles, preparing, body, image, inJob, target>>
  BY <1>1, <1>5, QuarantineKeeps DEF DropTerminal
<1> QED BY <1>2, <1>3, <1>4, <1>5 DEF DropControl

LEMMA RetargetKeeps ==
  ASSUME HandlesInv, Retarget
  PROVE  HandlesInv'
<1>1. /\ UNCHANGED <<machine, handles, preparing, closing, body, image, inJob, holding>>
      /\ target' = "second"
  BY DEF Retarget
<1>2. \A c, b : HeldBy(c, b)' = HeldBy(c, b) /\ LeftBy(c, b)' = LeftBy(c, b)
  BY <1>1 DEF HeldBy, LeftBy, Left, Closing
<1>3. Closing' = Closing /\ \A c : Needed(c)' = Needed(c)
  BY <1>1, SameMachine DEF Closing, Needed
<1>4. HandleTypes'
  BY <1>1, SameMachine DEF HandlesInv, HandleTypes, Files
<1>5. \A c \in Children : KeptOf(c)' /\ Bound(c)'
  BY <1>1, <1>2, <1>3, SameMachine DEF HandlesInv, KeptOf, Bound
<1>6. ASSUME preparing' # Idle, NEW c, c = preparing'.child, NEW k, k = preparing'.step
      PROVE  Reached(c, k)'
  BY <1>1, <1>2, <1>6, SameMachine DEF HandlesInv, Reached
<1>7. preparing' # Idle => Reached(preparing.child, preparing.step)'
  BY <1>6 DEF Reached
<1> QED BY <1>1, <1>4, <1>5, <1>7 DEF HandlesInv

LEMMA EndOfFileKeeps ==
  ASSUME HandlesInv, NEW c \in Children, NEW end \in Readers, EndOfFile(c, end)
  PROVE  HandlesInv'
<1> DEFINE S == Opened(c, "Worker", {end})
<1>1. /\ UNCHANGED <<machine, preparing, closing, body, image, inJob, holding, target>>
      /\ handles' = handles \ S /\ HandleTypes /\ KeptOf(c) /\ Bound(c)
  BY DEF EndOfFile, HandlesInv
<1>2. handles \in SUBSET AllHandles /\ Left \in SUBSET AllHandles
  BY <1>1 DEF HandleTypes, Left
<1>3. Closing' = Closing /\ Left' = Left \ S
  BY <1>1 DEF Closing, Left
<1>4. \A b : /\ HeldBy(c, b)' \subseteq HeldBy(c, b)
             /\ b # "Worker" => HeldBy(c, b)' = HeldBy(c, b) /\ LeftBy(c, b)' = LeftBy(c, b)
  <2>1. \A b : HeldIn(handles \ S, c, b) \subseteq HeldIn(handles, c, b)
    BY HeldIsMonotone
  <2>2. \A b : b # "Worker" => /\ HeldIn(handles \ S, c, b) = HeldIn(handles, c, b)
                               /\ HeldIn(Left \ S, c, b) = HeldIn(Left, c, b)
    BY <1>2, OthersAreHeld
  <2> QED BY <1>1, <1>3, <2>1, <2>2 DEF HeldBy, LeftBy
<1>5. Windows' = Windows /\ Needed(c)' = Needed(c)
  BY <1>1, SameMachine DEF Needed
<1>6. HandleTypes'
  BY <1>1, SameMachine DEF HandleTypes
<1>7. KeptOf(c)'
  <2>1. \A b \in {"Call", "Launch", "Owner"} : LeftBy(c, b)' = LeftBy(c, b)
    BY <1>4
  <2>2. holding[c] = "Nothing" => \A b \in Holders : HeldBy(c, b)' = {}
    BY <1>1, <1>4 DEF KeptOf
  <2> QED BY <1>1, <1>3, <1>5, <2>1, <2>2 DEF KeptOf
<1>8. Bound(c)'
  <2>1. \A b \in {"Call", "Launch", "Owner", "Host"} : HeldBy(c, b)' = HeldBy(c, b)
    BY <1>4
  <2> QED BY <1>1, <1>4, <1>5, <2>1 DEF Bound
<1>9. MovesOnly(c)
  BY <1>1, <1>3 DEF MovesOnly, Opened
<1>10. ConsolesLast(handles', closing')
  <2>1. \A d, b : HeldIn(handles', d, b) \subseteq HeldIn(handles, d, b)
    BY <1>1, HeldIsMonotone
  <2> QED BY <1>1, <2>1 DEF HandlesInv, ConsolesLast
<1>11. ASSUME preparing' # Idle, preparing'.child = c, NEW k, k = preparing'.step PROVE Reached(c, k)'
  <2>1. Reached(c, k)
    BY <1>1, <1>11 DEF HandlesInv
  <2> QED BY <1>1, <1>4, <2>1, SameMachine DEF Reached
<1> QED BY <1>6, <1>7, <1>8, <1>9, <1>10, <1>11, StepOfOne

LEMMA EndsOfPipes == PipeEnds \subseteq Ends
BY LocalsAll DEF PipeEnds

LEMMA OpenPipesKeeps ==
  ASSUME HandlesInv, NEW c \in Children, OpenPipes(c)
  PROVE  HandlesInv'
<1> DEFINE new == IF Terminal THEN {} ELSE PipeEnds
<1>1. /\ HandleTypes /\ KeptOf(c) /\ Bound(c) /\ preparing = Idle /\ closing = <<>>
      /\ holding[c] = "Nothing"
      /\ preparing' = [child |-> c, step |-> 1, candidate |-> 1]
      /\ holding' = [holding EXCEPT ![c] = "Launching"] /\ holding'[c] = "Launching"
      /\ UNCHANGED <<machine, closing, body, image, inJob, target>>
  BY DEF OpenPipes, HandlesInv, HandleTypes
<1>2. handles' = handles \cup Opened(c, "Launch", new)
  <2>1. CASE Terminal
    BY <2>1 DEF OpenPipes, Opened
  <2>2. CASE ~Terminal
    BY <2>2 DEF OpenPipes, PipeEnds
  <2> QED BY <2>1, <2>2
<1>3. new \subseteq Ends
  BY EndsOfPipes
<1> HIDE DEF new
<1>4. \A b \in Holders : HeldBy(c, b)' = IF b = "Launch" THEN new ELSE {}
  <2>1. \A b \in Holders : HeldBy(c, b) = {}
    BY <1>1 DEF KeptOf
  <2>2. \A b \in Holders : HeldIn(handles', c, b) = HeldIn(handles, c,
        b) \cup (IF b = "Launch" THEN new ELSE {})
    BY <1>2, HeldWith
  <2> QED BY <2>1, <2>2 DEF HeldBy
<1>5. Closing' = {} /\ \A b : LeftBy(c, b)' = HeldBy(c, b)'
  <2>1. Closing' = {}
    BY <1>1 DEF Closing
  <2>2. Left' = handles'
    BY <2>1 DEF Left
  <2> QED BY <2>1, <2>2 DEF LeftBy, HeldBy
<1>6. HandleTypes'
  <2>1. handles' \subseteq AllHandles
    BY <1>1, <1>2, <1>3, OpenedAreHandles DEF HandleTypes, Holders
  <2>2. 1 \in 1..MarksAt /\ 1 \in 1..MaxCandidates
    BY PlacesAreOrdered, CandidatesExist
  <2> QED BY <1>1, <2>1, <2>2, SameMachine DEF HandleTypes, Holdings
<1>7. KeptOf(c)'
  BY <1>1 DEF KeptOf
<1>8. Bound(c)'
  <2>1. body'[c] = "NONE"
    BY <1>1 DEF KeptOf
  <2> QED BY <1>4, <2>1 DEF Bound, Running, Holders
<1>9. MovesOnly(c)
  <2>1. \A h \in Opened(c, "Launch", new) : h.of = c
    BY DEF Opened
  <2>2. Closing = {}
    BY <1>1, NothingCloses
  <2> QED BY <1>1, <1>2, <1>5, <2>1, <2>2, ChildrenAreChildren DEF MovesOnly, HandleTypes, Idle
<1>10. ConsolesLast(handles', closing')
  BY <1>1 DEF ConsolesLast
<1>11. Reached(c, 1)'
  <2>1. HeldAt(1)' = {} /\ OwnedAt(1)' = {} /\ PipesAt(1)' = new
    BY <1>1, SameMachine, HeldAtFirst, PlacesAreOrdered DEF OwnedAt, PipesAt, new
  <2>2. body'[c] = "NONE" /\ c \notin inJob'
    BY <1>1 DEF KeptOf
  <2>3. LeftBy(c, "Call")' = {} /\ LeftBy(c, "Owner")' = {} /\ LeftBy(c, "Launch")' = new
    BY <1>4, <1>5 DEF Holders
  <2>4. 1 <= CreatesAt' /\ ~(1 > OwnsAt' + 1) /\ ~(1 > OwnsAt' + 4)
    BY <1>1, SameMachine, PlacesAreOrdered
  <2> QED BY <2>1, <2>2, <2>3, <2>4 DEF Reached, Running
<1> QED BY <1>1, <1>6, <1>7, <1>8, <1>9, <1>10, <1>11, StepOfOne

LEMMA PipesFailKeeps ==
  ASSUME HandlesInv, NEW c \in Children, PipesFail(c)
  PROVE  HandlesInv'
<1>1. /\ HandleTypes /\ KeptOf(c) /\ Bound(c) /\ preparing = Idle /\ closing = <<>>
      /\ holding[c] = "Nothing"
      /\ holding' = [holding EXCEPT ![c] = "Ended"] /\ holding'[c] = "Ended"
      /\ UNCHANGED <<machine, preparing, body, image, inJob, target>>
  BY DEF PipesFail, HandlesInv, HandleTypes
<1>2. PICK opened \in {{}, {"OutReader", "OutWriter"}} :
        /\ handles' = handles \cup Opened(c, "Launch", opened)
        /\ closing' = Dropped(c, "Launch", opened)
  BY DEF PipesFail
<1>3. opened \subseteq Ends
  BY EndsOfPipes DEF PipeEnds
<1>4. \A b \in Holders : HeldIn(handles', c, b) = IF b = "Launch" THEN opened ELSE {}
  <2>1. \A b \in Holders : HeldBy(c, b) = {}
    BY <1>1 DEF KeptOf
  <2>2. \A b \in Holders :
          HeldIn(handles', c, b) = HeldIn(handles, c, b) \cup (IF b = "Launch" THEN opened ELSE {})
    BY <1>2, HeldWith
  <2> QED BY <2>1, <2>2 DEF HeldBy
<1>5. handles' \in SUBSET AllHandles
  BY <1>1, <1>2, <1>3, OpenedAreHandles DEF HandleTypes, Holders
<1>6. Unwinds(closing', handles', Opened(c, "Launch", opened))
  BY <1>2, <1>3, <1>4, <1>5, DroppedUnwinds DEF Holders
<1>7. /\ closing' \in Seq(AllHandles) /\ ConsolesLast(handles', closing')
      /\ Closing' = Opened(c, "Launch", opened) /\ Left' = handles' \ Opened(c, "Launch", opened)
  BY <1>6, Unwound
<1>8. \A b \in Holders : LeftBy(c, b)' = {}
  <2>1. \A b \in Holders : HeldIn(handles' \ Opened(c, "Launch", opened), c, b)
                             = HeldIn(handles', c, b) \ (IF b = "Launch" THEN opened ELSE {})
    BY <1>5, HeldWithout
  <2> QED BY <1>4, <1>7, <2>1 DEF LeftBy
<1>9. HandleTypes'
  BY <1>1, <1>5, <1>7, SameMachine DEF HandleTypes, Holdings
<1>10. KeptOf(c)'
  BY <1>1, <1>8, ChildrenAreChildren DEF KeptOf, Holders, Idle
<1>11. Bound(c)'
  <2>1. body'[c] = "NONE"
    BY <1>1 DEF KeptOf
  <2>2. \A b \in Holders : HeldBy(c, b)' = IF b = "Launch" THEN opened ELSE {}
    BY <1>4 DEF HeldBy
  <2> QED BY <2>1, <2>2 DEF Bound, Running, Holders
<1>12. MovesOnly(c)
  <2>1. \A h \in Opened(c, "Launch", opened) : h.of = c
    BY DEF Opened
  <2>2. Closing = {}
    BY <1>1, NothingCloses
  <2> QED BY <1>1, <1>2, <1>7, <2>1, <2>2 DEF MovesOnly, HandleTypes
<1> QED BY <1>1, <1>7, <1>9, <1>10, <1>11, <1>12, StepOfOne

LEMMA CloseNextKeeps ==
  ASSUME HandlesInv, CloseNext
  PROVE  HandlesInv'
<1> SUFFICES ASSUME NEW h, h = closing[1], NEW d, d = h.of,
                    NEW X, X = IF h.end = "Console" THEN {g \in handles : g.of = d
                      /\ g.by = "Host"} ELSE {}
             PROVE  HandlesInv'
  OBVIOUS
<1>1. /\ HandleTypes /\ closing # <<>> /\ closing' = Tail(closing) /\ handles' = handles \ ({h} \cup X)
      /\ body' = IF h.end = "Job" /\ d \in inJob THEN [body EXCEPT ![d] = "GONE"] ELSE body
      /\ UNCHANGED <<machine, preparing, image, inJob, holding, target>>
  BY DEF CloseNext, HandlesInv
<1>2. /\ closing' \in Seq(AllHandles) /\ h \in AllHandles /\ Closing = {h} \cup Closing'
      /\ ConsolesLast(handles', closing')
  <2>1. handles \in SUBSET AllHandles /\ handles' \in SUBSET handles /\ h \notin handles'
        /\ closing \in Seq(AllHandles) /\ ConsolesLast(handles, closing)
    BY <1>1 DEF HandlesInv, HandleTypes
  <2>2. /\ Tail(closing) \in Seq(AllHandles) /\ h \in AllHandles
        /\ {closing[i] : i \in DOMAIN closing}
             = {h} \cup {Tail(closing)[i] : i \in DOMAIN Tail(closing)}
        /\ ConsolesLast(handles', Tail(closing))
    <3>1. closing # <<>> /\ closing[1] = h /\ closing[1] \notin handles'
      BY <1>1, <2>1
    <3>2. /\ Tail(closing) \in Seq(AllHandles) /\ closing[1] \in AllHandles
          /\ {closing[i] : i \in DOMAIN closing}
               = {closing[1]} \cup {Tail(closing)[i] : i \in DOMAIN Tail(closing)}
          /\ ConsolesLast(handles', Tail(closing))
      BY <2>1, <3>1, TailUnwinds
    <3> QED BY <3>1, <3>2
  <2> QED BY <1>1, <2>2 DEF Closing
<1>3. d \in Children /\ h.end \in Ends /\ h.by \in Holders /\ h = [of |-> d, by |-> h.by, end |-> h.end]
  BY <1>2 DEF AllHandles
<1>4. KeptOf(d) /\ Bound(d) /\ X \subseteq handles /\ \A g \in X : g.of = d /\ g.by = "Host"
  BY <1>3 DEF HandlesInv
<1>5. h.end = "Console" => \A g \in handles : g.of = d /\ g.by = "Host" => g \in X
  OBVIOUS
<1>6. Left' = Left \ X
  BY <1>1, <1>2 DEF Left
<1>7. \A b : /\ HeldBy(d, b)' \subseteq HeldBy(d, b)
             /\ b # "Host" => LeftBy(d, b)' = LeftBy(d, b)
  <2>1. \A b : HeldIn(handles', d, b) \subseteq HeldIn(handles, d, b)
    BY <1>1, HeldIsMonotone
  <2>2. \A b : b # "Host" => {g \in Left' : g.of = d /\ g.by = b} = {g \in Left : g.of = d /\ g.by = b}
    BY <1>4, <1>6
  <2> QED BY <2>1, <2>2 DEF HeldBy, LeftBy, HeldIn
<1>8. \/ h.end = "Job" /\ d \in inJob /\ body' = [body EXCEPT ![d] = "GONE"] /\ body'[d] = "GONE"
      \/ (h.end # "Job" \/ d \notin inJob) /\ body' = body
  BY <1>1, <1>3 DEF HandleTypes
<1>9. Windows' = Windows /\ Needed(d)' = Needed(d)
  BY <1>1, SameMachine DEF Needed
<1>10. HandleTypes'
  <2>1. body' \in [Children -> Bodies]
    BY <1>1, <1>8 DEF HandleTypes, Bodies
  <2> QED BY <1>1, <1>2, <2>1, SameMachine DEF HandleTypes
<1>11. KeptOf(d)'
  <2>1. \A b \in {"Call", "Launch", "Owner"} : LeftBy(d, b)' = LeftBy(d, b)
    BY <1>7
  <2>2. holding[d] = "Nothing" => body'[d] = "NONE" /\ \A b \in Holders : HeldBy(d, b)' = {}
    BY <1>4, <1>7, <1>8 DEF KeptOf
  <2>3. ASSUME holding[d] = "Ended", body'[d] \notin {"NONE", "GONE"}
        PROVE  d \in inJob /\ Opened(d, "Owner", {"Job"}) \subseteq Closing'
    <3>1. d \in inJob /\ h.end # "Job" /\ Opened(d, "Owner", {"Job"}) \subseteq Closing
      BY <1>4, <1>8, <2>3 DEF KeptOf
    <3>2. \A g \in Opened(d, "Owner", {"Job"}) : g.end = "Job"
      BY DEF Opened
    <3> QED BY <1>2, <3>1, <3>2
  <2> QED BY <1>1, <1>4, <1>9, <2>1, <2>2, <2>3 DEF KeptOf
<1>12. Bound(d)'
  <2>1. body'[d] \in Running => body[d] \in Running
    BY <1>8 DEF Running
  <2>2. ASSUME HeldBy(d, "Host")' # {}
        PROVE  "Console" \in HeldBy(d, "Call")' \cup HeldBy(d, "Owner")'
    <3>1. h.end # "Console"
      <4>1. PICK g \in handles' : g.of = d /\ g.by = "Host"
        BY <2>2 DEF HeldBy, HeldIn
      <4> QED BY <1>1, <1>5, <4>1
    <3>2. HeldBy(d, "Host") # {}
      BY <1>7, <2>2
    <3>3. PICK b \in {"Call", "Owner"} : "Console" \in HeldBy(d, b)
      BY <1>4, <3>2 DEF Bound
    <3>4. PICK g \in handles : g.of = d /\ g.by = b /\ g.end = "Console"
      BY <3>3 DEF HeldBy, HeldIn
    <3>5. g \in handles'
      BY <1>1, <1>4, <3>1, <3>4
    <3>6. "Console" \in HeldBy(d, b)'
      BY <3>4, <3>5 DEF HeldBy, HeldIn
    <3> QED BY <3>6
  <2> QED BY <1>1, <1>4, <1>7, <1>9, <2>1, <2>2 DEF Bound
<1>13. MovesOnly(d)
  <2>1. \A g : g.of # d => g # h /\ g \notin X
    BY <1>3, <1>4
  <2>2. \A c \in Children \ {d} : body'[c] = body[c]
    BY <1>1, <1>8 DEF HandleTypes
  <2> QED BY <1>1, <1>2, <2>1, <2>2 DEF MovesOnly
<1>14. ASSUME preparing' # Idle, preparing'.child = d, NEW k, k = preparing'.step PROVE Reached(d, k)'
  <2>1. Reached(d, k) /\ k \in 1..MarksAt
    BY <1>1, <1>14 DEF HandlesInv, HandleTypes
  <2>2. \A b \in {"Call", "Launch", "Owner"} : LeftBy(d, b)' = LeftBy(d, b)
    BY <1>7
  <2>3. /\ body'[d] = "NONE" <=> body[d] = "NONE"
        /\ body'[d] \in Running => body[d] \in Running
    BY <1>8, <2>1, PlacesAreOrdered DEF Reached, Running
  <2> QED BY <1>1, <2>1, <2>2, <2>3, SameMachine DEF Reached
<1> QED BY <1>2, <1>3, <1>10, <1>11, <1>12, <1>13, <1>14, StepOfOne

------------------------------------------------------------
(* What a step does to the handles. *)

LEMMA OwningOpensNothing ==
  ASSUME MachinesAreKnown, machine \in Machines
  PROVE  LaunchSteps[OwnsAt].opens = {}
<1> USE DEF LaunchSteps, PrepareSteps, PrepareProcessGroup, PrepareIntoJob, SpawnAttributes,
            SpawnFileActions, DuplicatePipeWriters, OpenManagedTerminal, OpenImageFile, CreateJob,
            InheritedStandardHandles, PreparedPseudoConsole, AttributeList, VerifyProcessImage,
            Ask, Close, Step, OwnsAt, CreatesAt
<1>1. CASE ~Windows /\ ~Terminal
  BY <1>1
<1>2. CASE ~Windows /\ Terminal
  BY <1>2
<1>3. CASE Windows /\ ~Terminal
  BY <1>3
<1>4. CASE Windows /\ Terminal
  BY <1>4
<1> QED BY <1>1, <1>2, <1>3, <1>4

(* The same of one child, for the holder whose handles change and the others. *)
LEMMA OneIsWithout ==
  ASSUME NEW S \in SUBSET AllHandles, NEW c, NEW by, NEW E
  PROVE  HeldIn(S \ Opened(c, by, E), c, by) = HeldIn(S, c, by) \ E
BY HeldWithout

LEMMA OnesAreWithout ==
  ASSUME NEW S \in SUBSET AllHandles, NEW c, NEW by, NEW E, NEW o, o # by
  PROVE  HeldIn(S \ Opened(c, by, E), c, o) = HeldIn(S, c, o)
BY OthersAreHeld

LEMMA OneIsWith ==
  ASSUME NEW S, NEW c, NEW by, NEW E
  PROVE  HeldIn(S \cup Opened(c, by, E), c, by) = HeldIn(S, c, by) \cup E
BY HeldWith

LEMMA OnesAreWith ==
  ASSUME NEW S, NEW c, NEW by, NEW E, NEW o, o # by
  PROVE  HeldIn(S \cup Opened(c, by, E), c, o) = HeldIn(S, c, o)
<1>1. HeldIn(S \cup Opened(c, by, E), c, o) = HeldIn(S, c, o) \cup (IF c = c /\ o = by THEN E ELSE {})
  BY HeldWith
<1> QED BY <1>1

(* Handles of c move; those of any other child stay. *)
OnlyMoves(H, c) ==
  H \in SUBSET AllHandles /\ \A h \in AllHandles : h.of # c => (h \in H <=> h \in handles)

LEMMA WithoutMoves ==
  ASSUME HandlesInv, NEW H, NEW c \in Children, OnlyMoves(H, c), NEW by, NEW E
  PROVE  OnlyMoves(H \ Opened(c, by, E), c)
BY DEF OnlyMoves, Opened

LEMMA WithMoves ==
  ASSUME HandlesInv, NEW H, NEW c \in Children, OnlyMoves(H, c), NEW by \in Holders,
         NEW E \in SUBSET Ends
  PROVE  OnlyMoves(H \cup Opened(c, by, E), c)
<1>1. Opened(c, by, E) \subseteq AllHandles /\ \A h \in Opened(c, by, E) : h.of = c
  BY OpenedAreHandles DEF Opened
<1> QED BY <1>1 DEF OnlyMoves

LEMMA NothingMoves ==
  ASSUME HandlesInv, NEW c
  PROVE  OnlyMoves(handles, c)
BY DEF HandlesInv, HandleTypes, OnlyMoves

(* The readers of c leave the launch and the owner for the workers. *)
LEMMA GivenReaders ==
  ASSUME HandlesInv, NEW c \in Children, NEW given \in SUBSET Readers
  PROVE  /\ OnlyMoves(GiveReaders(c, given), c)
         /\ \A b \in {"Launch", "Owner"} : HeldIn(GiveReaders(c, given), c, b) = HeldBy(c, b) \ Readers
         /\ \A b \in {"Call", "Host"} : HeldIn(GiveReaders(c, given), c, b) = HeldBy(c, b)
         /\ HeldIn(GiveReaders(c, given), c, "Worker")
              = HeldBy(c, "Worker") \cup ((HeldBy(c, "Launch") \cup HeldBy(c, "Owner")) \cap given)
<1> DEFINE taken == {h \in handles : h.of = c /\ h.by \in {"Launch", "Owner"} /\ h.end \in Readers}
           moved == {[h EXCEPT !.by = "Worker"] : h \in {g \in taken : g.end \in given}}
           ends  == (HeldBy(c, "Launch") \cup HeldBy(c, "Owner")) \cap given
<1>1. GiveReaders(c, given) = (handles \ taken) \cup moved
  BY DEF GiveReaders
<1>2. handles \in SUBSET AllHandles /\ \A h \in handles : h = [of |-> h.of, by |-> h.by, end |-> h.end]
  BY DEF HandlesInv, HandleTypes, AllHandles
<1>3. ends \subseteq Ends
  BY <1>2, HeldAreEnds DEF HeldBy
<1>4. moved = Opened(c, "Worker", ends)
  <2> DEFINE to(h) == [h EXCEPT !.by = "Worker"]
  <2>1. ASSUME NEW h \in taken
        PROVE  to(h) = [of |-> c, by |-> "Worker", end |-> h.end]
    <3>1. h \in AllHandles /\ h.of = c
      BY <1>2
    <3>2. [h EXCEPT !.by = "Worker"] = [of |-> h.of, by |-> "Worker", end |-> h.end]
      BY <3>1 DEF AllHandles
    <3> QED BY <3>1, <3>2
  <2>2. \A h \in taken : h.end \in given => h.end \in ends
    BY DEF HeldBy, HeldIn
  <2>3. \A e \in ends : \E h \in taken : h.end = e /\ e \in given
    BY DEF HeldBy, HeldIn
  <2>4. moved = {to(h) : h \in {g \in taken : g.end \in given}}
    OBVIOUS
  <2> HIDE DEF taken, ends, to, moved
  <2>5. moved \subseteq Opened(c, "Worker", ends)
    BY <2>1, <2>2, <2>4 DEF Opened
  <2>6. ASSUME NEW e \in ends PROVE [of |-> c, by |-> "Worker", end |-> e] \in moved
    <3>1. PICK h \in taken : h.end = e /\ e \in given
      BY <2>3
    <3>2. h \in {g \in taken : g.end \in given}
      BY <3>1
    <3> QED BY <2>1, <2>4, <3>1, <3>2
  <2> QED BY <2>5, <2>6 DEF Opened
<1>5. \A b \in {"Launch", "Owner"} : HeldIn(handles \ taken, c, b) = HeldBy(c, b) \ Readers
  BY DEF HeldBy, HeldIn
<1>6. \A b : b \notin {"Launch", "Owner"} => HeldIn(handles \ taken, c, b) = HeldBy(c, b)
  BY DEF HeldBy, HeldIn
<1>7. OnlyMoves(handles \ taken, c)
  BY <1>2 DEF OnlyMoves
<1> HIDE DEF taken, moved, ends
<1>8. OnlyMoves((handles \ taken) \cup moved, c)
  BY <1>3, <1>4, <1>7, WithMoves DEF Holders
<1>9. \A b : HeldIn((handles \ taken) \cup moved, c, b)
               = HeldIn(handles \ taken, c, b) \cup (IF b = "Worker" THEN ends ELSE {})
  BY <1>4, HeldWith
<1>10. \A b \in {"Launch", "Owner"} : HeldIn((handles \ taken) \cup moved, c, b) = HeldBy(c,
       b) \ Readers
  BY <1>5, <1>9
<1>11. \A b \in {"Call", "Host"} : HeldIn((handles \ taken) \cup moved, c, b) = HeldBy(c, b)
  BY <1>6, <1>9
<1>12. HeldIn((handles \ taken) \cup moved, c, "Worker") = HeldBy(c, "Worker") \cup ends
  BY <1>6, <1>9
<1> QED BY <1>1, <1>8, <1>10, <1>11, <1>12 DEF ends

(* The handles H are those of a launch of c that has got to step k. *)
Holds(H, c, k) ==
  /\ OnlyMoves(H, c)
  /\ HeldIn(H, c, "Call") = HeldAt(k) /\ HeldIn(H, c, "Launch") = PipesAt(k)
  /\ HeldIn(H, c, "Owner") = OwnedAt(k)
  /\ HeldIn(H, c, "Worker") \subseteq Readers
  /\ HeldIn(H, c, "Host") # {} => "Console" \in HeldIn(H, c, "Call") \cup HeldIn(H, c, "Owner")

LEMMA LaunchHolds ==
  ASSUME HandlesInv, preparing # Idle, closing = <<>>, NEW c, c = preparing.child, NEW k,
         k = preparing.step
  PROVE  /\ c \in Children /\ k \in 1..MarksAt /\ preparing.candidate \in 1..MaxCandidates
         /\ Reached(c, k) /\ KeptOf(c) /\ Bound(c) /\ holding[c] = "Launching"
         /\ HeldBy(c, "Call") = HeldAt(k) /\ HeldBy(c, "Launch") = PipesAt(k)
         /\ HeldBy(c, "Owner") = OwnedAt(k)
         /\ handles \in SUBSET AllHandles
         /\ PlacesFit /\ EndsFit
<1>1. c \in Children /\ k \in 1..MarksAt /\ preparing.candidate \in 1..MaxCandidates
      /\ machine \in Machines
      /\ handles \in SUBSET AllHandles
  BY DEF HandlesInv, HandleTypes
<1>2. Reached(c, k) /\ KeptOf(c) /\ Bound(c) /\ \A b : LeftBy(c, b) = HeldBy(c, b)
  BY <1>1, NothingCloses DEF HandlesInv
<1> QED BY <1>1, <1>2, Places, EndsOfALaunch, MachinesAreKnown DEF Reached, KeptOf

LEMMA StepHolds ==
  ASSUME HandlesInv, preparing # Idle, closing = <<>>, NEW c, c = preparing.child, NEW k,
         k = preparing.step
  PROVE  Holds(HandlesAfter(c, LaunchSteps[k]), c, k + 1)
<1> SUFFICES ASSUME NEW opens, opens = LaunchSteps[k].opens, NEW closes, closes = LaunchSteps[k].closes,
                    NEW H, H = HandlesAfter(c, LaunchSteps[k])
             PROVE  Holds(H, c, k + 1)
  OBVIOUS
<1>1. /\ c \in Children /\ k \in 1..MarksAt /\ Bound(c)
      /\ HeldBy(c, "Call") = HeldAt(k) /\ HeldBy(c, "Launch") = PipesAt(k)
      /\ HeldBy(c, "Owner") = OwnedAt(k)
      /\ handles \in SUBSET AllHandles /\ PlacesFit /\ EndsFit
  BY LaunchHolds
<1>2. opens \in SUBSET Ends /\ "Console" \notin closes
      /\ HeldAt(k + 1) = (HeldAt(k) \ Leaving(k)) \cup opens
  BY <1>1, HeldAtNext, PlacesAreOrdered DEF EndsFit
<1>3. Leaving(k) = closes \cup (IF StageOf(k) = "own" THEN OwnedEnds ELSE {})
  BY DEF Leaving
<1>4. OnlyMoves(handles, c) /\ handles \in SUBSET AllHandles
  BY <1>1, NothingMoves
<1>5. /\ StageOf(k) = "mark" <=> k = MarksAt
      /\ StageOf(k) = "resume" <=> k = MarksAt - 1
      /\ StageOf(k) = "capture" <=> k = MarksAt - 2
      /\ StageOf(k) = "own" <=> k = OwnsAt
  BY <1>1 DEF PlacesFit, IsAt
<1>6. CASE StageOf(k) = "capture"
  <2> DEFINE G == GiveReaders(c, Readers)  W == {"OutWriter", "ErrWriter"}
  <2>1. H = G \ Opened(c, "Launch", W)
    BY <1>6 DEF HandlesAfter, StageOf
  <2>2. /\ OnlyMoves(G, c) /\ HeldIn(G, c, "Launch") = PipesAt(k) \ Readers
        /\ HeldIn(G, c, "Owner") = OwnedAt(k) \ Readers
        /\ HeldIn(G, c, "Call") = HeldAt(k) /\ HeldIn(G, c, "Host") = HeldBy(c, "Host")
        /\ HeldIn(G, c, "Worker") \subseteq Readers
    BY <1>1, GivenReaders DEF Bound
  <2>10. G \in SUBSET AllHandles
    BY <2>2 DEF OnlyMoves
  <2> HIDE DEF G, W
  <2>3. HeldIn(H, c, "Launch") = HeldIn(G, c, "Launch") \ W
        /\ \A b : b # "Launch" => HeldIn(H, c, b) = HeldIn(G, c, b)
    BY <2>1, <2>10, OneIsWithout, OnesAreWithout
  <2>4. OnlyMoves(H, c)
    BY <1>1, <2>1, <2>2, WithoutMoves
  <2>5. HeldAt(k) = {} /\ HeldAt(k + 1) = {}
    BY <1>1, <1>5, <1>6, HeldAtLast, PlacesAreOrdered
  <2>6. PipesAt(k) \ Readers \subseteq W /\ PipesAt(k + 1) = {}
    BY <1>5, <1>6, PlacesAreOrdered DEF PipesAt, PipeEnds, Readers, W
  <2>7. OwnedAt(k + 1) = OwnedAt(k) \ Readers
    BY <1>5, <1>6, PlacesAreOrdered DEF OwnedAt
  <2>8. "Console" \in HeldBy(c, "Owner") => "Console" \in HeldIn(H, c, "Owner")
    BY <1>1, <2>2, <2>3 DEF Readers
  <2>9. HeldIn(H, c, "Launch") = {}
    BY <2>2, <2>3, <2>6
  <2>11. \A b \in {"Owner", "Call", "Worker", "Host"} : HeldIn(H, c, b) = HeldIn(G, c, b)
    BY <2>3
  <2>12. /\ HeldIn(H, c, "Call") = HeldAt(k + 1) /\ HeldIn(H, c, "Owner") = OwnedAt(k + 1)
         /\ HeldIn(H, c, "Launch") = PipesAt(k + 1) /\ HeldIn(H, c, "Worker") \subseteq Readers
    BY <2>2, <2>5, <2>6, <2>7, <2>9, <2>11
  <2>13. HeldIn(H, c, "Host") # {} => "Console" \in HeldIn(H, c, "Owner")
    <3>1. HeldIn(H, c, "Host") = HeldBy(c, "Host") /\ HeldBy(c, "Call") = {}
      BY <1>1, <2>2, <2>5, <2>11
    <3> QED BY <1>1, <2>8, <3>1 DEF Bound
  <2> QED BY <2>4, <2>12, <2>13 DEF Holds
<1>7. CASE StageOf(k) = "resume"
  <2>1. H = handles \ Opened(c, "Owner", {"Thread"})
    BY <1>7 DEF HandlesAfter, StageOf
  <2>2. HeldIn(H, c, "Owner") = HeldBy(c, "Owner") \ {"Thread"}
        /\ \A b : b # "Owner" => HeldIn(H, c, b) = HeldBy(c, b)
    BY <1>4, <2>1, OneIsWithout, OnesAreWithout DEF HeldBy
  <2>3. OnlyMoves(H, c)
    BY <1>1, <1>4, <2>1, WithoutMoves
  <2>4. HeldAt(k) = {} /\ HeldAt(k + 1) = {} /\ PipesAt(k) = {} /\ PipesAt(k + 1) = {}
    BY <1>1, <1>5, <1>7, HeldAtLast, PlacesAreOrdered DEF PipesAt
  <2>5. OwnedAt(k + 1) = OwnedAt(k) \ {"Thread"}
    BY <1>5, <1>7, PlacesAreOrdered DEF OwnedAt
  <2> QED BY <1>1, <2>2, <2>3, <2>4, <2>5, ZenonT(60) DEF Holds, Bound
<1>8. CASE StageOf(k) = "own"
  <2> DEFINE given == closes \cup OwnedEnds  owned == OwnedEnds \cap HeldBy(c, "Call")
             rest == handles \ Opened(c, "Call", given)
  <2>1. H = rest \cup Opened(c, "Owner", owned)
    BY <1>8 DEF HandlesAfter, StageOf
  <2>2. owned \in SUBSET Ends /\ OnlyMoves(rest, c)
    BY <1>1, <1>4, WithoutMoves, HeldAreEnds DEF HeldBy
  <2>3. HeldIn(rest, c, "Call") = HeldBy(c, "Call") \ given
        /\ \A b : b # "Call" => HeldIn(rest, c, b) = HeldBy(c, b)
    BY <1>4, OneIsWithout, OnesAreWithout, SMTT(60) DEF HeldBy
  <2> HIDE DEF given, owned, rest
  <2>4. OnlyMoves(H, c)
    BY <1>1, <2>1, <2>2, WithMoves DEF Holders
  <2>5. HeldIn(H, c, "Owner") = HeldIn(rest, c, "Owner") \cup owned
        /\ \A b : b # "Owner" => HeldIn(H, c, b) = HeldIn(rest, c, b)
    BY <2>1, OneIsWith, OnesAreWith
  <2>6. machine \in Machines
    BY DEF HandlesInv, HandleTypes
  <2>7. opens = {} /\ HeldAt(k + 1) = HeldAt(k) \ given /\ k = OwnsAt
    BY <1>2, <1>3, <1>5, <1>8, <2>6, OwningOpensNothing, MachinesAreKnown DEF given
  <2>8. OwnedAt(k) = {} /\ OwnedAt(k + 1) = owned /\ PipesAt(k + 1) = PipesAt(k)
    <3>1. owned = Owned
      BY <1>1, <2>7 DEF EndsFit, owned
    <3>2. k <= OwnsAt /\ ~(k + 1 <= OwnsAt) /\ ~(k + 1 > MarksAt - 2) /\ ~(k + 1 > MarksAt - 1)
          /\ ~(k > MarksAt - 2)
      BY <2>7, PlacesAreOrdered
    <3> QED BY <3>1, <3>2 DEF OwnedAt, PipesAt
  <2>9. /\ HeldIn(H, c, "Call") = HeldAt(k + 1) /\ HeldIn(H, c, "Owner") = OwnedAt(k + 1)
        /\ HeldIn(H, c, "Launch") = PipesAt(k + 1) /\ HeldIn(H, c, "Worker") = HeldBy(c, "Worker")
        /\ HeldIn(H, c, "Host") = HeldBy(c, "Host")
    <3>1. \A b \in {"Owner", "Launch", "Worker", "Host"} : HeldIn(rest, c, b) = HeldBy(c, b)
      BY <2>3
    <3>2. \A b \in {"Call", "Launch", "Worker", "Host"} : HeldIn(H, c, b) = HeldIn(rest, c, b)
      BY <2>5
    <3>3. HeldIn(H, c, "Call") = HeldAt(k) \ given
      BY <1>1, <2>3, <3>2
    <3>4. HeldIn(H, c, "Owner") = OwnedAt(k) \cup owned
      BY <1>1, <2>5, <3>1
    <3>5. \A b \in {"Launch", "Worker", "Host"} : HeldIn(H, c, b) = HeldBy(c, b)
      BY <3>1, <3>2
    <3> QED BY <1>1, <2>7, <2>8, <3>3, <3>4, <3>5
  <2>10. "Console" \in HeldBy(c, "Call") => "Console" \in HeldAt(k + 1) \cup owned
    BY <1>1, <1>2, <2>7 DEF given, owned
  <2>11. HeldBy(c, "Host") # {} => "Console" \in HeldAt(k + 1) \cup owned
    BY <1>1, <2>8, <2>10 DEF Bound
  <2> QED BY <1>1, <2>4, <2>8, <2>9, <2>11 DEF Holds, Bound
<1>9. CASE StageOf(k) = "CreatePseudoConsole"
  <2> DEFINE host == {"InputReader", "OutputWriter"}  held == handles \cup Opened(c, "Call", opens)
  <2>1. H = held \cup Opened(c, "Host", host)
    BY <1>9 DEF HandlesAfter, StageOf
  <2>2. closes = {} /\ "Console" \in opens
    BY <1>1, <1>9 DEF EndsFit
  <2>3. host \in SUBSET Ends
    BY LocalsAll
  <2>4. OnlyMoves(held, c)
    BY <1>1, <1>2, <1>4, WithMoves DEF Holders
  <2>5. HeldIn(held, c, "Call") = HeldBy(c, "Call") \cup opens
        /\ \A b : b # "Call" => HeldIn(held, c, b) = HeldBy(c, b)
    BY OneIsWith, OnesAreWith DEF HeldBy
  <2> HIDE DEF held, host
  <2>6. OnlyMoves(H, c)
    BY <1>1, <2>1, <2>3, <2>4, WithMoves DEF Holders
  <2>7. \A b : b # "Host" => HeldIn(H, c, b) = HeldIn(held, c, b)
    BY <2>1, OneIsWith, OnesAreWith
  <2>8. /\ HeldIn(H, c, "Call") = HeldBy(c, "Call") \cup opens
        /\ \A b \in {"Launch", "Owner", "Worker"} : HeldIn(H, c, b) = HeldBy(c, b)
    BY <2>5, <2>7
  <2>9. HeldAt(k + 1) = HeldAt(k) \cup opens
    BY <1>2, <1>3, <1>9, <2>2
  <2>10. OwnedAt(k + 1) = OwnedAt(k) /\ PipesAt(k + 1) = PipesAt(k)
    <3>1. k # OwnsAt /\ k # MarksAt - 2 /\ k # MarksAt - 1
      BY <1>5, <1>9
    <3>2. /\ k <= OwnsAt <=> k + 1 <= OwnsAt
          /\ k > MarksAt - 2 <=> k + 1 > MarksAt - 2
          /\ k > MarksAt - 1 <=> k + 1 > MarksAt - 1
      BY <1>1, <3>1, PlacesAreOrdered
    <3> QED BY <3>2 DEF OwnedAt, PipesAt
  <2> QED BY <1>1, <2>2, <2>6, <2>8, <2>9, <2>10 DEF Holds, Bound
<1>10. CASE StageOf(k) \notin {"capture", "resume", "own", "CreatePseudoConsole"}
  <2> DEFINE rest == handles \ Opened(c, "Call", closes)
  <2>1. H = rest \cup Opened(c, "Call", opens)
    BY <1>10 DEF HandlesAfter, StageOf
  <2>2. OnlyMoves(rest, c)
    BY <1>1, <1>4, WithoutMoves
  <2>3. HeldIn(rest, c, "Call") = HeldBy(c, "Call") \ closes
        /\ \A b : b # "Call" => HeldIn(rest, c, b) = HeldBy(c, b)
    BY <1>4, OneIsWithout, OnesAreWithout DEF HeldBy
  <2> HIDE DEF rest
  <2>4. OnlyMoves(H, c)
    BY <1>1, <1>2, <2>1, <2>2, WithMoves DEF Holders
  <2>5. HeldIn(H, c, "Call") = HeldIn(rest, c, "Call") \cup opens
        /\ \A b : b # "Call" => HeldIn(H, c, b) = HeldIn(rest, c, b)
    BY <2>1, OneIsWith, OnesAreWith
  <2>6. /\ HeldIn(H, c, "Call") = (HeldBy(c, "Call") \ closes) \cup opens
        /\ \A b \in {"Launch", "Owner", "Worker", "Host"} : HeldIn(H, c, b) = HeldBy(c, b)
    BY <2>3, <2>5
  <2>7. HeldAt(k + 1) = (HeldAt(k) \ closes) \cup opens
    BY <1>2, <1>3, <1>10
  <2>8. OwnedAt(k + 1) = OwnedAt(k) /\ PipesAt(k + 1) = PipesAt(k)
    <3>1. k # OwnsAt /\ k # MarksAt - 2 /\ k # MarksAt - 1
      BY <1>5, <1>10
    <3>2. /\ k <= OwnsAt <=> k + 1 <= OwnsAt
          /\ k > MarksAt - 2 <=> k + 1 > MarksAt - 2
          /\ k > MarksAt - 1 <=> k + 1 > MarksAt - 1
      BY <1>1, <3>1, PlacesAreOrdered
    <3> QED BY <3>2 DEF OwnedAt, PipesAt
  <2> QED BY <1>1, <1>2, <2>4, <2>6, <2>7, <2>8, ZenonT(60) DEF Holds, Bound
<1> QED BY <1>6, <1>7, <1>8, <1>9, <1>10

(* The step succeeds that c has got to. *)
LEMMA StepSucceedsKeeps ==
  ASSUME HandlesInv, StepSucceeds
  PROVE  HandlesInv'
<1> SUFFICES ASSUME NEW c, c = preparing.child, NEW k, k = preparing.step
             PROVE  HandlesInv'
  OBVIOUS
<1>0. preparing # Idle /\ closing = <<>>
  BY DEF StepSucceeds
<1>1. /\ c \in Children /\ k \in 1..MarksAt /\ preparing.candidate \in 1..MaxCandidates
      /\ Reached(c, k) /\ KeptOf(c) /\ Bound(c) /\ holding[c] = "Launching"
      /\ PlacesFit /\ EndsFit
  BY <1>0, LaunchHolds
<1>2. /\ HandleTypes /\ machine \in Machines /\ body \in [Children -> Bodies] /\ target \in Files
      /\ image \in [Children -> [asked : Files, loaded : Files]] /\ inJob \subseteq Children
      /\ holding \in [Children -> Holdings]
      /\ preparing \in [child : Children, step : 1..MarksAt, candidate : 1..MaxCandidates]
  BY <1>0 DEF HandlesInv, HandleTypes
<1>3. /\ machine' = machine /\ closing' = <<>> /\ target' = target
      /\ handles' = HandlesAfter(c, LaunchSteps[k])
      /\ StageOf(k) = "GetCreatedProcessImageFileId" => image[c].loaded = image[c].asked
      /\ StageOf(k) = "resume" => body[c] = "SUSPENDED"
      /\ preparing' = IF StageOf(k) = "mark" THEN Idle ELSE [preparing EXCEPT !.step = @ + 1]
      /\ body' = CASE StageOf(k) \in Creates -> [body EXCEPT ![c] = "SUSPENDED"]
                   [] StageOf(k) = "resume"  -> [body EXCEPT ![c] = "ALIVE"]
                   [] OTHER                -> body
      /\ image' = CASE StageOf(k) = "OpenRequestedExecutable" -> [image EXCEPT ![c].asked = target]
                    [] StageOf(k) \in Creates                 -> [image EXCEPT ![c].loaded = target]
                    [] OTHER                                -> image
      /\ inJob' = IF StageOf(k) = "AssignProcessToJobObject" THEN inJob \cup {c} ELSE inJob
      /\ holding' = IF StageOf(k) = "mark" THEN [holding EXCEPT ![c] = "Running"] ELSE holding
  BY <1>0 DEF StepSucceeds, StageOf
<1>4. /\ StageOf(k) = "mark" <=> k = MarksAt
      /\ StageOf(k) = "resume" <=> k = MarksAt - 1
      /\ StageOf(k) \in Creates <=> k = CreatesAt
      /\ StageOf(k) = "OpenRequestedExecutable" <=> Windows /\ k = 3
      /\ StageOf(k) = "AssignProcessToJobObject" <=> Windows /\ k = OwnsAt + 1
      /\ StageOf(k) = "GetCreatedProcessImageFileId" <=> Windows /\ k = OwnsAt + 4
  BY <1>1 DEF PlacesFit, IsAt
<1>5. Holds(handles', c, k + 1)
  BY <1>0, <1>3, StepHolds
<1>6. Closing' = {} /\ \A b : LeftBy(c, b)' = HeldIn(handles', c, b)
      /\ HeldBy(c, b)' = HeldIn(handles', c, b)
  <2>1. Closing' = {}
    BY <1>3 DEF Closing
  <2>2. Left' = handles'
    BY <2>1 DEF Left
  <2> QED BY <2>1, <2>2 DEF LeftBy, HeldBy
<1>7. Windows' = Windows /\ Terminal' = Terminal
  BY <1>3, SameMachine
<1>8. /\ k = MarksAt /\ preparing' = Idle /\ holding' = [holding EXCEPT ![c] = "Running"]
      \/ /\ k < MarksAt /\ holding' = holding
         /\ preparing' = [child |-> c, step |-> k + 1, candidate |-> preparing.candidate]
  <2>1. CASE k = MarksAt
    BY <1>3, <1>4, <2>1
  <2>2. CASE k # MarksAt
    <3>1. preparing' = [preparing EXCEPT !.step = @ + 1] /\ holding' = holding /\ k < MarksAt
      BY <1>1, <1>3, <1>4, <2>2, PlacesAreOrdered
    <3>2. preparing' = [child |-> c, step |-> k + 1, candidate |-> preparing.candidate]
      BY <1>2, <3>1
    <3> QED BY <3>1, <3>2
  <2> QED BY <2>1, <2>2
<1>9. /\ body' \in [Children -> Bodies]
      /\ k = CreatesAt => body'[c] = "SUSPENDED"
      /\ k = MarksAt - 1 => body'[c] = "ALIVE"
      /\ k # CreatesAt /\ k # MarksAt - 1 => body' = body
      /\ \A d \in Children \ {c} : body'[d] = body[d]
  <2>1. CASE k = CreatesAt
    <3>1. body' = [body EXCEPT ![c] = "SUSPENDED"]
      BY <1>3, <1>4, <2>1, PlacesAreOrdered
    <3> QED BY <1>1, <1>2, <2>1, <3>1, PlacesAreOrdered DEF Bodies
  <2>2. CASE k = MarksAt - 1
    <3>1. body' = [body EXCEPT ![c] = "ALIVE"] /\ k # CreatesAt
      BY <1>3, <1>4, <2>2, PlacesAreOrdered
    <3> QED BY <1>1, <1>2, <2>2, <3>1 DEF Bodies, Running
  <2>3. CASE k # CreatesAt /\ k # MarksAt - 1
    <3>1. body' = body
      BY <1>3, <1>4, <2>3
    <3> QED BY <1>2, <2>3, <3>1
  <2> QED BY <2>1, <2>2, <2>3
<1>10. /\ image' \in [Children -> [asked : Files, loaded : Files]]
       /\ k # 3 /\ k # CreatesAt => image' = image
       /\ \A d \in Children \ {c} : image'[d] = image[d]
  <2>1. CASE StageOf(k) = "OpenRequestedExecutable"
    <3>1. image' = [image EXCEPT ![c].asked = target] /\ k = 3
      BY <1>3, <1>4, <2>1, PlacesAreOrdered, SMTT(60)
    <3> QED BY <1>1, <1>2, <3>1
  <2>2. CASE StageOf(k) # "OpenRequestedExecutable" /\ StageOf(k) \in Creates
    <3>1. image' = [image EXCEPT ![c].loaded = target] /\ k = CreatesAt
      BY <1>3, <1>4, <2>2
    <3> QED BY <1>1, <1>2, <3>1
  <2>3. CASE StageOf(k) # "OpenRequestedExecutable" /\ StageOf(k) \notin Creates
    <3>1. image' = image
      BY <1>3, <2>3
    <3> QED BY <1>2, <3>1
  <2> QED BY <2>1, <2>2, <2>3
<1>11. /\ inJob' \subseteq Children /\ \A d \in Children \ {c} : d \in inJob' <=> d \in inJob
       /\ c \in inJob' <=> c \in inJob \/ (Windows /\ k = OwnsAt + 1)
  BY <1>1, <1>2, <1>3, <1>4
<1>12. HandleTypes'
  <2>1. handles' \subseteq AllHandles
    BY <1>5 DEF Holds, OnlyMoves
  <2>2. holding' \in [Children -> Holdings]
    BY <1>1, <1>2, <1>8 DEF Holdings
  <2>3. preparing' \in [child : Children, step : 1..MarksAt, candidate : 1..MaxCandidates] \cup {Idle}
    <3>1. k < MarksAt => k + 1 \in 1..MarksAt
      BY <1>1, PlacesAreOrdered
    <3> QED BY <1>1, <1>8, <3>1
  <2> QED BY <1>2, <1>3, <1>9, <1>10, <1>11, <2>1, <2>2, <2>3, SameMachine DEF HandleTypes
<1>13. /\ body'[c] = "NONE" <=> k + 1 <= CreatesAt
       /\ body'[c] \in Running => k >= MarksAt - 1
       /\ c \in inJob' <=> Windows /\ k + 1 > OwnsAt + 1
       /\ Windows /\ k + 1 > OwnsAt + 4 => image'[c].loaded = image'[c].asked
  <2>1. /\ body[c] = "NONE" <=> k <= CreatesAt
        /\ body[c] \in Running => k = MarksAt
        /\ c \in inJob <=> Windows /\ k > OwnsAt + 1
        /\ Windows /\ k > OwnsAt + 4 => image[c].loaded = image[c].asked
    BY <1>1 DEF Reached
  <2>2. body'[c] = "NONE" <=> k + 1 <= CreatesAt
    BY <1>1, <1>9, <2>1, PlacesAreOrdered
  <2>3. body'[c] \in Running => k >= MarksAt - 1
    BY <1>1, <1>9, <2>1, PlacesAreOrdered DEF Running
  <2>4. c \in inJob' <=> Windows /\ k + 1 > OwnsAt + 1
    BY <1>1, <1>11, <2>1, PlacesAreOrdered
  <2>5. ASSUME Windows, k + 1 > OwnsAt + 4 PROVE image'[c].loaded = image'[c].asked
    <3>1. k # 3 /\ k # CreatesAt /\ (k = OwnsAt + 4 \/ k > OwnsAt + 4)
      BY <1>1, <2>5, PlacesAreOrdered
    <3>2. image[c].loaded = image[c].asked
      BY <1>3, <1>4, <2>1, <2>5, <3>1
    <3> QED BY <1>10, <3>1, <3>2
  <2> QED BY <2>2, <2>3, <2>4, <2>5
<1>14. KeptOf(c)'
  <2>1. CASE k < MarksAt
    <3>1. holding'[c] = "Launching" /\ preparing'.child = c
      BY <1>1, <1>8, <2>1, PlacesAreOrdered
    <3> QED BY <3>1 DEF KeptOf
  <2>2. CASE k = MarksAt
    <3>1. holding'[c] = "Running" /\ preparing'.child # c
      BY <1>1, <1>2, <1>8, <2>2, ChildrenAreChildren, PlacesAreOrdered DEF Idle
    <3>2. HeldAt(k + 1) = {}
      <4>1. MarksAt \in Nat /\ k \in (MarksAt - 3)..MarksAt /\ k \in 1..MarksAt
        BY <1>1, <2>2, PlacesAreOrdered
      <4>2. LaunchSteps[k].opens = {} /\ LaunchSteps[k].opens \subseteq Ends /\ HeldAt(k) = {}
        BY <1>1, <4>1, HeldAtLast DEF EndsFit
      <4> QED BY <4>1, <4>2, HeldAtNext
    <3>3. LeftBy(c, "Call")' = {} /\ LeftBy(c, "Launch")' = {}
      <4>1. PipesAt(k + 1) = {}
        BY <2>2, PlacesAreOrdered DEF PipesAt
      <4> QED BY <1>5, <1>6, <3>2, <4>1 DEF Holds
    <3>4. LeftBy(c, "Owner")' = Needed(c)'
      <4>1. OwnedAt(k + 1) = Owned \ (Readers \cup {"Thread"})
        BY <2>2, PlacesAreOrdered DEF OwnedAt
      <4>2. Needed(c)' = Owned \ (Readers \cup {"Thread"})
        <5>1. Needed(c)' = IF Windows THEN {"Job", "Process"} \cup (IF Terminal THEN {"Console",
              "InputWriter"} ELSE {})
                           ELSE IF Terminal THEN {"Master"} ELSE {}
          BY <1>7, <3>1 DEF Needed
        <5> QED BY <5>1 DEF Owned, Readers
      <4> QED BY <1>5, <1>6, <4>1, <4>2 DEF Holds
    <3>5. Windows => c \in inJob'
      BY <1>13, <2>2, PlacesAreOrdered
    <3> QED BY <1>7, <3>1, <3>3, <3>4, <3>5 DEF KeptOf
  <2> QED BY <1>1, <2>1, <2>2, PlacesAreOrdered
<1>15. Bound(c)'
  <2>1. ASSUME k >= MarksAt - 1
        PROVE  \A b \in {"Call", "Launch", "Owner"} : HeldBy(c, b)' \cap Readers = {}
    <3>1. HeldAt(k + 1) = {}
      <4>1. MarksAt \in Nat /\ k \in (MarksAt - 3)..MarksAt
        BY <1>1, <2>1, PlacesAreOrdered
      <4>2. LaunchSteps[k].opens = {} /\ LaunchSteps[k].opens \subseteq Ends /\ HeldAt(k) = {}
        BY <1>1, <4>1, HeldAtLast DEF EndsFit
      <4> QED BY <1>1, <4>1, <4>2, HeldAtNext
    <3>2. PipesAt(k + 1) = {} /\ OwnedAt(k + 1) \cap Readers = {}
      <4>1. k + 1 > MarksAt - 2 /\ ~(k + 1 <= OwnsAt)
        BY <1>1, <2>1, PlacesAreOrdered
      <4> QED BY <4>1 DEF PipesAt, OwnedAt
    <3> QED BY <1>5, <1>6, <3>1, <3>2 DEF Holds
  <2>2. HeldBy(c, "Worker")' \subseteq Readers
        /\ (HeldBy(c, "Host")' # {} => "Console" \in HeldBy(c, "Call")' \cup HeldBy(c, "Owner")')
    BY <1>5, <1>6 DEF Holds
  <2>3. ASSUME body'[c] \in Running, Windows'
        PROVE  c \in inJob' /\ image'[c].loaded = image'[c].asked
    <3>1. Windows /\ k + 1 > OwnsAt + 1 /\ k + 1 > OwnsAt + 4
      BY <1>1, <1>7, <1>13, <2>3, PlacesAreOrdered
    <3> QED BY <1>13, <3>1
  <2> QED BY <1>13, <2>1, <2>2, <2>3 DEF Bound
<1>16. ASSUME preparing' # Idle, preparing'.child = c, NEW n, n = preparing'.step PROVE Reached(c, n)'
  <2>1. k < MarksAt /\ n = k + 1
    BY <1>8, <1>16
  <2>2. /\ LeftBy(c, "Call")' = HeldAt(n) /\ LeftBy(c, "Launch")' = PipesAt(n)
        /\ LeftBy(c, "Owner")' = OwnedAt(n)
    BY <1>5, <1>6, <2>1 DEF Holds
  <2>3. body'[c] \in Running => n = MarksAt
    BY <1>1, <1>13, <2>1, PlacesAreOrdered
  <2> QED BY <1>3, <1>7, <1>13, <2>1, <2>2, <2>3, SameMachine DEF Reached
<1>17. MovesOnly(c)
  <2>1. \A h \in AllHandles : h.of # c => (h \in handles' <=> h \in handles)
    BY <1>5 DEF Holds, OnlyMoves
  <2>2. Closing = {}
    BY <1>0, NothingCloses
  <2>3. \A d \in Children \ {c} : holding'[d] = holding[d]
    BY <1>2, <1>8
  <2>4. \A d \in Children \ {c} : d # preparing.child /\ d # preparing'.child
    BY <1>8, ChildrenAreChildren DEF Idle
  <2> QED BY <1>3, <1>6, <1>9, <1>10, <1>11, <2>1, <2>2, <2>3, <2>4 DEF MovesOnly
<1>18. ConsolesLast(handles', closing')
  BY <1>3 DEF ConsolesLast
<1> QED BY <1>1, <1>12, <1>14, <1>15, <1>16, <1>17, <1>18, StepOfOne

------------------------------------------------------------
(* What a step that fails leaves: the handles A, of which the call closes *)
(* Z of its own accord.                                                   *)
Remaining(A, Z, c, k) ==
  /\ OnlyMoves(A, c) /\ Z \subseteq Ends
  /\ HeldIn(A, c, "Call") \subseteq HeldBy(c, "Call") \cup Z
  /\ HeldIn(A, c, "Worker") \subseteq Readers
  /\ HeldIn(A, c, "Host") # {} => "Console" \in HeldIn(A, c, "Call") \cup HeldIn(A, c, "Owner")
  /\ HeldBy(c, "Owner") \ Readers \subseteq HeldIn(A, c, "Owner")
  /\ HeldIn(A, c, "Owner") \subseteq HeldBy(c, "Owner")
  /\ k <= CreatesAt => HeldIn(A, c, "Launch") = HeldBy(c, "Launch")
  /\ k > CreatesAt => Z = {}
  /\ k = MarksAt => A = handles

LEMMA RemainsFit ==
  ASSUME HandlesInv, preparing # Idle, closing = <<>>, NEW c, c = preparing.child, NEW k,
         k = preparing.step,
         NEW r \in Remains(c, LaunchSteps[k])
  PROVE  Remaining(r.opened, r.closed, c, k)
<1>1. /\ c \in Children /\ k \in 1..MarksAt /\ Bound(c) /\ handles \in SUBSET AllHandles
      /\ PlacesFit /\ EndsFit
  BY LaunchHolds
<1>2. StageOf(k) = "capture" <=> k = MarksAt - 2
  BY <1>1 DEF PlacesFit, IsAt
<1>3. StageOf(k) = "openpty" => k = 5
  BY <1>1 DEF PlacesFit, IsAt
<1>4. OnlyMoves(handles, c)
  BY NothingMoves
<1>5. CASE StageOf(k) = "openpty"
  <2>1. PICK left \in SUBSET LaunchSteps[k].opens :
          r = [opened |-> handles \cup Opened(c, "Call", left), closed |-> left]
    BY <1>5 DEF Remains, StageOf, CloseOpenptyDescriptors
  <2> DEFINE A == handles \cup Opened(c, "Call", left)
  <2>2. r.opened = A /\ r.closed = left
    BY <2>1
  <2>3. left \in SUBSET Ends
    BY <1>1 DEF EndsFit
  <2>4. OnlyMoves(A, c)
    BY <1>1, <1>4, <2>3, WithMoves DEF Holders
  <2>5. HeldIn(A, c, "Call") = HeldBy(c, "Call") \cup left
        /\ \A b : b # "Call" => HeldIn(A, c, b) = HeldBy(c, b)
    BY OneIsWith, OnesAreWith DEF HeldBy
  <2> HIDE DEF A
  <2>6. \A b \in {"Launch", "Owner", "Worker", "Host"} : HeldIn(A, c, b) = HeldBy(c, b)
    BY <2>5
  <2>7. ~(k > CreatesAt) /\ k # MarksAt
    BY <1>3, <1>5, PlacesAreOrdered
  <2> QED BY <1>1, <2>2, <2>3, <2>4, <2>5, <2>6, <2>7 DEF Remaining, Bound
<1>6. CASE StageOf(k) = "capture"
  <2> DEFINE W == {"OutWriter", "ErrWriter"}
  <2>1. PICK given \in {{}, {"OutReader", "OutputMaster", "OutputReader"}} :
          r = [opened |-> GiveReaders(c, given) \ Opened(c, "Launch", W), closed |-> {}]
    BY <1>6 DEF Remains, StageOf
  <2> DEFINE G == GiveReaders(c, given)  A == G \ Opened(c, "Launch", W)
  <2>2. r.opened = A /\ r.closed = {}
    BY <2>1
  <2>3. given \in SUBSET Readers
    BY DEF Readers
  <2>4. /\ OnlyMoves(G, c) /\ HeldIn(G, c, "Launch") = HeldBy(c, "Launch") \ Readers
        /\ HeldIn(G, c, "Owner") = HeldBy(c, "Owner") \ Readers
        /\ HeldIn(G, c, "Call") = HeldBy(c, "Call") /\ HeldIn(G, c, "Host") = HeldBy(c, "Host")
        /\ HeldIn(G, c, "Worker") \subseteq Readers
    BY <1>1, <2>3, GivenReaders DEF Bound
  <2>5. G \in SUBSET AllHandles
    BY <2>4 DEF OnlyMoves
  <2> HIDE DEF G, W
  <2>6. \A b : b # "Launch" => HeldIn(A, c, b) = HeldIn(G, c, b)
    BY <2>5, OnesAreWithout
  <2>7. OnlyMoves(A, c)
    BY <1>1, <2>4, WithoutMoves
  <2> HIDE DEF A
  <2>8. \A b \in {"Call", "Owner", "Worker", "Host"} : HeldIn(A, c, b) = HeldIn(G, c, b)
    BY <2>6
  <2>9. k > CreatesAt /\ ~(k <= CreatesAt) /\ k # MarksAt
    BY <1>2, <1>6, PlacesAreOrdered
  <2>10. HeldIn(A, c, "Host") # {} => "Console" \in HeldIn(A, c, "Call") \cup HeldIn(A, c, "Owner")
    <3>1. HeldBy(c, "Host") # {} => "Console" \in HeldBy(c, "Call") \cup HeldBy(c, "Owner")
      BY <1>1 DEF Bound
    <3>2. "Console" \notin Readers
      BY DEF Readers
    <3> QED BY <2>4, <2>8, <3>1, <3>2
  <2> QED BY <2>2, <2>4, <2>7, <2>8, <2>9, <2>10 DEF Remaining
<1>7. CASE StageOf(k) \notin {"openpty", "capture"}
  <2>1. r.opened = handles /\ r.closed = {}
    BY <1>7 DEF Remains, StageOf
  <2>2. \A b : HeldIn(handles, c, b) = HeldBy(c, b)
    BY DEF HeldBy
  <2> QED BY <1>1, <1>4, <2>1, <2>2 DEF Remaining, Bound
<1> QED BY <1>5, <1>6, <1>7

LEMMA NoneIsLeft ==
  ASSUME NEW A \in SUBSET AllHandles, NEW S, NEW c, NEW by, NEW E,
         HeldIn(A, c, by) \subseteq E, Opened(c, by, E) \subseteq S
  PROVE  HeldIn(A \ S, c, by) = {}
<1> SUFFICES ASSUME NEW h \in A \ S, h.of = c, h.by = by PROVE FALSE
  BY DEF HeldIn
<1>1. h = [of |-> c, by |-> by, end |-> h.end]
  BY DEF AllHandles
<1>2. h.end \in E
  BY DEF HeldIn
<1> QED BY <1>1, <1>2 DEF Opened

(* The launch of c is over: its handles S are going to be dropped, and its *)
(* owner has its own or keeps the job and the process of it.               *)
LaunchOver(c, k, A, Z, S, after) ==
  /\ Unwinds(closing', A, S) /\ \A h \in S : h.of = c
  /\ Opened(c, "Call", HeldBy(c, "Call") \cup Z) \subseteq S
  /\ Opened(c, "Launch", HeldIn(A, c, "Launch")) \subseteq S
  /\ handles' = A /\ preparing' = Idle /\ holding' = [holding EXCEPT ![c] = after]
  /\ UNCHANGED <<machine, image, inJob, target>>
  /\ body' = body \/ body' = [body EXCEPT ![c] = "GONE"]
  /\ \/ /\ after = "Ended" /\ body'[c] \in {"NONE", "GONE"}
        /\ Opened(c, "Owner", HeldIn(A, c, "Owner")) \subseteq S
     \/ /\ after = "Pending"
        /\ Windows => k > OwnsAt /\ \A h \in S : h.by # "Owner"

LEMMA FailureKeeps ==
  ASSUME HandlesInv, preparing # Idle, closing = <<>>, NEW c, c = preparing.child, NEW k,
         k = preparing.step,
         NEW A, NEW Z, NEW S, NEW after, Remaining(A, Z, c, k), LaunchOver(c, k, A, Z, S, after)
  PROVE  HandlesInv'
<1>0. /\ Unwinds(closing', A, S) /\ \A h \in S : h.of = c
      /\ Opened(c, "Call", HeldBy(c, "Call") \cup Z) \subseteq S
      /\ Opened(c, "Launch", HeldIn(A, c, "Launch")) \subseteq S
      /\ handles' = A /\ preparing' = Idle /\ holding' = [holding EXCEPT ![c] = after]
      /\ UNCHANGED <<machine, image, inJob, target>>
      /\ body' = body \/ body' = [body EXCEPT ![c] = "GONE"]
      /\ after \in {"Ended", "Pending"}
      /\ after = "Ended" => /\ body'[c] \in {"NONE", "GONE"}
                            /\ Opened(c, "Owner", HeldIn(A, c, "Owner")) \subseteq S
      /\ after = "Pending" /\ Windows => k > OwnsAt /\ \A h \in S : h.by # "Owner"
  BY DEF LaunchOver
<1>1. /\ c \in Children /\ k \in 1..MarksAt /\ Reached(c, k) /\ KeptOf(c) /\ Bound(c)
      /\ holding[c] = "Launching" /\ HeldBy(c, "Owner") = OwnedAt(k)
  BY <1>0, LaunchHolds
<1>2. HandleTypes /\ A \in SUBSET AllHandles /\ OnlyMoves(A, c)
  BY <1>0 DEF HandlesInv, Remaining, OnlyMoves
<1>3. /\ closing' \in Seq(AllHandles) /\ ConsolesLast(handles', closing')
      /\ Closing' = S /\ Left' = A \ S
  BY <1>0, Unwound
<1>4. \A b : HeldBy(c, b)' = HeldIn(A, c, b) /\ LeftBy(c, b)' = HeldIn(A \ S, c, b)
  BY <1>0, <1>3 DEF HeldBy, LeftBy
<1>5. Windows' = Windows
  BY <1>0, SameMachine
<1>6. holding'[c] = after /\ preparing'.child # c /\ holding' \in [Children -> Holdings]
  BY <1>0, <1>1, <1>2, ChildrenAreChildren DEF HandleTypes, Holdings, Idle
<1>7. HandleTypes'
  BY <1>0, <1>2, <1>3, <1>6, SameMachine DEF HandleTypes, Bodies
<1>8. KeptOf(c)'
  <2>1. LeftBy(c, "Call")' = {} /\ LeftBy(c, "Launch")' = {}
    <3>1. HeldIn(A, c, "Call") \subseteq HeldBy(c, "Call") \cup Z
      BY <1>0 DEF Remaining
    <3>2. HeldIn(A \ S, c, "Call") = {}
      BY <1>0, <1>2, <3>1, NoneIsLeft
    <3>3. HeldIn(A, c, "Launch") \subseteq HeldIn(A, c, "Launch")
      OBVIOUS
    <3>4. HeldIn(A \ S, c, "Launch") = {}
      BY <1>0, <1>2, <3>3, NoneIsLeft
    <3> QED BY <1>0, <1>4, <3>2, <3>4
  <2>2. after = "Ended" => LeftBy(c, "Owner")' = {}
    <3>1. HeldIn(A, c, "Owner") \subseteq HeldIn(A, c, "Owner")
      OBVIOUS
    <3>2. after = "Ended" => HeldIn(A \ S, c, "Owner") = {}
      BY <1>0, <1>2, <3>1, NoneIsLeft
    <3> QED BY <1>0, <1>4, <3>2
  <2>3. ASSUME after = "Pending", Windows PROVE {"Job", "Process"} \subseteq LeftBy(c, "Owner")'
    <3>1. LeftBy(c, "Owner")' = HeldIn(A, c, "Owner")
      <4>1. \A h \in S : h.by # "Owner"
        BY <1>0, <2>3
      <4>2. HeldIn(A \ S, c, "Owner") = HeldIn(A, c, "Owner")
        BY <1>0, <4>1 DEF HeldIn
      <4> QED BY <1>0, <1>4, <4>2
    <3>2. {"Job", "Process"} \subseteq OwnedAt(k) \ Readers
      BY <1>0, <1>1, <2>3, PlacesAreOrdered DEF OwnedAt, Owned, Readers
    <3> QED BY <1>0, <1>1, <3>1, <3>2 DEF Remaining
  <2> QED BY <1>0, <1>5, <1>6, <2>1, <2>2, <2>3 DEF KeptOf
<1>9. Bound(c)'
  <2>1. /\ HeldBy(c, "Worker")' \subseteq Readers
        /\ HeldBy(c, "Host")' # {} => "Console" \in HeldBy(c, "Call")' \cup HeldBy(c, "Owner")'
    BY <1>0, <1>4 DEF Remaining
  <2>2. ASSUME body'[c] \in Running
        PROVE  /\ Windows' => c \in inJob' /\ image'[c].loaded = image'[c].asked
               /\ \A b \in {"Call", "Launch", "Owner"} : HeldBy(c, b)' \cap Readers = {}
    <3>1. body[c] \in Running /\ k = MarksAt
      BY <1>0, <1>1, <1>2, <2>2 DEF Reached, Running, HandleTypes
    <3>2. A = handles
      BY <1>0, <3>1 DEF Remaining
    <3>3. \A b : HeldBy(c, b)' = HeldBy(c, b)
      BY <1>0, <1>4, <3>2 DEF HeldBy
    <3> QED BY <1>0, <1>1, <1>5, <3>1, <3>3 DEF Bound
  <2> QED BY <1>0, <2>1, <2>2 DEF Bound
<1>10. MovesOnly(c)
  <2>1. Closing = {} /\ \A h \in Closing' : h.of = c
    BY <1>0, <1>3, NothingCloses
  <2>2. \A h \in AllHandles : h.of # c => (h \in handles' <=> h \in handles)
    BY <1>0, <1>2 DEF OnlyMoves
  <2>3. \A d \in Children \ {c} : holding'[d] = holding[d] /\ body'[d] = body[d]
    BY <1>0, <1>2 DEF HandleTypes
  <2>4. \A d \in Children \ {c} : d # preparing.child /\ d # preparing'.child
    BY <1>0, ChildrenAreChildren DEF Idle
  <2> QED BY <1>0, <2>1, <2>2, <2>3, <2>4 DEF MovesOnly
<1> QED BY <1>0, <1>1, <1>3, <1>7, <1>8, <1>9, <1>10, StepOfOne

(* The launch of c tries the next candidate. *)
LEMMA NextCandidateKeeps ==
  ASSUME HandlesInv, preparing # Idle, closing = <<>>, NEW c, c = preparing.child, NEW k,
         k = preparing.step,
         NEW A, NEW Z, Remaining(A, Z, c, k), body[c] = "NONE",
         closing' = DropCall(c, HeldBy(c, "Call") \cup Z),
         handles' = A, preparing.candidate < MaxCandidates,
         preparing' = [preparing EXCEPT !.step = 1, !.candidate = @ + 1],
         UNCHANGED <<machine, image, inJob, target, holding, body>>
  PROVE  HandlesInv'
<1> DEFINE E == HeldBy(c, "Call") \cup Z  S == Opened(c, "Call", E)
<1>1. /\ c \in Children /\ k \in 1..MarksAt /\ Reached(c, k) /\ KeptOf(c) /\ Bound(c)
      /\ holding[c] = "Launching" /\ HeldBy(c, "Owner") = OwnedAt(k) /\ HeldBy(c, "Launch") = PipesAt(k)
      /\ preparing.candidate \in 1..MaxCandidates /\ handles \in SUBSET AllHandles
  BY LaunchHolds
<1>2. HandleTypes /\ A \in SUBSET AllHandles /\ OnlyMoves(A, c)
  BY DEF HandlesInv, Remaining, OnlyMoves
<1>3. preparing' = [child |-> c, step |-> 1, candidate |-> preparing.candidate + 1]
  <2>1. preparing \in [child : Children, step : 1..MarksAt, candidate : 1..MaxCandidates]
    BY <1>2 DEF HandleTypes
  <2> QED BY <2>1
<1>4. k <= CreatesAt /\ c \notin inJob
  BY <1>1, PlacesAreOrdered DEF Reached
<1>5. E \in SUBSET Ends /\ HeldIn(A, c, "Call") \subseteq E
  BY <1>1, HeldAreEnds DEF Remaining, HeldBy
<1> HIDE DEF E
<1>6. Unwinds(closing', A, S)
  <2>1. closing' = Dropped(c, "Call", E)
    BY DEF DropCall, E
  <2> QED BY <1>1, <1>2, <1>5, <2>1, DroppedUnwinds DEF Holders
<1> HIDE DEF S
<1>7. /\ closing' \in Seq(AllHandles) /\ ConsolesLast(handles', closing')
      /\ Closing' = S /\ Left' = A \ S
  BY <1>6, Unwound
<1>8. \A b : HeldBy(c, b)' = HeldIn(A, c, b) /\ LeftBy(c, b)' = HeldIn(A \ S, c, b)
  BY <1>7 DEF HeldBy, LeftBy
<1>9. \A h \in S : h.of = c /\ h.by = "Call"
  BY DEF S, Opened
<1>10. LeftBy(c, "Call")' = {} /\ LeftBy(c, "Launch")' = PipesAt(k) /\ LeftBy(c, "Owner")' = {}
  <2>1. LeftBy(c, "Call")' = {}
    <3>1. HeldIn(A \ Opened(c, "Call", E), c, "Call") = {}
      <4>1. Opened(c, "Call", E) \subseteq Opened(c, "Call", E)
        OBVIOUS
      <4> QED BY <1>2, <1>5, <4>1, NoneIsLeft
    <3> QED BY <1>8, <3>1 DEF S
  <2>2. LeftBy(c, "Launch")' = HeldIn(A, c, "Launch") /\ LeftBy(c, "Owner")' = HeldIn(A, c, "Owner")
    <3>1. \A h \in S : h.by # "Launch" /\ h.by # "Owner"
      BY <1>9
    <3>2. HeldIn(A \ S, c, "Launch") = HeldIn(A, c, "Launch")
      BY <3>1 DEF HeldIn
    <3>3. HeldIn(A \ S, c, "Owner") = HeldIn(A, c, "Owner")
      BY <3>1 DEF HeldIn
    <3> QED BY <1>8, <3>2, <3>3
  <2>3. OwnedAt(k) = {}
    BY <1>1, <1>4, PlacesAreOrdered DEF OwnedAt
  <2> QED BY <1>1, <1>4, <2>1, <2>2, <2>3 DEF Remaining
<1>11. HandleTypes'
  <2>1. preparing' \in [child : Children, step : 1..MarksAt, candidate : 1..MaxCandidates]
    <3>1. 1 \in 1..MarksAt /\ preparing.candidate + 1 \in 1..MaxCandidates
      BY <1>1, PlacesAreOrdered, CandidatesExist
    <3> QED BY <1>1, <1>3, <3>1
  <2> QED BY <1>2, <1>7, <2>1, SameMachine DEF HandleTypes
<1>12. KeptOf(c)'
  BY <1>1, <1>3 DEF KeptOf
<1>13. Bound(c)'
  BY <1>8 DEF Bound, Remaining, Running
<1>14. Reached(c, 1)'
  <2>1. HeldAt(1)' = {} /\ OwnedAt(1)' = {} /\ PipesAt(1)' = PipesAt(k)
    <3>1. OwnedAt(1) = {} /\ PipesAt(1) = PipesAt(k)
      BY <1>1, <1>4, PlacesAreOrdered DEF OwnedAt, PipesAt
    <3> QED BY <3>1, SameMachine, HeldAtFirst
  <2>2. 1 <= CreatesAt' /\ ~(1 > OwnsAt' + 1) /\ ~(1 > OwnsAt' + 4)
    BY SameMachine, PlacesAreOrdered
  <2> QED BY <1>4, <1>10, <2>1, <2>2 DEF Reached, Running
<1>15. MovesOnly(c)
  <2>1. Closing = {} /\ \A h \in Closing' : h.of = c
    BY <1>7, <1>9, NothingCloses
  <2>2. \A h \in AllHandles : h.of # c => (h \in handles' <=> h \in handles)
    BY <1>2 DEF OnlyMoves
  <2> QED BY <1>3, <2>1, <2>2 DEF MovesOnly
<1> QED BY <1>1, <1>3, <1>7, <1>11, <1>12, <1>13, <1>14, <1>15, StepOfOne

LEMMA HolderUnwinds ==
  ASSUME NEW A \in SUBSET AllHandles, NEW c \in Children, NEW by \in Holders
  PROVE  Unwinds(Dropped(c, by, HeldIn(A, c, by)), A, Opened(c, by, HeldIn(A, c, by)))
<1>1. HeldIn(A, c, by) \in SUBSET Ends /\ HeldIn(A, c, by) \subseteq HeldIn(A, c, by)
  BY HeldAreEnds
<1> QED BY <1>1, DroppedUnwinds

LEMMA OpenedAreOf ==
  ASSUME NEW c, NEW by, NEW E
  PROVE  \A h \in Opened(c, by, E) : h.of = c /\ h.by = by
BY DEF Opened

LEMMA FailBeforeChildKeeps ==
  ASSUME HandlesInv, preparing # Idle, closing = <<>>, NEW c, c = preparing.child, NEW k,
         k = preparing.step,
         FailBeforeChild(c, LaunchSteps[k]), UNCHANGED <<machine, image, inJob, target>>
  PROVE  HandlesInv'
<1>1. body[c] = "NONE" /\ body' = body
  BY DEF FailBeforeChild
<1>2. PICK r \in Remains(c, LaunchSteps[k]) :
        /\ handles' = r.opened
        /\ \/ /\ preparing.candidate < MaxCandidates
              /\ closing' = DropCall(c, HeldBy(c, "Call") \cup r.closed)
              /\ preparing' = [preparing EXCEPT !.step = 1, !.candidate = @ + 1]
              /\ holding' = holding
           \/ /\ closing' = DropCall(c, HeldBy(c, "Call") \cup r.closed) \o DropLaunch(r.opened, c)
              /\ preparing' = Idle
              /\ holding' = [holding EXCEPT ![c] = "Ended"]
  BY DEF FailBeforeChild
<1> SUFFICES ASSUME NEW A, A = r.opened, NEW Z, Z = r.closed PROVE HandlesInv'
  OBVIOUS
<1>3. Remaining(A, Z, c, k)
  BY RemainsFit
<1>4. /\ c \in Children /\ k \in 1..MarksAt /\ Reached(c, k) /\ HeldBy(c, "Owner") = OwnedAt(k)
      /\ handles \in SUBSET AllHandles
  BY LaunchHolds
<1>5. CASE /\ preparing.candidate < MaxCandidates
           /\ closing' = DropCall(c, HeldBy(c, "Call") \cup Z)
           /\ preparing' = [preparing EXCEPT !.step = 1, !.candidate = @ + 1]
           /\ holding' = holding
  BY <1>1, <1>2, <1>3, <1>5, NextCandidateKeeps
<1>6. CASE /\ closing' = DropCall(c, HeldBy(c, "Call") \cup Z) \o DropLaunch(A, c)
           /\ preparing' = Idle
           /\ holding' = [holding EXCEPT ![c] = "Ended"]
  <2> DEFINE E == HeldBy(c, "Call") \cup Z   L == HeldIn(A, c, "Launch")
             S == Opened(c, "Call", E)   T == Opened(c, "Launch", L)
  <2>1. A \in SUBSET AllHandles /\ E \in SUBSET Ends /\ HeldIn(A, c, "Call") \subseteq E
    BY <1>3, <1>4, HeldAreEnds DEF Remaining, OnlyMoves, HeldBy
  <2>2. Unwinds(DropCall(c, E), A, S)
    BY <1>4, <2>1, DroppedUnwinds DEF DropCall, Holders
  <2>3. Unwinds(DropLaunch(A, c), A, T)
    BY <1>4, <2>1, HolderUnwinds DEF DropLaunch, Holders
  <2>4. Unwinds(closing', A, S \cup T)
    BY <1>6, <2>2, <2>3, JoinedUnwinds
  <2>5. \A h \in S \cup T : h.of = c
    BY OpenedAreOf
  <2>6. Opened(c, "Owner", HeldIn(A, c, "Owner")) \subseteq S \cup T
    <3>1. k <= CreatesAt
      BY <1>1, <1>4 DEF Reached
    <3>2. OwnedAt(k) = {}
      BY <1>4, <3>1, PlacesAreOrdered DEF OwnedAt
    <3>3. HeldIn(A, c, "Owner") = {}
      BY <1>3, <1>4, <3>2 DEF Remaining
    <3> QED BY <3>3 DEF Opened
  <2>7. S \subseteq S \cup T /\ T \subseteq S \cup T
    OBVIOUS
  <2> HIDE DEF S, T
  <2> DEFINE U == S \cup T
  <2>8. /\ Unwinds(closing', A, U) /\ \A h \in U : h.of = c
        /\ Opened(c, "Owner", HeldIn(A, c, "Owner")) \subseteq U
        /\ Opened(c, "Call", HeldBy(c, "Call") \cup Z) \subseteq U
        /\ Opened(c, "Launch", HeldIn(A, c, "Launch")) \subseteq U
    BY <2>4, <2>5, <2>6, <2>7 DEF S, T
  <2> HIDE DEF U
  <2>9. LaunchOver(c, k, A, Z, U, "Ended")
    BY <1>1, <1>2, <1>6, <2>8 DEF LaunchOver
  <2> QED BY <1>3, <2>9, FailureKeeps
<1> QED BY <1>2, <1>5, <1>6

LEMMA FailWithChildKeeps ==
  ASSUME HandlesInv, preparing # Idle, closing = <<>>, NEW c, c = preparing.child, NEW k,
         k = preparing.step,
         LaunchSteps[k].stage \notin Infallible,
         FailWithChild(c, LaunchSteps[k]), UNCHANGED <<machine, image, inJob, target>>
  PROVE  HandlesInv'
<1>1. body[c] # "NONE" /\ preparing' = Idle
  BY DEF FailWithChild
<1>2. PICK r \in Remains(c, LaunchSteps[k]) :
        /\ handles' = r.opened
        /\ \/ /\ body' = [body EXCEPT ![c] = "GONE"]
              /\ closing' = DropCall(c, HeldBy(c, "Call")) \o DropOwner(r.opened,
                 c) \o DropLaunch(r.opened, c)
              /\ holding' = [holding EXCEPT ![c] = "Ended"]
           \/ /\ body' \in {body, [body EXCEPT ![c] = "GONE"]}
              /\ closing' = DropCall(c, HeldBy(c, "Call")) \o DropTerminal(r.opened,
                 c) \o DropLaunch(r.opened, c)
              /\ holding' = [holding EXCEPT ![c] = "Pending"]
  BY DEF FailWithChild
<1> SUFFICES ASSUME NEW A, A = r.opened, NEW Z, Z = r.closed PROVE HandlesInv'
  OBVIOUS
<1>3. Remaining(A, Z, c, k)
  BY RemainsFit
<1>4. /\ c \in Children /\ k \in 1..MarksAt /\ Reached(c, k) /\ HeldBy(c, "Owner") = OwnedAt(k)
      /\ handles \in SUBSET AllHandles /\ PlacesFit
  BY LaunchHolds
<1>5. HandleTypes
  BY DEF HandlesInv
<1>6. k > CreatesAt /\ k # OwnsAt
  <2>1. ~(k <= CreatesAt)
    BY <1>1, <1>4 DEF Reached
  <2>2. StageOf(k) # "own"
    BY DEF StageOf, Infallible
  <2> QED BY <1>4, <2>1, <2>2, PlacesAreOrdered DEF PlacesFit, IsAt
<1> DEFINE E == HeldBy(c, "Call")  L == HeldIn(A, c, "Launch")  O == HeldIn(A, c, "Owner")
           S == Opened(c, "Call", E)   T == Opened(c, "Launch", L)  P == Opened(c, "Owner", O)
<1>7. Z = {} /\ A \in SUBSET AllHandles /\ E \in SUBSET Ends /\ HeldIn(A, c, "Call") \subseteq E
  BY <1>3, <1>4, <1>6, HeldAreEnds DEF Remaining, OnlyMoves, HeldBy
<1>8. Unwinds(DropCall(c, E), A, S)
  BY <1>4, <1>7, DroppedUnwinds DEF DropCall, Holders
<1>9. Unwinds(DropLaunch(A, c), A, T)
  BY <1>4, <1>7, HolderUnwinds DEF DropLaunch, Holders
<1>10. Unwinds(DropOwner(A, c), A, P)
  BY <1>4, <1>7, HolderUnwinds DEF DropOwner, Holders
<1>11. (\A h \in S : h.of = c /\ h.by = "Call") /\ (\A h \in T : h.of = c /\ h.by = "Launch")
       /\ \A h \in P : h.of = c
  BY OpenedAreOf
<1>12. Opened(c, "Call", HeldBy(c, "Call") \cup Z) = S
  BY <1>7
<1> HIDE DEF E, S, T, P
<1>13. CASE /\ body' = [body EXCEPT ![c] = "GONE"]
            /\ closing' = DropCall(c, E) \o DropOwner(A, c) \o DropLaunch(A, c)
            /\ holding' = [holding EXCEPT ![c] = "Ended"]
  <2> DEFINE U == (S \cup P) \cup T
  <2>1. Unwinds(DropCall(c, E) \o DropOwner(A, c), A, S \cup P)
    BY <1>8, <1>10, JoinedUnwinds
  <2>2. Unwinds(closing', A, U)
    BY <1>9, <1>13, <2>1, JoinedUnwinds
  <2>3. /\ \A h \in U : h.of = c
        /\ S \subseteq U /\ T \subseteq U /\ P \subseteq U
    BY <1>11
  <2>4. body'[c] = "GONE"
    BY <1>4, <1>5, <1>13 DEF HandleTypes
  <2> HIDE DEF U
  <2>5. /\ Opened(c, "Call", HeldBy(c, "Call") \cup Z) \subseteq U
        /\ Opened(c, "Launch", HeldIn(A, c, "Launch")) \subseteq U
        /\ Opened(c, "Owner", HeldIn(A, c, "Owner")) \subseteq U
    BY <1>12, <2>3 DEF T, P
  <2>6. LaunchOver(c, k, A, Z, U, "Ended")
    BY <1>1, <1>2, <1>13, <2>2, <2>3, <2>4, <2>5 DEF LaunchOver
  <2> QED BY <1>3, <2>6, FailureKeeps
<1>14. CASE /\ body' \in {body, [body EXCEPT ![c] = "GONE"]}
            /\ closing' = DropCall(c, E) \o DropTerminal(A, c) \o DropLaunch(A, c)
            /\ holding' = [holding EXCEPT ![c] = "Pending"]
  <2>1. PICK Q : Unwinds(DropTerminal(A, c), A, Q) /\ (\A h \in Q : h.of = c) /\ (Windows => Q = {})
    <3>1. CASE Windows
      <4>1. Unwinds(DropTerminal(A, c), A, {})
        BY <3>1, NothingUnwinds DEF DropTerminal
      <4> QED BY <4>1
    <3>2. CASE ~Windows
      <4>1. Unwinds(DropTerminal(A, c), A, P)
        BY <1>10, <3>2 DEF DropTerminal
      <4> QED BY <1>11, <3>2, <4>1
    <3> QED BY <3>1, <3>2
  <2> DEFINE U == (S \cup Q) \cup T
  <2>2. Unwinds(DropCall(c, E) \o DropTerminal(A, c), A, S \cup Q)
    BY <1>8, <2>1, JoinedUnwinds
  <2>3. Unwinds(closing', A, U)
    BY <1>9, <1>14, <2>2, JoinedUnwinds
  <2>4. /\ \A h \in U : h.of = c
        /\ S \subseteq U /\ T \subseteq U
    BY <1>11, <2>1
  <2>5. Windows => k > OwnsAt /\ \A h \in U : h.by # "Owner"
    <3>1. Windows => k > OwnsAt
      BY <1>4, <1>6, PlacesAreOrdered
    <3>2. Windows => \A h \in U : h.by # "Owner"
      BY <1>11, <2>1
    <3> QED BY <3>1, <3>2
  <2> HIDE DEF U
  <2>6. /\ Opened(c, "Call", HeldBy(c, "Call") \cup Z) \subseteq U
        /\ Opened(c, "Launch", HeldIn(A, c, "Launch")) \subseteq U
    BY <1>12, <2>4 DEF T
  <2>7. LaunchOver(c, k, A, Z, U, "Pending")
    BY <1>1, <1>2, <1>14, <2>3, <2>4, <2>5, <2>6 DEF LaunchOver
  <2> QED BY <1>3, <2>7, FailureKeeps
<1> QED BY <1>2, <1>13, <1>14 DEF E

LEMMA StepFailsKeeps ==
  ASSUME HandlesInv, StepFails
  PROVE  HandlesInv'
<1> SUFFICES ASSUME NEW c, c = preparing.child, NEW k, k = preparing.step
             PROVE  HandlesInv'
  OBVIOUS
<1>1. /\ preparing # Idle /\ closing = <<>> /\ LaunchSteps[k].stage \notin Infallible
      /\ FailBeforeChild(c, LaunchSteps[k]) \/ FailWithChild(c, LaunchSteps[k])
      /\ UNCHANGED <<machine, image, inJob, target>>
  BY DEF StepFails
<1> QED BY <1>1, FailBeforeChildKeeps, FailWithChildKeeps

LEMMA HandlesBegin == HandlesInit => HandlesInv
<1> SUFFICES ASSUME HandlesInit PROVE HandlesInv
  OBVIOUS
<1> USE DEF HandlesInit
<1>1. HandleTypes
  BY DEF HandleTypes, Bodies, Running, Holdings, Files
<1>2. \A c \in Children : c # preparing.child
  BY ChildrenAreChildren DEF Idle
<1>3. \A c, b : HeldBy(c, b) = {} /\ LeftBy(c, b) = {}
  BY DEF HeldBy, HeldIn, LeftBy, Left
<1>4. \A c \in Children : KeptOf(c)
  BY <1>2, <1>3 DEF KeptOf
<1>5. \A c \in Children : Bound(c)
  BY <1>3 DEF Bound, Running
<1>6. ConsolesLast(handles, closing)
  BY DEF ConsolesLast
<1> QED BY <1>1, <1>4, <1>5, <1>6 DEF HandlesInv

LEMMA HandlesKeep == HandlesInv /\ [HandlesNext]_handleVars => HandlesInv'
<1> SUFFICES ASSUME HandlesInv, [HandlesNext]_handleVars PROVE HandlesInv'
  OBVIOUS
<1>1. ASSUME NEW c \in Children, OpenPipes(c) PROVE HandlesInv'
  BY <1>1, OpenPipesKeeps
<1>2. ASSUME NEW c \in Children, PipesFail(c) PROVE HandlesInv'
  BY <1>2, PipesFailKeeps
<1>3. CASE StepSucceeds
  BY <1>3, StepSucceedsKeeps
<1>4. CASE StepFails
  BY <1>4, StepFailsKeeps
<1>5. CASE CloseNext
  BY <1>5, CloseNextKeeps
<1>6. CASE Retarget
  BY <1>6, RetargetKeeps
<1>7. ASSUME NEW c \in Children, SendGraceful(c) PROVE HandlesInv'
  BY <1>7, SendGracefulKeeps
<1>8. ASSUME NEW c \in Children, SendForce(c) PROVE HandlesInv'
  BY <1>8, SendForceKeeps
<1>9. ASSUME NEW c \in Children, PollExit(c) PROVE HandlesInv'
  BY <1>9, PollExitKeeps
<1>10. ASSUME NEW c \in Children, RetryChildCleanup(c) PROVE HandlesInv'
  BY <1>10, RetryChildCleanupKeeps
<1>11. ASSUME NEW c \in Children, DropControl(c) PROVE HandlesInv'
  BY <1>11, DropControlKeeps
<1>12. ASSUME NEW c \in Children, BodyMoves(c) PROVE HandlesInv'
  BY <1>12, BodyMovesKeeps
<1>13. ASSUME NEW c \in Children, NEW end \in Readers, EndOfFile(c, end) PROVE HandlesInv'
  BY <1>13, EndOfFileKeeps
<1>14. CASE UNCHANGED handleVars
  <2>1. UNCHANGED <<machine, handles, preparing, closing, body, image, inJob, holding, target>>
    BY <1>14 DEF handleVars
  <2>2. \A c, b : HeldBy(c, b)' = HeldBy(c, b) /\ LeftBy(c, b)' = LeftBy(c, b)
    BY <2>1 DEF HeldBy, LeftBy, Left, Closing
  <2>3. Closing' = Closing /\ \A c : Needed(c)' = Needed(c)
    BY <2>1, SameMachine DEF Closing, Needed
  <2>4. HandleTypes'
    BY <2>1, SameMachine DEF HandlesInv, HandleTypes
  <2>5. \A c \in Children : KeptOf(c)' /\ Bound(c)'
    BY <2>1, <2>2, <2>3, SameMachine DEF HandlesInv, KeptOf, Bound
  <2>6. ASSUME preparing' # Idle, NEW c, c = preparing'.child, NEW k, k = preparing'.step
        PROVE  Reached(c, k)'
    BY <2>1, <2>2, <2>6, SameMachine DEF HandlesInv, Reached
  <2>7. preparing' # Idle => Reached(preparing.child, preparing.step)'
    BY <2>6 DEF Reached
  <2> QED BY <2>1, <2>4, <2>5, <2>7 DEF HandlesInv
<1> QED BY <1>1, <1>2, <1>3, <1>4, <1>5, <1>6, <1>7, <1>8, <1>9, <1>10, <1>11, <1>12, <1>13,
           <1>14 DEF HandlesNext

LEMMA HandlesInvAccounts == HandlesInv => HandlesAreAccounted
<1> SUFFICES ASSUME HandlesInv PROVE HandlesAreAccounted
  OBVIOUS
<1>1. \A c \in Children : KeptOf(c) /\ Bound(c)
  BY DEF HandlesInv
<1>2. HandleTypes /\ handles \in SUBSET AllHandles
  BY DEF HandlesInv, HandleTypes
<1>3. NothingLeaks
  <2> SUFFICES ASSUME preparing = Idle, closing = <<>>, NEW c \in Children
               PROVE  /\ HeldBy(c, "Call") = {} /\ HeldBy(c, "Launch") = {}
                      /\ holding[c] \in {"Nothing", "Running", "Ended"}
                         => HeldBy(c, "Owner") = Needed(c)
                      /\ holding[c] \in {"Pending", "Quarantined"} /\ Windows =>
                           {"Job", "Process"} \subseteq HeldBy(c, "Owner")
    BY DEF NothingLeaks
  <2>1. \A b : LeftBy(c, b) = HeldBy(c, b)
    BY NothingCloses
  <2>2. c # preparing.child
    BY ChildrenAreChildren DEF Idle
  <2>3. holding[c] = "Nothing" => HeldBy(c, "Owner") = {}
    BY <1>1 DEF KeptOf, Holders
  <2>4. holding[c] # "Running" => Needed(c) = {}
    BY DEF Needed
  <2> QED BY <1>1, <2>1, <2>2, <2>3, <2>4 DEF KeptOf
<1>4. LetGoOfNothing
  <2> SUFFICES ASSUME closing = <<>>, NEW c \in Children, holding[c] = "Ended"
               PROVE  /\ body[c] \in {"NONE", "GONE"}
                      /\ \A end \in HeldBy(c, "Worker") : AtEnd(c, end)
    BY DEF LetGoOfNothing
  <2>1. Closing = {} /\ \A b : LeftBy(c, b) = HeldBy(c, b)
    BY NothingCloses
  <2>2. Opened(c, "Owner", {"Job"}) # {}
    BY DEF Opened
  <2>3. body[c] \in {"NONE", "GONE"} /\ c # preparing.child
    BY <1>1, <2>1, <2>2 DEF KeptOf
  <2>4. HeldBy(c, "Call") = {} /\ HeldBy(c, "Launch") = {} /\ HeldBy(c, "Owner") = {}
    BY <1>1, <2>1, <2>3 DEF KeptOf
  <2>5. HeldBy(c, "Host") = {} /\ HeldBy(c, "Worker") \subseteq Readers
    BY <1>1, <2>4 DEF Bound
  <2>6. ASSUME NEW h \in handles, h.of = c PROVE h.end \in Readers
    <3>1. h.end \in HeldBy(c, h.by) /\ h.by \in Holders
      BY <1>2, <2>6 DEF HeldBy, HeldIn, AllHandles
    <3> QED BY <2>4, <2>5, <3>1 DEF Holders
  <2>7. ASSUME NEW end \in HeldBy(c, "Worker") PROVE AtEnd(c, end)
    <3>1. end \in Readers
      BY <2>5
    <3>2. Writers(c, end) = {}
      BY <2>6, <3>1 DEF Writers, Readers
    <3> QED BY <2>3, <3>2 DEF AtEnd
  <2> QED BY <2>3, <2>7
<1>5. RunsAsAsked
  BY <1>1 DEF RunsAsAsked, Bound
<1>6. DropsReturn
  <2> SUFFICES ASSUME closing # <<>>, closing[1].end = "Console",
                      "OutputReader" \in HeldBy(closing[1].of, closing[1].by)
               PROVE  FALSE
    BY DEF DropsReturn, CloseReturns
  <2>1. closing \in Seq(AllHandles) /\ ConsolesLast(handles, closing)
    BY DEF HandlesInv, HandleTypes
  <2>2. 1 \in DOMAIN closing /\ \A j \in DOMAIN closing : ~(j < 1)
    BY <2>1
  <2> QED BY <2>1, <2>2 DEF ConsolesLast, HeldBy
<1> QED BY <1>3, <1>4, <1>5, <1>6 DEF HandlesAreAccounted

(* Whatever step of a launch fails, and on whichever machine, every handle *)
(* is closed or kept by the control of a child that may still be there; a  *)
(* program of Windows runs in its job and from the file that was asked     *)
(* for; whoever reads its output comes to an end of it; and no drop waits  *)
(* for a reader that the same thread would have to be.  For any children   *)
(* and any number of candidates.  (prepare_suspended_process_group and     *)
(* prepare_suspended_into_job of managed.rs, start_platform_run of         *)
(* managed_runs.rs: HandlesAreAccounted.)                                  *)
THEOREM HandlesStayAccounted == HandlesSpec => []HandlesAreAccounted
<1>1. HandlesInit => HandlesInv
  BY HandlesBegin
<1>2. HandlesInv /\ [HandlesNext]_handleVars => HandlesInv'
  BY HandlesKeep
<1>3. HandlesInv => HandlesAreAccounted
  BY HandlesInvAccounts
<1> QED BY <1>1, <1>2, <1>3, PTL DEF HandlesSpec

=============================================================================
