------------------------- MODULE DiscoveryScheduler -------------------------
(***************************************************************************)
(* The discovery actor of crates/discovery/src/scheduler.rs: the caches of *)
(* process records, enrichments and project evidence, and the queues of    *)
(* the tasks that fill them.  The tasks run on the side; everything they   *)
(* deliver, every command and every timer is one turn of the actor.        *)
(*                                                                         *)
(* A turn is a function from the state of the actor to its next state, as  *)
(* a method on &mut self is; the actions at the end say when it is taken.  *)
(* Ports, and how changes travel to subscribers, are in DiscoveryFeed.     *)
(***************************************************************************)
EXTENDS Naturals, Sequences, FiniteSets, Filters

CONSTANTS
  None,
  Processes,               \* process instance keys, in their order
  Directories,             \* working directories
  EnrichmentConcurrency,   \* enrichment_concurrency
  ProjectConcurrency,      \* project_concurrency
  EnrichmentCapacity,      \* enrichment_cache_capacity
  MaxGeneration,           \* largest catalog generation (u64::MAX in the code)
  Scenarios                \* inputs; a behaviour keeps to one of them

ASSUME ProcessesAreOrdered == Processes \subseteq Nat /\ IsFiniteSet(Processes)
ASSUME CapacitiesArePositive ==
  /\ {EnrichmentConcurrency, ProjectConcurrency, EnrichmentCapacity} \subseteq Nat \ {0}
  /\ MaxGeneration \in Nat \ {0}

(* processes, directories: what the host may show.  fields: what a scan   *)
(* may say of a directory it does not know.  requests: of clients.        *)
(* expiries: caches whose entries may get old.  projectCapacity: of the   *)
(* configuration, both of the cache and of the tasks.  changes, restarts: *)
(* bounds of CatalogChanges.                                              *)
ASSUME ScenariosAreInputs ==
  Scenarios \subseteq [processes : SUBSET Processes, directories : SUBSET Directories,
                       fields : SUBSET {"Unknown", "Limited"},
                       requests : SUBSET {"Enrich", "Withdraw", "Project"},
                       expiries : SUBSET {"Records", "Enrichments", "Projects"},
                       projectCapacity : Nat \ {0}, changes : Nat, restarts : Nat]

VARIABLES
  actor,       \* struct Actor
  scenario     \* the element of Scenarios that is kept

New       == 0   \* EnrichmentPriority
Candidate == 1
Visible   == 2
Selected  == 3
Metadata         == 1   \* EnrichmentDemand
MetadataAndPorts == 2

(* compare_process_keys: the key that comes at place i *)
Nth(i) == CHOOSE p \in Processes : Cardinality({q \in Processes : q <= p}) = i

OneEach(Turn(_, _), keys, a) ==       \* a loop over keys in their order
  LET after[i \in 0..Cardinality(Processes)] ==
        IF i = 0 THEN a
        ELSE IF Nth(i) \in keys THEN Turn(after[i - 1], Nth(i)) ELSE after[i - 1]
  IN  after[Cardinality(Processes)]

Cleared(cache, keys) == [p \in Processes |-> IF p \in keys THEN None ELSE cache[p]]

(* A record, as far as the scheduler looks into it.  evidence: what a scan *)
(* of a directory against a catalog found.  class: what the classification *)
(* was computed from.                                                      *)
Unscanned(dir) == [state |-> IF dir = "Limited" THEN "Limited" ELSE "Unknown",
                   dir |-> None, catalog |-> None]
Evidence(found, dir, catalog) ==
  [state |-> IF found THEN "Found" ELSE "Missing", dir |-> dir, catalog |-> catalog]

(* ProcessClassificationFacts: only what was found counts. *)
FactsOf(evidence) == IF evidence.state = "Found" THEN evidence ELSE None

(* apply_classification *)
Classified(a, facts, r) ==
  [r EXCEPT !.class = [rules |-> a.context.rules, facts |-> facts, dir |-> r.dir]]

Cached(a)     == {p \in Processes : a.records[p] # None}
Running(tasks) == {p \in Processes : tasks[p] # None}

(* Actor::new.  feed: what all updates so far say of every record, those *)
(* still accumulating included.  owed: history, the demand that was      *)
(* accepted of every process and not met, refused or withdrawn since.    *)
NewActor(context) ==
  [phase |-> "Running", projectCapacity |-> scenario.projectCapacity,
   context |-> context, generation |-> 0,
   fast |-> "Idle", fastPending |-> FALSE,
   records |-> [p \in Processes |-> None], staleRecords |-> {},
   facts |-> [p \in Processes |-> None],
   enriched |-> [p \in Processes |-> None], staleEnriched |-> {},
   projects |-> [p \in Processes |-> None], staleProjects |-> {},
   pendingE |-> <<>>, runningE |-> [p \in Processes |-> None],
   pendingP |-> <<>>, runningP |-> [p \in Processes |-> None],
   feed |-> [p \in Processes |-> None], owed |-> [p \in Processes |-> 0]]
----------------------------------------------------------------------------
(* Queues *)

(* next_pending_enrichment, next_pending_project_scan: the highest        *)
(* priority, then the oldest, of those whose process has no task running. *)
NextPending(pending, running) ==
  LET free == {i \in DOMAIN pending : running[pending[i].key] = None}
      best == CHOOSE i \in free : \A j \in free :
                \/ pending[i].priority > pending[j].priority
                \/ pending[i].priority = pending[j].priority /\ i <= j
  IN IF free = {} THEN None ELSE pending[best]

Without(pending, keys) == Filtered(pending, {i \in DOMAIN pending : pending[i].key \notin keys})
Waits(pending, p) == \E i \in DOMAIN pending : pending[i].key = p

MaxOf(m, n) == IF m >= n THEN m ELSE n
Settled(owed, p, demand) == IF demand >= owed[p] THEN [owed EXCEPT ![p] = 0] ELSE owed

(* one turn of the loop of pump_enrichments *)
StartEnrichment(a) ==
  LET next == NextPending(a.pendingE, a.runningE)
      p    == next.key
      taken == [a EXCEPT !.pendingE = Without(@, {p})]
      fresh == a.enriched[p] # None /\ p \notin a.staleEnriched
  IN IF Cardinality(Running(a.runningE)) >= EnrichmentConcurrency \/ next = None THEN a
     ELSE IF a.records[p] = None THEN taken
     ELSE IF fresh /\ a.enriched[p] >= next.demand
     THEN [taken EXCEPT !.owed = Settled(@, p, next.demand)]
     ELSE [taken EXCEPT !.enriched[p] = IF fresh THEN @ ELSE None,
                        !.staleEnriched = @ \ {p},
                        !.runningE[p] = [cancelled |-> FALSE, priority |-> next.priority,
                                         started |-> next.demand, desired |-> next.demand]]

(* pump_enrichments: every turn takes one pending task away *)
PumpEnrichments(a) ==
  LET after[i \in 0..Cardinality(Processes)] ==
        IF i = 0 THEN a ELSE StartEnrichment(after[i - 1])
  IN  after[Cardinality(Processes)]

(* queue_enrichment on a task that runs *)
Upgrade(task, priority, demand) ==
  [task EXCEPT !.priority = MaxOf(@, priority), !.desired = MaxOf(@, demand)]

(* ... on one that waits *)
Raised(pending, p, priority, demand) ==
  [i \in DOMAIN pending |->
     IF pending[i].key # p THEN pending[i]
     ELSE [pending[i] EXCEPT !.priority = MaxOf(@, priority), !.demand = MaxOf(@, demand)]]

(* queue_enrichment *)
QueueEnrichment(a, p, priority, demand) ==
  LET fresh == a.enriched[p] # None /\ p \notin a.staleEnriched
      b == [a EXCEPT !.enriched[p] = IF fresh THEN @ ELSE None, !.staleEnriched = @ \ {p},
                     !.owed[p] = MaxOf(@, demand)]
  IN IF a.records[p] = None THEN a                           \* NotFound
     ELSE IF fresh /\ a.enriched[p] >= demand THEN a         \* Cached
     ELSE IF b.runningE[p] # None /\ ~b.runningE[p].cancelled
     THEN [b EXCEPT !.runningE[p] = Upgrade(@, priority, demand)]
     ELSE IF Waits(b.pendingE, p)
     THEN [b EXCEPT !.pendingE = Raised(@, p, priority, demand)]
     ELSE PumpEnrichments([b EXCEPT !.pendingE =
            Append(@, [key |-> p, priority |-> priority, demand |-> demand])])

Cancelled(task) == IF task = None THEN None ELSE [task EXCEPT !.cancelled = TRUE]

CancelledOf(tasks, keys) ==
  [p \in Processes |-> IF p \in keys THEN Cancelled(tasks[p]) ELSE tasks[p]]

(* cancel_enrichment, of each of the keys *)
CancelEnrichments(a, keys) ==
  [a EXCEPT !.pendingE = Without(@, keys), !.runningE = CancelledOf(@, keys),
            !.owed = [p \in Processes |-> IF p \in keys THEN 0 ELSE @[p]]]

Wanted(a, p) == [dir |-> a.records[p].dir, generation |-> a.generation]

(* what the catalog of the request says does not change: it is pinned *)
ScanOf(task) == [dir |-> task.dir, generation |-> task.generation]

(* one turn of the loop of pump_project_scans *)
StartProjectScan(a) ==
  LET next == NextPending(a.pendingP, a.runningP)
      p    == next.key
      taken == [a EXCEPT !.pendingP = Without(@, {p})]
      fresh == a.projects[p] # None /\ p \notin a.staleProjects
  IN IF Cardinality(Running(a.runningP)) >= ProjectConcurrency \/ next = None THEN a
     ELSE IF a.records[p] = None THEN taken
     ELSE IF ScanOf(next) # Wanted(a, p) \/ (fresh /\ a.projects[p] = ScanOf(next)) THEN taken
     ELSE [taken EXCEPT !.projects[p] = None, !.staleProjects = @ \ {p},
                        !.runningP[p] = [cancelled |-> FALSE, dir |-> next.dir,
                                         generation |-> next.generation,
                                         catalog |-> a.context.catalog]]

(* pump_project_scans *)
PumpProjectScans(a) ==
  LET after[i \in 0..Cardinality(Processes)] ==
        IF i = 0 THEN a ELSE StartProjectScan(after[i - 1])
  IN  after[Cardinality(Processes)]

(* the priority of what waits at some places of a queue *)
Preferred(pending, places, priority) ==
  [i \in DOMAIN pending |->
     IF i \in places THEN [pending[i] EXCEPT !.priority = MaxOf(@, priority)] ELSE pending[i]]

(* queue_project_scan, and queue_project_scan_background, which differs in *)
(* how it reports an error                                                 *)
QueueProjectScan(a, p, priority) ==
  IF a.records[p] = None \/ a.records[p].dir \notin Directories THEN a
  ELSE
  LET want  == Wanted(a, p)
      fresh == a.projects[p] # None /\ p \notin a.staleProjects
      b == [a EXCEPT !.projects[p] = None, !.staleProjects = @ \ {p}]
      runs == b.runningP[p] # None /\ ~b.runningP[p].cancelled /\ ScanOf(b.runningP[p]) = want
      c == [b EXCEPT !.runningP[p] = Cancelled(@)]
      waits == {i \in DOMAIN c.pendingP : c.pendingP[i].key = p /\ ScanOf(c.pendingP[i]) = want}
      d == [c EXCEPT !.pendingP = Without(@, {p})]
  IN IF fresh /\ a.projects[p] = want THEN a
     ELSE IF runs THEN b
     ELSE IF waits # {}
     THEN [c EXCEPT !.pendingP = Preferred(@, waits, priority)]
     ELSE IF Len(d.pendingP) + Cardinality(Running(d.runningP)) >= d.projectCapacity THEN d
     ELSE PumpProjectScans([d EXCEPT !.pendingP = Append(@,
            [key |-> p, priority |-> priority, dir |-> want.dir, generation |-> want.generation])])

(* cancel_project_scan, of each of the keys *)
CancelProjectScans(a, keys) ==
  [a EXCEPT !.pendingP = Without(@, keys), !.runningP = CancelledOf(@, keys)]

(* cancel_all_project_scans *)
CancelAllProjectScans(a) ==
  [a EXCEPT !.pendingP = <<>>, !.runningP = CancelledOf(@, Processes)]

(* What is queued of each of the keys in turn *)
QueueNewEnrichments(a, keys) ==
  OneEach(LAMBDA b, p : QueueEnrichment(b, p, New, Metadata), keys, a)
QueueProjectScans(a, keys, priority) ==
  OneEach(LAMBDA b, p : QueueProjectScan(b, p, priority), keys, a)
----------------------------------------------------------------------------
(* Results *)

(* process_semantically_equal: a delta carries the records that changed *)
Published(a, b, keys) ==
  [b EXCEPT !.feed = [p \in Processes |->
     IF p \in keys /\ a.records[p] # b.records[p] THEN b.records[p] ELSE @[p]]]

(* reset_project_evidence, then apply_classification without facts *)
WithoutEvidence(a, r) == Classified(a, None, [r EXCEPT !.evidence = Unscanned(r.dir)])

(* clear_project_evidence of each of the keys, and the delta that its *)
(* callers publish                                                    *)
ClearProjectEvidence(a, keys) ==
  Published(a, [a EXCEPT !.facts = Cleared(@, keys),
                         !.records = [p \in Processes |-> IF p \in keys /\ @[p] # None
                                        THEN WithoutEvidence(a, @[p]) ELSE @[p]]], keys)

(* what processes that are gone leave behind *)
Forget(a, keys) ==
  LET b == CancelProjectScans(CancelEnrichments(a, keys), keys)
  IN [b EXCEPT !.enriched = Cleared(@, keys), !.staleEnriched = @ \ keys,
               !.projects = Cleared(@, keys), !.staleProjects = @ \ keys,
               !.facts = Cleared(@, keys), !.records = Cleared(@, keys),
               !.staleRecords = @ \ keys, !.feed = Cleared(@, keys)]

FaultyDropEvidence(a, keys) ==   \* what they were classified with is kept
  [CancelProjectScans(a, keys) EXCEPT !.projects = Cleared(@, keys), !.staleProjects = @ \ keys]

DropEvidence(a, keys) ==   \* their directory is another one now
  [CancelProjectScans(a, keys) EXCEPT !.projects = Cleared(@, keys), !.staleProjects = @ \ keys,
                                      !.facts = Cleared(@, keys)]

(* normalize_fast_record and what apply_fast_scan makes of one record *)
Observed(a, p, seen) ==
  LET old == a.records[p]
      dir == IF old # None /\ seen = "Unknown" THEN old.dir ELSE seen   \* preserve_if_unknown
  IN IF old = None
     THEN Classified(a, a.facts[p], [dir |-> dir, evidence |-> Unscanned(dir), class |-> None])
     ELSE IF old.dir = dir THEN old
     ELSE WithoutEvidence(a, [old EXCEPT !.dir = dir])

(* apply_fast_scan.  scan: the directory of every process that was seen *)
ApplyFastScan(a, scan) ==
  LET seen    == DOMAIN scan
      newKeys == {p \in seen : a.records[p] = None}
      record  == [p \in seen |-> Observed(a, p, scan[p])]
      moved   == {p \in seen \ newKeys : record[p].dir # a.records[p].dir}
      b == Forget(DropEvidence(a, moved), Cached(a) \ seen)
      c == [b EXCEPT !.records = [p \in Processes |-> IF p \in seen THEN record[p] ELSE None],
                     !.staleRecords = {}]
  IN QueueProjectScans(QueueNewEnrichments(Published(a, c, seen), newKeys), newKeys \cup moved, New)

(* insert_enrichment_cache, insert_project_cache: a full cache gives up *)
(* the entry that expires first; which one that is, the inputs choose.  *)
Evicted(cache, stale, p, capacity, victim) ==
  LET full == cache[p] = None /\ Cardinality({q \in Processes : cache[q] # None}) >= capacity
      old  == IF stale = {} THEN {q \in Processes : cache[q] # None} ELSE stale
  IN IF ~full THEN {} ELSE IF victim \in old THEN {victim} ELSE {CHOOSE q \in old : TRUE}

(* apply_enrichment.  dir: the directory it found *)
ApplyEnrichment(a, p, task, dir, victim) ==
  LET moved == a.records[p].dir # dir
      b == IF moved THEN DropEvidence(a, {p}) ELSE a
      r == IF moved THEN [a.records[p] EXCEPT !.dir = dir, !.evidence = Unscanned(dir)]
           ELSE a.records[p]
      c == Published(a, [b EXCEPT !.records[p] = Classified(b, b.facts[p], r)], {p})
      gone == Evicted(c.enriched, c.staleEnriched, p, EnrichmentCapacity, victim)
      d == [c EXCEPT !.enriched = [q \in Processes |->
              IF q = p THEN task.started ELSE IF q \in gone THEN None ELSE @[q]],
                     !.staleEnriched = @ \ (gone \cup {p}),
                     !.owed = Settled(@, p, task.started)]
  IN IF a.records[p] = None THEN a ELSE QueueProjectScan(d, p, task.priority)

(* apply_project_scan: whether a result is still about this process *)
Accepts(a, p, task) ==
  /\ task.generation = a.generation
  /\ a.records[p] # None /\ a.records[p].dir = task.dir

(* apply_project_scan *)
ApplyProjectScan(a, p, task, found, victim) ==
  LET evidence == Evidence(found, task.dir, task.catalog)
      b == [a EXCEPT !.facts[p] = FactsOf(evidence),
                     !.records[p] = Classified(a, FactsOf(evidence),
                                               [@ EXCEPT !.evidence = evidence])]
      gone == Evicted(b.projects, b.staleProjects, p, b.projectCapacity, victim)
      c == [b EXCEPT !.projects = [q \in Processes |->
              IF q = p THEN ScanOf(task) ELSE IF q \in gone THEN None ELSE @[q]],
                     !.staleProjects = @ \ (gone \cup {p})]
  IN IF ~Accepts(a, p, task) THEN a
     ELSE ClearProjectEvidence(Published(a, c, {p}), gone)

(* replace_project_context, once the new context is valid *)
ReplaceContext(a, context) ==
  LET b == [CancelAllProjectScans(a) EXCEPT
              !.projects = [p \in Processes |-> None], !.staleProjects = {},
              !.facts = [p \in Processes |-> None],
              !.context = context, !.generation = @ + 1]
      c == [b EXCEPT !.records = [p \in Processes |->
              IF @[p] = None THEN None ELSE WithoutEvidence(b, @[p])]]
  IN QueueProjectScans(Published(a, c, Cached(a)), Cached(a), New)

(* sweep_expired: entries whose time has come are gone *)
SweepExpired(a) ==
  LET b == Forget(a, a.staleRecords)
      c == [b EXCEPT !.enriched = Cleared(@, b.staleEnriched), !.staleEnriched = {}]
      expired == c.staleProjects
      d == CancelProjectScans([c EXCEPT !.projects = Cleared(@, expired), !.staleProjects = {}], expired)
  IN QueueProjectScans(ClearProjectEvidence(d, expired), expired, Candidate)
----------------------------------------------------------------------------
(* Turns *)

SchedulerInit ==
  /\ scenario \in Scenarios
  /\ actor = NewActor([catalog |-> None, rules |-> None])

Takes(a) == actor' = a /\ UNCHANGED scenario
Serving  == actor.phase = "Running"

(* Actor::run, the timer of fast scans and Command::Refresh *)
RequestFastScan(restart) ==
  /\ Serving
  /\ Takes(IF actor.fast = "Idle" THEN [actor EXCEPT !.fast = "Running"]
           ELSE [actor EXCEPT !.fastPending = TRUE,
                              !.fast = IF restart THEN "Cancelled" ELSE @])

(* restart_after_task *)
RestartFastScan(a) ==
  IF a.fastPending THEN [a EXCEPT !.fastPending = FALSE, !.fast = "Running"]
  ELSE [a EXCEPT !.fast = "Idle"]

Scans == UNION {[s -> scenario.directories \cup scenario.fields] : s \in SUBSET scenario.processes}

(* handle_task_completion of a fast scan: its records, an error, or *)
(* nothing when it was cancelled                                    *)
FastScanEnds ==
  /\ actor.fast # "Idle"
  /\ \/ /\ actor.fast = "Running"
        /\ \E scan \in Scans : Takes(RestartFastScan(ApplyFastScan(actor, scan)))
     \/ Takes(RestartFastScan(actor))

(* Command::RequestEnrichmentBatch, one request of the batch *)
RequestEnrichment(p, priority, demand) ==
  /\ Serving
  /\ LET a == QueueEnrichment(actor, p, priority, demand)
     IN Takes(IF actor.records[p] # None /\ priority >= Visible
              THEN QueueProjectScan(a, p, priority) ELSE a)

WithdrawEnrichment(p) == Serving /\ Takes(CancelEnrichments(actor, {p}))
RequestProject(p)     == Serving /\ Takes(QueueProjectScan(actor, p, Selected))
WithdrawProject(p)    == Serving /\ Takes(CancelProjectScans(actor, {p}))

(* queue_enrichment_follow_up *)
FollowUp(a, p, task) ==
  IF task.cancelled \/ task.started >= task.desired THEN a
  ELSE QueueEnrichment(a, p, task.priority, task.desired)

FaultyEnrichmentEnds(p) ==   \* nobody looks for the next one
  /\ actor.runningE[p] # None
  /\ LET task == actor.runningE[p]
         a == [actor EXCEPT !.runningE[p] = None]
     IN \/ ~task.cancelled /\ \E dir \in scenario.directories \cup scenario.fields, v \in Processes :
             Takes(FollowUp(ApplyEnrichment(a, p, task, dir, v), p, task))
        \/ ~task.cancelled /\ Takes(FollowUp([a EXCEPT !.owed = Settled(@, p, task.started)], p, task))
        \/ task.cancelled /\ Takes(a)

(* handle_task_completion of an enrichment: its result; an error, which is *)
(* published; or nothing, when it was cancelled                            *)
EnrichmentEnds(p) ==
  /\ actor.runningE[p] # None
  /\ LET task == actor.runningE[p]
         a == [actor EXCEPT !.runningE[p] = None]
         Ends(b) == Takes(PumpEnrichments(FollowUp(b, p, task)))
     IN \/ ~task.cancelled /\ \E dir \in scenario.directories \cup scenario.fields, v \in Processes :
             Ends(ApplyEnrichment(a, p, task, dir, v))
        \/ ~task.cancelled /\ Ends([a EXCEPT !.owed = Settled(@, p, task.started)])
        \/ task.cancelled /\ Ends(a)

(* handle_task_completion of a project scan *)
ProjectScanEnds(p) ==
  /\ actor.runningP[p] # None
  /\ LET task == actor.runningP[p]
         a == [actor EXCEPT !.runningP[p] = None]
     IN \/ ~task.cancelled /\ \E found \in BOOLEAN, v \in Processes :
             Takes(PumpProjectScans(ApplyProjectScan(a, p, task, found, v)))
        \/ Takes(PumpProjectScans(a))

(* Time passes: the entry of p is past its expires_at from now on. *)
RecordExpires(p) ==
  /\ Serving /\ "Records" \in scenario.expiries /\ p \in Cached(actor) \ actor.staleRecords
  /\ Takes([actor EXCEPT !.staleRecords = @ \cup {p}])
EnrichmentExpires(p) ==
  /\ Serving /\ "Enrichments" \in scenario.expiries
  /\ actor.enriched[p] # None /\ p \notin actor.staleEnriched
  /\ Takes([actor EXCEPT !.staleEnriched = @ \cup {p}])
ProjectExpires(p) ==
  /\ Serving /\ "Projects" \in scenario.expiries
  /\ actor.projects[p] # None /\ p \notin actor.staleProjects
  /\ Takes([actor EXCEPT !.staleProjects = @ \cup {p}])

(* the timer of sweeps, and Command::Snapshot, which sweeps first *)
Sweep == Serving /\ Takes(SweepExpired(actor))

(* Command::Shutdown, or the signal: cancel_all_tasks *)
Shutdown ==
  /\ Serving
  /\ LET a == CancelAllProjectScans(actor)
     IN Takes([a EXCEPT !.phase = "Draining", !.fastPending = FALSE,
                        !.fast = IF @ = "Idle" THEN "Idle" ELSE "Cancelled",
                        !.pendingE = <<>>, !.owed = [p \in Processes |-> 0],
                        !.runningE = CancelledOf(@, Processes)])

(* drain_tasks: all have ended, or the time is up and they are aborted *)
Drained ==
  /\ actor.phase = "Draining"
  /\ Takes([actor EXCEPT !.phase = "Stopped", !.fast = "Idle",
                         !.runningE = [p \in Processes |-> None],
                         !.runningP = [p \in Processes |-> None]])

Turn ==
  \/ \E restart \in BOOLEAN : RequestFastScan(restart)
  \/ FastScanEnds
  \/ \E p \in scenario.processes :
       \/ "Enrich" \in scenario.requests /\ \E d \in {Metadata, MetadataAndPorts} :
            RequestEnrichment(p, IF d = Metadata THEN Visible ELSE Selected, d)
       \/ "Withdraw" \in scenario.requests /\ (WithdrawEnrichment(p) \/ WithdrawProject(p))
       \/ "Project" \in scenario.requests /\ RequestProject(p)
       \/ EnrichmentEnds(p) \/ ProjectScanEnds(p)
       \/ RecordExpires(p) \/ EnrichmentExpires(p) \/ ProjectExpires(p)
  \/ Sweep \/ Shutdown \/ Drained
----------------------------------------------------------------------------
(* Properties *)

NoneOr(S) == {None} \cup S

(* However scans, cancellations, catalog changes and expiries interleave,  *)
(* the project evidence a record shows was found in the directory it shows *)
(* and against the catalog in force, and its classification was computed   *)
(* from the rules in force and exactly the facts that are kept of it       *)
(* (apply_project_scan, apply_fast_scan, replace_project_context); and     *)
(* what the deltas published so far say is what the cache holds.           *)
EvidenceIsCurrent ==
  /\ actor.phase = "Running" => actor.feed = actor.records
  /\ \A p \in Cached(actor) :
       LET r == actor.records[p]
       IN /\ r.evidence.state \in {"Found", "Missing"} =>
               r.evidence.dir = r.dir /\ r.evidence.catalog = actor.context.catalog
          /\ actor.facts[p] = FactsOf(r.evidence)
          /\ r.class = [rules |-> actor.context.rules, facts |-> actor.facts[p], dir |-> r.dir]

(* An enrichment that was accepted is never lost: until it is met, refused *)
(* in public or withdrawn, a task that is not cancelled covers it, also    *)
(* when it came while a task with a smaller demand was running, or while a *)
(* cancelled one was still on its way out (queue_enrichment,               *)
(* queue_enrichment_follow_up).  And nothing waits while a slot is free    *)
(* that it could take: every turn that frees a slot or unblocks a process  *)
(* starts what can start (pump_enrichments, pump_project_scans,            *)
(* restart_after_task).                                                    *)
DemandIsServed ==
  /\ \A p \in Processes : actor.owed[p] > 0 =>
       \/ \E i \in DOMAIN actor.pendingE :
            actor.pendingE[i].key = p /\ actor.pendingE[i].demand >= actor.owed[p]
       \/ /\ actor.runningE[p] # None /\ ~actor.runningE[p].cancelled
          /\ actor.runningE[p].desired >= actor.owed[p]
  /\ NextPending(actor.pendingE, actor.runningE) # None =>
       Cardinality(Running(actor.runningE)) = EnrichmentConcurrency
  /\ NextPending(actor.pendingP, actor.runningP) # None =>
       Cardinality(Running(actor.runningP)) = ProjectConcurrency
  /\ actor.fastPending => actor.fast # "Idle"
=============================================================================
