----------------------------- MODULE LogReaders -----------------------------
(***************************************************************************)
(* Who may read and who may delete the logs of a run: the registry of log  *)
(* readers, get_log_range and the retention cleanup of                     *)
(* crates/supervisor/src/managed_runs.rs with the deletion marks of        *)
(* crates/storage/src/retention_contract.rs.                               *)
(*                                                                         *)
(* Sizes are counted in runs: a directory is charged with the most a run   *)
(* may write.  An offset is known by the generation of the reader that     *)
(* issued it, because a new reader numbers the bytes anew.                 *)
(***************************************************************************)
EXTENDS Naturals, FiniteSets, Sequences, SequencesExt, Filters

CONSTANTS
  None,
  Runs,
  Requests,         \* concurrent callers of get_log_range
  Permits,          \* MANAGED_LOG_RANGE_CONCURRENCY
  ReaderCapacity,   \* MANAGED_LOG_READER_CAPACITY
  MaxActive,        \* MAX_ACTIVE_MANAGED_LOG_RUNS
  PageLimit,        \* candidates of one cleanup: pages times page size
  MaxRetained,      \* MAX_RETAINED_MANAGED_LOG_RUNS
  DiskBudget,       \* MANAGED_LOG_RETENTION_MAX_TOTAL_BYTES, in runs
  Budgets           \* bounds Init chooses from: calls of get_log_range, failing
                    \* steps and crashes, cleanups that nothing asked for

ASSUME LogLimits ==
  /\ Permits \in Nat \ {0} /\ ReaderCapacity \in Nat \ {0} /\ PageLimit \in Nat \ {0}
  /\ MaxActive \in Nat /\ MaxRetained \in Nat /\ DiskBudget \in Nat \ {0}
ASSUME LogBounds == Budgets \subseteq [reads : Nat, faults : Nat, quiet : Nat]
ASSUME LogNames  ==
  /\ IsFiniteSet(Runs) /\ IsFiniteSet(Requests)
  /\ None \notin Runs \cup Nat \cup {"Launched", "Recovered"}
  /\ None \notin [generation : Nat, active : BOOLEAN]

VARIABLES
  live,       \* durable: runs whose row is not terminal
  ended,      \* durable: terminal rows by retention_timestamp, oldest first
  deleting,   \* durable: logs_deletion_started_at is set
  deleted,    \* durable: logs_deleted_at is set
  dirs,       \* the log directories that exist
  controls,   \* controls: run -> "Launched" or "Recovered" process, or None
  capturing,  \* runs with capture workers: log files may be written
  registry,   \* ManagedLogReaderRegistry
  opened,     \* readers opened so far for a run
  issued,     \* history: <<run, generation>> of the offsets clients have
  request,    \* the calls of get_log_range in progress
  cleanup,    \* the retention cleanup that holds the gate
  starting,   \* the start that holds the start gate, admitted or not
  budget      \* what is left of the bounds

durable == <<live, ended, deleting, deleted>>
vars == <<live, ended, deleting, deleted, dirs, controls, capturing, registry,
          opened, issued, request, cleanup, starting, budget>>

NoStart   == [run |-> None, admitted |-> FALSE]
NoRequest == [at |-> "Idle", run |-> None, offset |-> None, reader |-> None]
NoCleanup == [at |-> "Idle", forStart |-> FALSE, load |-> <<>>, inspected |-> <<>>,
              charged |-> 0, reserved |-> 0, count |-> 0, expired |-> {},
              truncated |-> FALSE]

Init ==
  /\ live = {} /\ ended = <<>> /\ deleting = {} /\ deleted = {} /\ dirs = {}
  /\ controls = [r \in Runs |-> None]
  /\ capturing = {}
  /\ registry = [entries |-> [r \in Runs |-> None], completed |-> <<>>]
  /\ opened = [r \in Runs |-> 0]
  /\ issued = {}
  /\ request = [q \in Requests |-> NoRequest]
  /\ cleanup = NoCleanup
  /\ starting = NoStart
  /\ budget \in Budgets

Controlled == {r \in Runs : controls[r] # None}
Rows == live \cup ToSet(ended)
Fault == budget.faults > 0 /\ budget' = [budget EXCEPT !.faults = @ - 1]
NoFault == UNCHANGED budget
----------------------------------------------------------------------------
(* ManagedLogReaderRegistry.  An entry knows the generation of its reader. *)

Entry(generation, active) == [generation |-> generation, active |-> active]
Registered(g) == {r \in Runs : g.entries[r] # None}
Forget(s, r) == Filtered(s, {i \in DOMAIN s : s[i] # r})

FaultyTouched(g, r) ==   \* the reader moves to the end of the queue, and stays in it
  IF g.entries[r] # None /\ ~g.entries[r].active
    THEN [g EXCEPT !.completed = Append(@, r)] ELSE g

Touched(g, r) ==
  IF g.entries[r] # None /\ ~g.entries[r].active
    THEN [g EXCEPT !.completed = Append(Forget(@, r), r)] ELSE g

Without(g, r) == [entries |-> [g.entries EXCEPT ![r] = None],
                  completed |-> Forget(g.completed, r)]

MarkCompleted(g, r) ==
  IF g.entries[r] # None /\ g.entries[r].active
    THEN [entries |-> [g.entries EXCEPT ![r].active = FALSE],
          completed |-> Append(g.completed, r)]
    ELSE g

(* The registry after the k oldest readers in the queue were dropped. *)
Dropped(g, k) ==
  LET victims == {r \in ToSet(SubSeq(g.completed, 1, k)) : ~g.entries[r].active}
  IN  [entries |-> [r \in Runs |-> IF r \in victims THEN None ELSE g.entries[r]],
       completed |-> SubSeq(g.completed, k + 1, Len(g.completed))]
HasRoom(g) == Cardinality(Registered(g)) < ReaderCapacity

MadeRoom(g) ==
  LET enough == {k \in 0..Len(g.completed) : HasRoom(Dropped(g, k))}
  IN  Dropped(g, IF enough = {} THEN Len(g.completed)
                 ELSE CHOOSE k \in enough : \A j \in enough : k <= j)
----------------------------------------------------------------------------
(* get_log_range: a permit, the registered reader, then the row and the *)
(* control under the service lock, then the files on a blocking thread. *)

Reading == {q \in Requests : request[q].at # "Idle"}
(* The cleanup waits for every permit or has them, until a candidate is done. *)
Exclusive == cleanup.at \in {"Acquire", "Begin", "Remove", "Mark"}

FaultyAsk(q, r, offset) ==   \* the permit is taken with the files, not before the lookup
  /\ request[q] = NoRequest /\ budget.reads > 0
  /\ request' = [request EXCEPT ![q] =
       [at |-> "Check", run |-> r, offset |-> offset,
        reader |-> IF registry.entries[r] = None THEN None ELSE registry.entries[r].generation]]
  /\ registry' = Touched(registry, r)
  /\ budget' = [budget EXCEPT !.reads = @ - 1]
  /\ UNCHANGED <<durable, dirs, controls, capturing, opened, issued, cleanup, starting>>

Ask(q, r, offset) ==
  /\ request[q] = NoRequest /\ budget.reads > 0
  /\ Cardinality(Reading) < Permits /\ ~Exclusive
  /\ request' = [request EXCEPT ![q] =
       [at |-> "Check", run |-> r, offset |-> offset,
        reader |-> IF registry.entries[r] = None THEN None ELSE registry.entries[r].generation]]
  /\ registry' = Touched(registry, r)
  /\ budget' = [budget EXCEPT !.reads = @ - 1]
  /\ UNCHANGED <<durable, dirs, controls, capturing, opened, issued, cleanup, starting>>

(* The first reader of a run is the one its capture workers share. *)
Available(q) ==
  IF request[q].reader = None /\ controls[request[q].run] = "Launched"
    THEN 1 ELSE request[q].reader

Check(q) ==
  /\ request[q].at = "Check"
  /\ LET r == request[q].run IN
     request' = [request EXCEPT ![q] =
       IF r \notin Rows \/ r \in deleting \/ r \in deleted THEN NoRequest
       ELSE IF Available(q) # None THEN [@ EXCEPT !.at = "Read", !.reader = Available(q)]
       ELSE IF @.offset # None THEN NoRequest
       ELSE [@ EXCEPT !.at = "Open"]]
  /\ UNCHANGED <<durable, dirs, controls, capturing, registry, opened, issued, cleanup, starting, budget>>

(* open_existing and insert_historical. *)
OpenHistorical(q) ==
  LET r == request[q].run
      g == MadeRoom(registry)
      new == opened[r] + 1
  IN
  /\ request[q].at = "Open"
  /\ IF r \notin dirs
       THEN /\ request' = [request EXCEPT ![q] = NoRequest]
            /\ UNCHANGED <<registry, opened>>
     ELSE IF registry.entries[r] # None
       THEN /\ request' = [request EXCEPT ![q].at = "Read",
                                          ![q].reader = registry.entries[r].generation]
            /\ opened' = [opened EXCEPT ![r] = new]
            /\ UNCHANGED registry
     ELSE /\ opened' = [opened EXCEPT ![r] = new]
          /\ IF HasRoom(g)
               THEN /\ registry' = [entries |-> [g.entries EXCEPT ![r] = Entry(new, FALSE)],
                                    completed |-> Append(g.completed, r)]
                    /\ request' = [request EXCEPT ![q].at = "Read", ![q].reader = new]
               ELSE registry' = g /\ request' = [request EXCEPT ![q] = NoRequest]
  /\ UNCHANGED <<durable, dirs, controls, capturing, issued, cleanup, starting, budget>>

Read(q) ==
  /\ request[q].at = "Read"
  /\ issued' = issued \cup {<<request[q].run, request[q].reader>>}
  /\ request' = [request EXCEPT ![q] = NoRequest]
  /\ UNCHANGED <<durable, dirs, controls, capturing, registry, opened, cleanup, starting, budget>>
----------------------------------------------------------------------------
(* The life of a run, as far as its logs are concerned. *)

(* Run ids are fresh and otherwise alike: they are taken in one order. *)
BeginStart ==
  /\ starting = NoStart /\ Rows # Runs
  /\ Cardinality(Controlled) < MaxActive
  /\ starting' = [NoStart EXCEPT !.run = CHOOSE r \in Runs : r \notin Rows]
  /\ UNCHANGED <<durable, dirs, controls, capturing, registry, opened, issued, request, cleanup, budget>>

EndRow(r) == live' = live \ {r} /\ ended' = Append(ended, r)

(* A launch that fails after its directory was made leaves a FAILED row. *)
(* Its reader stays as long as the workers drain the pipes, and is taken *)
(* back when a worker could not be spawned.                              *)
FailedLaunch(r) ==
  LET g == MadeRoom(registry) IN
  /\ ended' = Append(ended, r)
  /\ dirs' = dirs \cup {r} \/ dirs' = dirs
  /\ \/ UNCHANGED <<registry, capturing, opened>>       \* before or without a directory
     \/ ~HasRoom(g) /\ registry' = g /\ UNCHANGED <<capturing, opened>>
     \/ HasRoom(g) /\ registry' = Without(g, r) /\ UNCHANGED <<capturing, opened>>
     \/ /\ HasRoom(g) /\ capturing' = capturing \cup {r}
        /\ registry' = [g EXCEPT !.entries[r] = Entry(1, TRUE)]
        /\ opened' = [opened EXCEPT ![r] = 1]
  /\ UNCHANGED <<live, controls, issued>>

Launch ==
  LET r == starting.run
      g == MadeRoom(registry)
  IN
  /\ starting.admitted /\ starting' = NoStart
  /\ \/ /\ Cardinality(Controlled) < MaxActive /\ HasRoom(g)
        /\ live' = live \cup {r} /\ dirs' = dirs \cup {r}
        /\ controls' = [controls EXCEPT ![r] = "Launched"]
        /\ capturing' = capturing \cup {r}
        /\ registry' = [g EXCEPT !.entries[r] = Entry(1, TRUE)]
        /\ opened' = [opened EXCEPT ![r] = 1]
        /\ issued' = issued \cup {<<r, 1>>}          \* log events carry offsets
        /\ NoFault /\ UNCHANGED ended
     \/ /\ Cardinality(Controlled) < MaxActive
        /\ IF HasRoom(g) THEN Fault ELSE NoFault
        /\ FailedLaunch(r)
  /\ UNCHANGED <<deleting, deleted, request, cleanup>>

(* The exit is recorded and the control dropped, or kept in quarantine. *)
RunEnds(r) ==
  /\ r \in Controlled /\ r \in live
  /\ EndRow(r)
  /\ \/ controls' = [controls EXCEPT ![r] = None] /\ NoFault
     \/ Fault /\ UNCHANGED controls
  /\ UNCHANGED <<deleting, deleted, dirs, capturing, registry, opened, issued, request, cleanup, starting>>

(* The last of the workers of a run ends: ManagedLogEventCompletion. *)
CaptureEnds(r) ==
  /\ r \in capturing
  /\ capturing' = capturing \ {r}
  /\ registry' = MarkCompleted(registry, r)
  /\ UNCHANGED <<durable, dirs, controls, opened, issued, request, cleanup, starting, budget>>

(* The Supervisor dies; the next one reconciles its runs.  Workers and *)
(* readers die with it, and so do the requests.                        *)
CrashAndRecover ==
  /\ Fault
  /\ \E recovered \in SUBSET live : \E lost \in SetToSeqs(live \ recovered) :
       /\ live' = recovered
       /\ ended' = ended \o lost
       /\ controls' = [r \in Runs |-> IF r \in recovered THEN "Recovered" ELSE None]
  /\ capturing' = {}
  /\ registry' = [entries |-> [r \in Runs |-> None], completed |-> <<>>]
  /\ request' = [q \in Requests |-> NoRequest]
  /\ cleanup' = NoCleanup /\ starting' = NoStart
  /\ UNCHANGED <<deleting, deleted, dirs, opened, issued>>
----------------------------------------------------------------------------
(* The retention cleanup, one step per acquisition of the service lock. *)

Candidates == Filtered(ended, {i \in DOMAIN ended : ended[i] \notin deleted})
MarkedLogs == {r \in deleting : r \notin deleted}

(* run_managed_log_retention_cleanup takes the gate and loads its        *)
(* candidates.  Those that ended before the cutoff are a prefix of them. *)
BeginCleanup(forStart) ==
  /\ cleanup.at = "Idle"
  /\ IF forStart THEN starting # NoStart /\ ~starting.admitted /\ NoFault
     ELSE IF MarkedLogs # {} THEN NoFault
     ELSE budget.quiet > 0 /\ budget' = [budget EXCEPT !.quiet = @ - 1]
  /\ LET page == SubSeq(Candidates, 1, CHOOSE n \in {PageLimit, Len(Candidates)} :
                                          n <= PageLimit /\ n <= Len(Candidates)) IN
     \E k \in 0..Len(page) :
       cleanup' = [at |-> "Inspect", forStart |-> forStart, load |-> page, inspected |-> <<>>,
                   charged |-> 0,
                   reserved |-> Cardinality(Controlled) + (IF forStart THEN 1 ELSE 0),
                   count |-> Len(Candidates), expired |-> ToSet(SubSeq(page, 1, k)),
                   truncated |-> Len(Candidates) > Len(page)]
  /\ UNCHANGED <<durable, dirs, controls, capturing, registry, opened, issued, request, starting>>

ActiveReader(r) == registry.entries[r] # None /\ registry.entries[r].active
Inspected(r, bytes) == [run |-> r, bytes |-> bytes, missing |-> bytes = 0]

(* A directory that cannot be inspected is charged as a full one. *)
Inspect ==
  /\ cleanup.at = "Inspect" /\ cleanup.load # <<>>
  /\ LET r == Head(cleanup.load) IN
     IF controls[r] # None \/ ActiveReader(r)
       THEN /\ NoFault
            /\ cleanup' = [cleanup EXCEPT !.load = Tail(@),
                             !.reserved = @ + (IF controls[r] = None THEN 1 ELSE 0)]
       ELSE \E bytes \in {IF r \in dirs THEN 1 ELSE 0, 1} :
              /\ IF bytes = 1 /\ r \notin dirs THEN Fault ELSE NoFault
              /\ cleanup' = [cleanup EXCEPT !.load = Tail(@), !.charged = @ + bytes,
                                            !.inspected = Append(@, Inspected(r, bytes))]
  /\ UNCHANGED <<durable, dirs, controls, capturing, registry, opened, issued, request, starting>>

Retained == DiskBudget - cleanup.reserved
OverLimit == cleanup.truncated \/ cleanup.count > MaxRetained \/ cleanup.charged > Retained
Candidate == Head(cleanup.inspected)

FaultyMustGo(c) ==   \* forgets what an earlier cleanup began
  \/ c.missing \/ c.run \in cleanup.expired
  \/ cleanup.count > MaxRetained
  \/ ~cleanup.truncated /\ cleanup.charged > Retained

MustGo(c) ==
  \/ c.run \in deleting \/ c.missing \/ c.run \in cleanup.expired
  \/ cleanup.count > MaxRetained
  \/ ~cleanup.truncated /\ cleanup.charged > Retained

Finished(ok) ==
  /\ cleanup' = NoCleanup
  /\ starting' = IF ~cleanup.forStart THEN starting
                 ELSE IF ok THEN [starting EXCEPT !.admitted = TRUE] ELSE NoStart

Decide ==
  /\ cleanup.at \in {"Inspect", "Decide"} /\ cleanup.load = <<>>
  /\ IF cleanup.reserved > DiskBudget THEN Finished(FALSE)
     ELSE IF cleanup.inspected = <<>> THEN Finished(~OverLimit)
     ELSE /\ UNCHANGED starting
          /\ cleanup' = IF MustGo(Candidate) THEN [cleanup EXCEPT !.at = "Acquire"]
                        ELSE [cleanup EXCEPT !.at = "Decide", !.inspected = Tail(@)]
  /\ UNCHANGED <<durable, dirs, controls, capturing, registry, opened, issued, request, budget>>

(* All the permits: no reader is left, and none starts. *)
Acquire ==
  /\ cleanup.at = "Acquire" /\ Reading = {}
  /\ cleanup' = [cleanup EXCEPT !.at = "Begin"]
  /\ UNCHANGED <<durable, dirs, controls, capturing, registry, opened, issued, request, starting, budget>>

Skip == [cleanup EXCEPT !.at = "Decide", !.inspected = Tail(@)]

(* What the control, the row and the readers of a run say once more. *)
Deletable(r) == controls[r] = None /\ r \in ToSet(ended) \ deleted /\ ~ActiveReader(r)

(* evict_for_retention and begin_managed_run_log_deletion, under the lock. *)
BeginDeletion ==
  LET r == Candidate.run IN
  /\ cleanup.at = "Begin"
  /\ \/ /\ ~Deletable(r)
        /\ cleanup' = Skip /\ NoFault /\ UNCHANGED <<registry, deleting>>
     \/ Fault /\ cleanup' = Skip /\ UNCHANGED <<registry, deleting>>
     \/ /\ Deletable(r)
        /\ registry' = Without(registry, r)
        /\ \/ deleting' = deleting \cup {r} /\ cleanup' = [cleanup EXCEPT !.at = "Remove"] /\ NoFault
           \/ Fault /\ cleanup' = Skip /\ UNCHANGED deleting
           \/ Fault /\ cleanup' = Skip /\ deleting' = deleting \cup {r}
  /\ UNCHANGED <<live, ended, deleted, dirs, controls, capturing, opened, issued, request, starting>>

(* The files go one by one, the directory last. *)
RemoveDirectory ==
  LET r == Candidate.run IN
  /\ cleanup.at = "Remove"
  /\ \/ dirs' = dirs \ {r} /\ cleanup' = [cleanup EXCEPT !.at = "Mark"] /\ NoFault
     \/ Fault /\ cleanup' = Skip /\ UNCHANGED dirs
  /\ UNCHANGED <<durable, controls, capturing, registry, opened, issued, request, starting>>

FaultyMarkDeleted ==   \* the mark is written although nothing was removed
  LET r == Candidate.run IN
  /\ cleanup.at \in {"Remove", "Mark"}
  /\ \/ deleted' = deleted \cup {r} /\ NoFault
        /\ cleanup' = [Skip EXCEPT !.charged = @ - Candidate.bytes, !.count = @ - 1]
     \/ Fault /\ cleanup' = Skip /\ UNCHANGED deleted
  /\ UNCHANGED <<live, ended, deleting, dirs, controls, capturing, registry, opened, issued, request, starting>>

MarkDeleted ==
  LET r == Candidate.run IN
  /\ cleanup.at = "Mark"
  /\ \/ deleted' = deleted \cup {r} /\ NoFault
        /\ cleanup' = [Skip EXCEPT !.charged = @ - Candidate.bytes, !.count = @ - 1]
     \/ Fault /\ cleanup' = Skip /\ UNCHANGED deleted
     \/ Fault /\ cleanup' = Skip /\ deleted' = deleted \cup {r}
  /\ UNCHANGED <<live, ended, deleting, dirs, controls, capturing, registry, opened, issued, request, starting>>

Deletion == Inspect \/ Decide \/ Acquire \/ BeginDeletion \/ RemoveDirectory \/ MarkDeleted
----------------------------------------------------------------------------
Known(r) == {p[2] : p \in {i \in issued : i[1] = r}}

RangeStep(q) == Check(q) \/ OpenHistorical(q) \/ Read(q)

Next ==
  \/ \E q \in Requests, r \in Rows : \E offset \in Known(r) \cup {None} : Ask(q, r, offset)
  \/ \E q \in Requests : RangeStep(q)
  \/ BeginStart \/ \E r \in Runs : RunEnds(r) \/ CaptureEnds(r)
  \/ \E forStart \in BOOLEAN : BeginCleanup(forStart)
  \/ Deletion \/ Launch \/ CrashAndRecover

Spec == Init /\ [][Next]_vars

(* Calls, cleanups and a start that was admitted go on once begun, and the *)
(* timer of schedule_periodic_log_retention fires again and again.         *)
ReadersProgress ==
  \/ \E q \in Requests : RangeStep(q)
  \/ Deletion \/ Launch \/ \E forStart \in BOOLEAN : BeginCleanup(forStart)

FairSpec == Spec /\ WF_vars(ReadersProgress)
----------------------------------------------------------------------------
(* No file vanishes under a reader: the logs of a run whose deletion was *)
(* begun are read by nobody, and while its directory is removed, outside *)
(* the service lock, nobody writes there or finds a reader registered.   *)
FilesStayWhileUsed ==
  /\ \A q \in Requests : request[q].at \in {"Open", "Read"} => request[q].run \notin deleting
  /\ cleanup.at \in {"Remove", "Mark"} =>
       LET r == Candidate.run IN
       r \notin capturing /\ controls[r] = None /\ registry.entries[r] = None

(* The marks tell the truth across crashes and lost answers: a run that is *)
(* marked deleted ended, was marked before, and has no directory left; and *)
(* the directories never take more than the disk budget, whatever is still *)
(* being written, could not be removed or could not be inspected.          *)
DiskIsAccounted ==
  /\ deleted \subseteq deleting /\ deleting \subseteq ToSet(ended)
  /\ deleted \cap dirs = {}
  /\ Cardinality(dirs) <= DiskBudget

(* Every reader that is not active can be dropped for a new one: the queue *)
(* of completed readers holds each of them once and nothing else, so a     *)
(* start or a read is refused only when all the readers are active.        *)
SlotsAreReclaimable ==
  /\ Cardinality(Registered(registry)) <= ReaderCapacity
  /\ IsInjective(registry.completed)
  /\ ToSet(registry.completed) = {r \in Registered(registry) : ~registry.entries[r].active}

(* An explicit offset is answered by the reader that issued it or refused. *)
OffsetsKeepTheirGeneration ==
  \A q \in Requests :
    request[q].at = "Read" /\ request[q].offset # None => request[q].reader = request[q].offset

Writers == Controlled \cup {r \in Runs : ActiveReader(r)}

(* A deletion that was begun is completed, also after a crash or a failing *)
(* step in the middle, unless runs that still write take the whole budget. *)
MarkedLogsGo ==
  \A r \in Runs : r \in deleting ~> r \in deleted \/ Cardinality(Writers) > DiskBudget
=============================================================================
