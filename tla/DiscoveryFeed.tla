----------------------------- MODULE DiscoveryFeed -----------------------------
(***************************************************************************)
(* The ports of crates/discovery/src/scheduler.rs and how changes reach    *)
(* those who follow them.  Bindings of ports come from a scan of the host  *)
(* and from enrichments of single processes; one cache holds both, the     *)
(* records of processes repeat their part of it, and every change goes     *)
(* through an accumulator of bounded size before it is published.          *)
(*                                                                         *)
(* As in DiscoveryScheduler, a turn is a function from the state of the    *)
(* actor to its next state.                                                *)
(***************************************************************************)
EXTENDS Naturals, FiniteSets, SequencesExt, TLC

CONSTANTS
  Nothing,
  Owners,          \* process instance keys
  Endpoints,       \* protocol, family, address and port
  ManagedRuns,     \* run ids
  PortCapacity,    \* port_cache_capacity
  MaxEntities,     \* MAX_DISCOVERY_EVENT_ENTITIES
  FeedCases        \* inputs; a behaviour keeps to one of them

(* FieldValue<Vec<PortBinding>>, a ProcessRecord with what it is classified *)
(* by, and a PortCacheEntry                                                *)
Answers == {"Known", "Unknown", "Limited"}   \* NotSupported is treated as AccessLimited
Confidences == {"Exact", "Shared", "Unknown"}   \* Inferred is produced nowhere
PortAnswers == [is : Answers, bindings : SUBSET [at : Endpoints, confidence : Confidences]]
Judgements == [ports : PortAnswers, run : ManagedRuns \cup {Nothing}]
ProcessRecords == [ports : PortAnswers, run : ManagedRuns \cup {Nothing}, class : Judgements]
CachedPorts == [confidence : Confidences, from : {"Scan", "Result"}]

ASSUME NothingIsNeither == /\ Nothing \notin Owners \cup Endpoints \cup ManagedRuns
                           /\ Nothing \notin ProcessRecords /\ Nothing \notin CachedPorts
ASSUME HostIsFinite     == IsFiniteSet(Owners) /\ IsFiniteSet(Endpoints)
ASSUME PortsAreBounded  == {PortCapacity, MaxEntities} \subseteq Nat \ {0}

(* scans: what the platform may answer to a scan of ports.  results: what *)
(* an enrichment may say of the ports of its process.  owners, endpoints: *)
(* those that occur.  runs: of the Supervisor.  expiries: whether things  *)
(* get old.  bytes: MAX_DISCOVERY_EVENT_PAYLOAD_BYTES, in which a port    *)
(* with its frame fits.                                                   *)
ASSUME FeedCasesAreInputs ==
  FeedCases \subseteq [scans : SUBSET Answers, results : SUBSET Answers, owners : SUBSET Owners,
                       endpoints : SUBSET Endpoints, runs : SUBSET ManagedRuns, expiries : BOOLEAN,
                       bytes : Nat \ (0..1)]

VARIABLES
  desk,        \* struct Actor, and what a subscriber makes of its updates
  feedCase     \* the element of FeedCases that is kept

feedVars == <<desk, feedCase>>

(* struct PortBindingKey *)
Keys == [at : Endpoints, owner : Owners \cup {Nothing}]
Held(ports) == {k \in Keys : ports[k] # Nothing}
Of(p) == {k \in Keys : k.owner = p}
AtAny(ends) == {k \in Keys : k.at \in ends}

PortAnswer(is, bindings) == [is |-> is, bindings |-> bindings]
NotKnown == PortAnswer("Unknown", {})

NoChange == [processes |-> <<>>, ports |-> <<>>, availability |-> <<>>]

(* A port is cached with its confidence and where it came from, which    *)
(* decides when it expires.  oldRecords, oldScan, oldResults,            *)
(* oldAvailability: what is past its expires_at.  view: what the updates *)
(* say so far; sees: its snapshot showed the ports.  refused: history,   *)
(* processes whose latest change was refused in public as too large.     *)
FeedInit ==
  /\ feedCase \in FeedCases
  /\ desk = [records |-> [p \in Owners |-> Nothing], runs |-> [p \in Owners |-> Nothing],
             ports |-> [k \in Keys |-> Nothing], results |-> [p \in Owners |-> Nothing],
             availability |-> "Unknown",
             oldRecords |-> FALSE, oldScan |-> FALSE, oldResults |-> {}, oldAvailability |-> FALSE,
             pending |-> NoChange, refused |-> {},
             view |-> [records |-> [p \in Owners |-> Nothing], ports |-> [k \in Keys |-> Nothing],
                       availability |-> "Unknown", sees |-> FALSE]]
----------------------------------------------------------------------------
(* DiscoveryEventAccumulator *)

(* What a subscriber does with the changes of an accumulator. *)
Applied(view, pending) ==
  [view EXCEPT !.records = [p \in Owners |-> IF p \in DOMAIN pending.processes
                                             THEN pending.processes[p] ELSE @[p]],
               !.ports = [k \in Keys |-> IF k \in DOMAIN pending.ports
                                         THEN pending.ports[k] ELSE @[k]],
               !.availability = IF pending.availability = <<>> THEN @
                                ELSE pending.availability["All"]]

(* flush_pending_updates, into_ordered_changes, publish_immediate *)
Flushed(a) == [a EXCEPT !.view = Applied(@, a.pending), !.pending = NoChange]

(* Sizes: an entity, a binding within a record and the frame of each kind *)
(* of change weigh one.                                                   *)
Weight(kind, change) ==
  IF kind = "processes" /\ change # Nothing THEN 1 + Cardinality(change.ports.bindings) ELSE 1
Weights(kind, changes) ==
  FoldLeft(LAMBDA n, k : n + Weight(kind, changes[k]), IF changes = <<>> THEN 0 ELSE 1,
           SetToSeq(DOMAIN changes))
Bytes(pending) ==
  Weights("processes", pending.processes) + Weights("ports", pending.ports)
    + Weights("availability", pending.availability)
Entities(pending) == Cardinality(DOMAIN pending.processes) + Cardinality(DOMAIN pending.ports)

FlushedIfFull(a) ==
  IF Entities(a.pending) >= MaxEntities \/ Bytes(a.pending) >= feedCase.bytes THEN Flushed(a) ELSE a

(* accumulate_process_mutation, accumulate_port_mutation and              *)
(* accumulate_port_availability: the last change of an entity stays; one  *)
(* that does not fit flushes the others first, and one that never fits is *)
(* refused with an OperationFailed, which flushes as well.                *)
FitsFrame(pending) == Entities(pending) <= MaxEntities /\ Bytes(pending) <= feedCase.bytes

Latest(changes, k, change) ==
  [j \in {k} \cup DOMAIN changes |-> IF j = k THEN change ELSE changes[j]]

Joined(a, all, alone) ==
  IF FitsFrame(all) THEN [a EXCEPT !.pending = all] ELSE [Flushed(a) EXCEPT !.pending = alone]

Accumulated(a, kind, k, change) ==
  LET processes == IF kind = "processes" THEN {k} ELSE {}
  IN IF Weight(kind, change) + 1 > feedCase.bytes
     THEN [Flushed(a) EXCEPT !.refused = @ \cup processes]
     ELSE FlushedIfFull(Joined([a EXCEPT !.refused = @ \ processes],
                               [a.pending EXCEPT ![kind] = Latest(@, k, change)],
                               [NoChange EXCEPT ![kind] = Latest(@, k, change)]))

(* What many changes of one kind come to, in whichever order they are. *)
AccumulatedAll(a, kind, changes) ==
  LET order == SetToSeq(DOMAIN changes)
      after[i \in 0..Len(order)] ==
        IF i = 0 THEN a ELSE Accumulated(after[i - 1], kind, order[i], changes[order[i]])
  IN after[Len(order)]

(* accumulate_process_delta, accumulate_port_delta *)
Delta(a, kind, upserted, removed) ==
  AccumulatedAll(AccumulatedAll(a, kind, upserted), kind, [k \in removed |-> Nothing])

(* accumulate_port_availability *)
AvailabilityChanged(a) == Accumulated(a, "availability", "All", a.availability)

(* the same, when a scan made it another one *)
AvailabilityPublished(a, before) == IF a.availability = before THEN a ELSE AvailabilityChanged(a)

(* the processes whose record is not what it was in "a" *)
ProcessDelta(a, b) ==
  LET changed == {p \in Owners : b.records[p] # Nothing /\ a.records[p] # b.records[p]}
      removed == {p \in Owners : a.records[p] # Nothing /\ b.records[p] = Nothing}
  IN Delta(b, "processes", [p \in changed |-> b.records[p]], removed)

(* publish_port_cache_diff: the same of ports, at some endpoints *)
PortDelta(a, b, ends) ==
  LET now(k) == b.ports[k].confidence
      changed == {k \in Held(b.ports) \cap AtAny(ends) :
                    k \in Held(a.ports) => a.ports[k].confidence # now(k)}
      removed == (Held(a.ports) \ Held(b.ports)) \cap AtAny(ends)
  IN Delta(b, "ports", [k \in changed |-> now(k)], removed)

(* DiscoveryChange::OperationFailed *)
Failed(a) == Flushed(a)
----------------------------------------------------------------------------
(* Ports *)

(* rebalance_port_confidence *)
Confidence(keys, k) ==
  CASE k.owner = Nothing -> "Unknown"
    [] k.owner # Nothing /\ (\E j \in keys \ {k} : j.at = k.at) -> "Shared"
    [] OTHER -> "Exact"

Rebalanced(ports, ends) ==
  [k \in Keys |-> IF k \in Held(ports) \cap AtAny(ends)
                  THEN [ports[k] EXCEPT !.confidence = Confidence(Held(ports), k)] ELSE ports[k]]

Bindings(ports, p) == {[at |-> k.at, confidence |-> ports[k].confidence] : k \in Held(ports) \cap Of(p)}

(* process_port_value.  expired: results that do not count any more *)
PortsOf(a, p, expired) ==
  CASE a.results[p] # Nothing /\ p \notin expired -> a.results[p]
    [] (a.results[p] = Nothing \/ p \in expired) /\ a.availability = "Known" ->
         PortAnswer("Known", Bindings(a.ports, p))
    [] OTHER -> PortAnswer(a.availability, {})

(* refresh_known_process_port_results *)
Refreshed(results, ports, processes) ==
  [p \in Owners |->
     IF p \in processes /\ results[p] # Nothing /\ results[p] # PortAnswer("Limited", {})
          /\ results[p] # NotKnown
     THEN PortAnswer("Known", Bindings(ports, p)) ELSE results[p]]

(* apply_classification: it looks at the ports and at who owns the process *)
Judged(r) == [r EXCEPT !.class = [ports |-> r.ports, run |-> r.run]]

(* the records of some processes with the ports they have now *)
WithPorts(a, processes) ==
  LET b == [a EXCEPT !.records = [p \in Owners |->
              IF p \in processes /\ @[p] # Nothing
              THEN Judged([@[p] EXCEPT !.ports = PortsOf(a, p, a.oldResults)]) ELSE @[p]]]
  IN ProcessDelta(a, b)

(* publish_process_port_changes *)
ProcessPortChanges(a) == WithPorts(a, Owners)

FaultyAffectedOwners(a, b, ends) ==   \* those who join the endpoint, not those who were there
  {k.owner : k \in (Held(b.ports) \ Held(a.ports)) \cap AtAny(ends)} \ {Nothing}

(* The processes that an endpoint is about, before or after a change. *)
AffectedOwners(a, b, ends) ==
  {k.owner : k \in (Held(a.ports) \cup Held(b.ports)) \cap AtAny(ends)} \ {Nothing}

(* The cache without some ports.  The results of who was at their     *)
(* endpoints follow, and those of "others", but not of who is "away". *)
DropPorts(a, gone, ends, others, away) ==
  LET kept == [a EXCEPT !.ports = Rebalanced([k \in Keys |-> IF k \in gone THEN Nothing ELSE @[k]], ends)]
      touched == (others \cup AffectedOwners(a, kept, ends)) \ away
      b == [kept EXCEPT !.results = Refreshed(@, kept.ports, touched)]
  IN WithPorts(PortDelta(a, b, ends), IF touched = {} THEN {} ELSE Owners)

EndsOf(keys) == {k.at : k \in keys}

(* remove_ports_for_processes *)
RemovePorts(a, removed) ==
  LET b == [a EXCEPT !.results = [p \in Owners |-> IF p \in removed THEN Nothing ELSE @[p]],
                     !.oldResults = @ \ removed]
      gone == {k \in Held(a.ports) : k.owner \in removed}
  IN IF gone = {} THEN b ELSE DropPorts(b, gone, EndsOf(gone), {}, removed)

(* what a scan makes of the rows of the host: every owner of an endpoint *)
(* is told that there are others, also those it cannot identify          *)
ScannedPorts(keys) ==
  [k \in Keys |-> IF k \notin keys THEN Nothing
                  ELSE [confidence |-> Confidence(keys, k), from |-> "Scan"]]

(* apply_port_scan *)
ApplyPortScan(a, is, keys) ==
  LET found == [a EXCEPT !.ports = ScannedPorts(keys), !.oldScan = FALSE,
                         !.results = [p \in Owners |-> Nothing], !.oldResults = {}]
      b == [IF is = "Known" THEN PortDelta(a, found, Endpoints) ELSE a
              EXCEPT !.availability = is, !.oldAvailability = FALSE]
  IN IF is = "Known" /\ Cardinality(keys) > PortCapacity THEN Failed(a)
     ELSE AvailabilityPublished(ProcessPortChanges(b), a.availability)

(* validate_enrichment_ports *)
ListsForeignPorts(p, keys) == \E k \in keys : k.owner # p

(* apply_enrichment_port_result, and what apply_enrichment does to the *)
(* records after it                                                    *)
ApplyEnrichedPorts(a, p, is, keys) ==
  LET retained == Held(a.ports) \ Of(p)
      ends == EndsOf((Held(a.ports) \cap Of(p)) \cup keys)
      put == [k \in Keys |-> IF k.owner # p THEN a.ports[k] ELSE IF k \notin keys THEN Nothing
                             ELSE [confidence |-> "Exact", from |-> "Result"]]
      b == [a EXCEPT !.ports = Rebalanced(put, ends),
                     !.results[p] = PortAnswer(is, Bindings(put, p)), !.oldResults = @ \ {p}]
      touched == {p} \cup AffectedOwners(a, b, ends)
      c == [b EXCEPT !.results = Refreshed(@, b.ports, touched)]
  IN CASE ListsForeignPorts(p, keys) \/ Cardinality(retained) + Cardinality(keys) > PortCapacity -> Failed(a)
       [] OTHER -> WithPorts(PortDelta(a, c, ends), touched)
----------------------------------------------------------------------------
(* Records *)

(* overlay_managed_process_binding *)
Overlaid(a, p, r) == [r EXCEPT !.run = a.runs[p]]

(* apply_fast_scan, as far as ports and runs go: a process that is new *)
(* takes its ports from the cache, another one keeps them              *)
ApplyProcesses(a, seen) ==
  LET new(p) == [ports |-> PortsOf(a, p, a.oldResults), run |-> a.runs[p], class |-> Nothing]
      record(p) == Judged(IF a.records[p] = Nothing THEN new(p) ELSE Overlaid(a, p, a.records[p]))
      b == [a EXCEPT !.records = [p \in Owners |-> IF p \in seen THEN record(p) ELSE Nothing],
                     !.oldRecords = FALSE]
  IN RemovePorts(ProcessDelta(a, b), {p \in Owners : a.records[p] # Nothing} \ seen)

(* replace_managed_process_bindings *)
ReplaceBindings(a, runs) ==
  LET b == [a EXCEPT !.runs = runs]
      c == [b EXCEPT !.records = [p \in Owners |->
              IF @[p] = Nothing THEN Nothing ELSE Judged(Overlaid(b, p, @[p]))]]
  IN ProcessDelta(a, c)

(* sweep_expired, as far as records and ports go *)
RecordsSwept(a) ==
  LET removed == IF a.oldRecords THEN {p \in Owners : a.records[p] # Nothing} ELSE {}
  IN RemovePorts(ProcessDelta(a, [a EXCEPT !.oldRecords = FALSE,
       !.records = [p \in Owners |-> IF p \in removed THEN Nothing ELSE @[p]]]), removed)

PortsSwept(a) ==
  LET results == {p \in a.oldResults : a.results[p] # Nothing}
      gone == {k \in Held(a.ports) : IF a.ports[k].from = "Scan" THEN a.oldScan
                                     ELSE k.owner \in a.oldResults}
  IN DropPorts([a EXCEPT !.results = [p \in Owners |-> IF p \in results THEN Nothing ELSE @[p]],
                         !.oldResults = {}, !.oldScan = FALSE],
               gone, EndsOf(gone), results, {})

AvailabilityExpired(a) ==
  AvailabilityChanged(ProcessPortChanges([a EXCEPT !.availability = "Unknown", !.oldAvailability = FALSE]))
AvailabilitySwept(a) == IF a.oldAvailability THEN AvailabilityExpired(a) ELSE a

Swept(a) == AvailabilitySwept(PortsSwept(RecordsSwept(a)))

(* snapshot *)
SnapshotOf(a) ==
  [records |-> a.records, availability |-> a.availability, sees |-> a.availability = "Known",
   ports |-> [k \in Keys |-> IF a.availability = "Known" /\ a.ports[k] # Nothing
                             THEN a.ports[k].confidence ELSE Nothing]]
----------------------------------------------------------------------------
(* Turns *)

Becomes(a) == desk' = a /\ UNCHANGED feedCase

KeysHere == [at : feedCase.endpoints, owner : feedCase.owners \cup {Nothing}]

PortScanEnds ==
  \E is \in feedCase.scans : \E keys \in IF is = "Known" THEN SUBSET KeysHere ELSE {{}} :
    Becomes(ApplyPortScan(desk, is, keys))

(* A result for a process that is gone is dropped; one may be wrong about *)
(* whose ports it lists.                                                  *)
PortsEnriched(p) ==
  /\ desk.records[p] # Nothing
  /\ \E is \in feedCase.results : \E keys \in IF is = "Known" THEN SUBSET KeysHere ELSE {{}} :
       Becomes(ApplyEnrichedPorts(desk, p, is, keys))

ProcessesScanned == \E seen \in SUBSET feedCase.owners : Becomes(ApplyProcesses(desk, seen))

(* Command::ReplaceManagedProcessBindings; a run is that of one process. *)
BindingsReplaced ==
  \E runs \in [Owners -> feedCase.runs \cup {Nothing}] :
    /\ \A p \in Owners : runs[p] # Nothing =>
         p \in feedCase.owners /\ (\A q \in Owners \ {p} : runs[q] # runs[p])
    /\ Becomes(ReplaceBindings(desk, runs))

(* Time passes.  What one scan brought expires at once; an availability *)
(* is as old as the ports of the scan, or younger.                      *)
Expire == feedCase.expiries /\
  \/ /\ \E p \in Owners : desk.records[p] # Nothing
     /\ ~desk.oldRecords /\ Becomes([desk EXCEPT !.oldRecords = TRUE])
  \/ /\ desk.availability \in {"Known", "Limited"} /\ ~desk.oldAvailability
     /\ Becomes([desk EXCEPT !.oldScan = TRUE, !.oldAvailability = TRUE])
  \/ /\ desk.availability # "Known" /\ ~desk.oldScan
     /\ \E k \in Held(desk.ports) : desk.ports[k].from = "Scan"
     /\ Becomes([desk EXCEPT !.oldScan = TRUE])
  \/ \E p \in Owners : /\ desk.results[p] # Nothing /\ p \notin desk.oldResults
                       /\ Becomes([desk EXCEPT !.oldResults = @ \cup {p}])

FlushTick == Becomes(Flushed(desk))     \* event_flush_interval
SweepTick == Becomes(Swept(desk))       \* sweep_interval

(* Command::Snapshot, by a subscriber who starts or lags behind *)
Resynchronised(a) == [a EXCEPT !.view = SnapshotOf(a), !.refused = {}]
Resynchronise == Becomes(Resynchronised(Flushed(Swept(desk))))

FeedNext ==
  \/ PortScanEnds \/ (\E p \in feedCase.owners : PortsEnriched(p))
  \/ ProcessesScanned \/ BindingsReplaced
  \/ Expire \/ FlushTick \/ SweepTick \/ Resynchronise

FeedSpec == FeedInit /\ [][FeedNext]_feedVars
----------------------------------------------------------------------------
(* Property *)

(* What the updates say, those still accumulating included, is what the   *)
(* caches hold: of every process whose latest change was not refused in   *)
(* public, of the availability of ports, and of the ports themselves for  *)
(* a subscriber whose snapshot showed them.  And the three places that    *)
(* speak of a port agree, from whichever source it came, whoever else     *)
(* joins or leaves its endpoint, and whatever expired or was replaced in  *)
(* between: a record shows the ports of its process and was classified by *)
(* them and by its run, and a port is shared exactly if somebody else is  *)
(* at its endpoint (apply_port_scan, apply_enrichment_port_result,        *)
(* sweep_expired, remove_ports_for_processes).                            *)
FeedIsFaithful ==
  LET said == Applied(desk.view, desk.pending)
  IN /\ \A p \in Owners \ desk.refused : said.records[p] = desk.records[p]
     /\ said.availability = desk.availability
     /\ said.sees => \A k \in Keys : said.ports[k] =
          IF desk.ports[k] = Nothing THEN Nothing ELSE desk.ports[k].confidence
     /\ \A p \in Owners : desk.records[p] # Nothing =>
          LET r == desk.records[p]
          IN /\ r.ports \in {PortsOf(desk, p, desk.oldResults), PortsOf(desk, p, desk.oldResults \ {p})}
             /\ r.run = desk.runs[p] /\ r = Judged(r)
     /\ \A k \in Held(desk.ports) :
          desk.ports[k].confidence = Confidence(Held(desk.ports), k)
     /\ Cardinality(Held(desk.ports)) <= PortCapacity
=============================================================================
