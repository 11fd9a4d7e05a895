--------------------------- MODULE CatalogChanges ---------------------------
(***************************************************************************)
(* Saving and deleting projects and classification rules:                  *)
(* crates/supervisor/src/managed_runs.rs over the transactions of          *)
(* crates/storage/src/project_rule_contract.rs.  A change is prepared in a *)
(* transaction that stays open, published to the discovery scheduler,      *)
(* and then committed; when either fails the scheduler is given what the   *)
(* database holds.  The lock of the service is held from the preparation   *)
(* to the end; the scheduler takes its turns meanwhile.                    *)
(***************************************************************************)
EXTENDS DiscoveryScheduler

CONSTANTS
  CatalogOperations,      \* operation ids of clients
  Projects,
  Rules,
  UsedProjects     \* projects that a launch profile refers to

ASSUME UsedProjectsAreProjects == UsedProjects \subseteq Projects
ASSUME CatalogNoneIsNothing == None \notin Projects \cup Rules

VARIABLES
  durable,     \* the tables projects and classification_rules
  ledger,      \* the table catalog_mutation_ledger: the request of an operation
  stamp,       \* the latest updated_at; they never repeat
  calls,       \* calls that are being carried out
  sent,        \* bound: calls so far
  effects,     \* history: how often an operation was committed
  acked,       \* history: operations that were answered with success
  reported     \* history: the last failure said that discovery may differ

catalogVars == <<durable, ledger, stamp, calls, sent, effects, acked, reported>>

(* What the tables may hold, and what the caches and queues of discovery *)
(* then do                                                               *)
Catalogs == [Projects -> Nat]
RuleSets == [Rules -> [version : Nat, project : NoneOr(Projects)]]
Known    == Directories \cup {"Unknown", "Limited"}
Demands  == {Metadata, MetadataAndPorts}

Evidences == [state : {"Unknown", "Limited", "Found", "Missing"}, dir : NoneOr(Known),
              catalog : NoneOr(Catalogs)]
Classes   == [rules : NoneOr(RuleSets), facts : NoneOr(Evidences), dir : Known]
Records   == [dir : Known, evidence : Evidences, class : Classes]
WaitingEnrichments == [key : Processes, priority : New..Selected, demand : Demands]
WaitingScans == [key : Processes, priority : New..Selected, dir : Known, generation : Nat]
EnrichmentTasks == [cancelled : BOOLEAN, priority : New..Selected, started : Demands,
                    desired : Demands]
ScanTasks == [cancelled : BOOLEAN, dir : Known, generation : Nat, catalog : NoneOr(Catalogs)]
Asked == [kind : {"SaveProject", "DeleteProject", "SaveRule", "DeleteRule"},
          id : Projects \cup Rules \cup {None}, expected : Nat, project : NoneOr(Projects)]

ASSUME NoneIsNothing ==
  None \notin Records \cup WaitingEnrichments \cup WaitingScans \cup EnrichmentTasks \cup ScanTasks
            \cup Asked

NoRow == [version |-> 0, project |-> None]

(* project_context_snapshot.  Versions stand for what the rows say. *)
Context(d) == [catalog |-> d.projects, rules |-> d.rules]

(* validate_project_context: a rule assigns projects that are registered *)
ValidContext(d) ==
  \A u \in Rules : d.rules[u].project # None => d.projects[d.rules[u].project] > 0

Requests ==
  [kind : {"SaveProject", "DeleteProject"}, id : Projects \cup {None}, expected : 0..stamp,
   project : {None}]
  \cup [kind : {"SaveRule", "DeleteRule"}, id : Rules \cup {None}, expected : 0..stamp,
        project : Projects \cup {None}]

(* A create has no id yet; the others name a row and the version they saw. *)
WellFormed(q) ==
  /\ (q.id = None) = (q.expected = 0)
  /\ q.id = None => q.kind \in {"SaveProject", "SaveRule"}
  /\ q.kind = "DeleteRule" => q.project = None

VersionOf(q) == IF q.kind \in {"SaveProject", "DeleteProject"} THEN durable.projects[q.id]
                ELSE durable.rules[q.id].version

(* What the tables hold after the change.  id: allocate_project_id and *)
(* allocate_classification_rule_id take one that no row has.           *)
After(q, id) ==
  CASE q.kind = "SaveProject"   -> [durable EXCEPT !.projects[id] = stamp + 1]
    [] q.kind = "DeleteProject" -> [durable EXCEPT !.projects[id] = 0]
    [] q.kind = "SaveRule" ->
         [durable EXCEPT !.rules[id] = [version |-> stamp + 1, project |-> q.project]]
    [] q.kind = "DeleteRule"    -> [durable EXCEPT !.rules[id] = NoRow]

FreeIds(q) == IF q.kind = "SaveProject" THEN {j \in Projects : durable.projects[j] = 0}
              ELSE {u \in Rules : durable.rules[u] = NoRow}

(* prepare_delete_project_if_version: profiles and rules keep a project *)
InUse(q) ==
  /\ q.kind = "DeleteProject"
  /\ q.id \in UsedProjects \/ \E u \in Rules : durable.rules[u].project = q.id

Locked == \E c \in calls : c.step \in {"Prepared", "Published", "Reconciling"}
Step(c, step)  == calls' = (calls \ {c}) \cup {[c EXCEPT !.step = step]}
End(c)         == calls' = calls \ {c}

ActorWith(d) == ReplaceContext(NewActor([catalog |-> None, rules |-> None]), Context(d))

CatalogInit ==
  /\ scenario \in Scenarios
  /\ durable = [projects |-> [j \in Projects |-> 0], rules |-> [u \in Rules |-> NoRow]]
  /\ actor = ActorWith(durable)
  /\ ledger = [o \in CatalogOperations |-> None] /\ stamp = 0 /\ calls = {} /\ sent = 0
  /\ effects = [o \in CatalogOperations |-> 0] /\ acked = {} /\ reported = FALSE
----------------------------------------------------------------------------
(* A client calls; a call that was not answered may be made again. *)
Call(o, q) ==
  /\ sent < scenario.changes /\ WellFormed(q)
  /\ ~\E c \in calls : c.op = o
  /\ sent' = sent + 1
  /\ calls' = calls \cup {[op |-> o, request |-> q, step |-> "Sent", next |-> durable]}
  /\ UNCHANGED <<actor, scenario, durable, ledger, stamp, effects, acked, reported>>

(* replay_catalog_mutation: the answer of the operation, when it was *)
(* committed before; a conflict, when it was for another request.    *)
Replay(c) ==
  /\ c.step \in {"Sent", "Normalised"} /\ ~Locked /\ ledger[c.op] # None
  /\ End(c)
  /\ acked' = IF ledger[c.op] = c.request THEN acked \cup {<<c.op, c.request>>} ELSE acked
  /\ UNCHANGED <<actor, scenario, durable, ledger, stamp, sent, effects, reported>>

(* save_project: the root is normalised without the lock *)
Normalise(c) ==
  /\ c.step = "Sent" /\ c.request.kind = "SaveProject" /\ ~Locked /\ ledger[c.op] = None
  /\ Step(c, "Normalised")
  /\ UNCHANGED <<actor, scenario, durable, ledger, stamp, sent, effects, acked, reported>>

(* The checks of save_... and delete_..., and prepare_...: what is stored *)
(* in the transaction that stays open.                                    *)
Prepare(c) ==
  /\ c.step = (IF c.request.kind = "SaveProject" THEN "Normalised" ELSE "Sent")
  /\ ~Locked /\ ledger[c.op] = None
  /\ \E id \in IF c.request.id = None THEN FreeIds(c.request) ELSE {c.request.id} :
       /\ c.request.id # None => VersionOf(c.request) = c.request.expected
       /\ ~InUse(c.request)
       /\ ValidContext(After(c.request, id))
       /\ calls' = (calls \ {c}) \cup
            {[c EXCEPT !.step = "Prepared", !.next = After(c.request, id)]}
  /\ stamp' = stamp + 1
  /\ UNCHANGED <<actor, scenario, durable, ledger, sent, effects, acked, reported>>

(* A check fails, or storage does: nothing was changed. *)
Refuse(c) ==
  /\ c.step \in {"Sent", "Normalised"} /\ ~Locked
  /\ End(c)
  /\ UNCHANGED <<actor, scenario, durable, ledger, stamp, sent, effects, acked, reported>>

(* What makes replace_project_context of the scheduler fail *)
CanPublish == Serving /\ actor.generation < MaxGeneration

(* publish_and_commit_catalog_mutation: the scheduler first; when it fails *)
(* the transaction is rolled back                                          *)
Publish(c) ==
  /\ c.step = "Prepared"
  /\ IF CanPublish
     THEN Takes(ReplaceContext(actor, Context(c.next))) /\ Step(c, "Published")
     ELSE UNCHANGED <<actor, scenario>> /\ Step(c, "Reconciling")
  /\ UNCHANGED <<durable, ledger, stamp, sent, effects, acked, reported>>

(* the transaction takes effect: rows and ledger together *)
TakesEffect(c) ==
  /\ durable' = c.next
  /\ ledger' = [ledger EXCEPT ![c.op] = c.request]
  /\ effects' = [effects EXCEPT ![c.op] = @ + 1]

(* commit: it succeeds, or it fails and may have taken effect or not *)
Commit(c) ==
  /\ c.step = "Published"
  /\ \/ /\ TakesEffect(c) /\ End(c)
        /\ acked' = acked \cup {<<c.op, c.request>>} /\ reported' = FALSE
     \/ /\ TakesEffect(c) \/ UNCHANGED <<durable, ledger, effects>>
        /\ Step(c, "Reconciling")
        /\ UNCHANGED <<acked, reported>>
  /\ UNCHANGED <<actor, scenario, stamp, sent>>

FaultyReconcile(c) ==   \* the scheduler keeps what was published
  /\ c.step = "Reconciling"
  /\ reported' = FALSE
  /\ End(c)
  /\ UNCHANGED <<actor, scenario, durable, ledger, stamp, sent, effects, acked>>

(* reconcile_catalog_context_from_storage: the scheduler is given what the *)
(* database holds, or the error says that it could not be                  *)
Reconcile(c) ==
  /\ c.step = "Reconciling"
  /\ \/ /\ CanPublish
        /\ Takes(ReplaceContext(actor, Context(durable))) /\ reported' = FALSE
     \/ UNCHANGED <<actor, scenario>> /\ reported' = TRUE
  /\ End(c)
  /\ UNCHANGED <<durable, ledger, stamp, sent, effects, acked>>

(* ManagedRunService::new after the Supervisor ended in whatever state *)
Restart ==
  /\ scenario.restarts > 0
  /\ scenario' = [scenario EXCEPT !.restarts = @ - 1]
  /\ actor' = ActorWith(durable) /\ calls' = {} /\ reported' = FALSE
  /\ UNCHANGED <<durable, ledger, stamp, sent, effects, acked>>

Change ==
  \/ \E o \in CatalogOperations, q \in Requests : Call(o, q)
  \/ \E c \in calls :
       \/ Replay(c) \/ Normalise(c) \/ Prepare(c) \/ Refuse(c)
       \/ Publish(c) \/ Commit(c) \/ Reconcile(c)
  \/ Restart

CatalogNext == Change \/ (Turn /\ UNCHANGED catalogVars)
discoveryVars == <<actor, scenario, catalogVars>>
CatalogSpec == CatalogInit /\ [][CatalogNext]_discoveryVars
----------------------------------------------------------------------------
(* Properties *)

Versions == 0..stamp

(* Whenever no change is under way, discovery works with the projects and *)
(* rules the database holds, whatever publication, commit or rollback     *)
(* failed before, unless the client was told that it may not              *)
(* (publish_and_commit_catalog_mutation).  A change is committed at most  *)
(* once, however often a client repeats it after an answer that was lost  *)
(* or uncertain, and an operation that was answered with success was      *)
(* committed for exactly that request.                                    *)
CatalogChangesAreWhole ==
  /\ ~Locked /\ ~reported /\ actor.phase = "Running" => actor.context = Context(durable)
  /\ \A o \in CatalogOperations : effects[o] <= 1
  /\ \A ack \in acked : effects[ack[1]] = 1 /\ ledger[ack[1]] = ack[2]
=============================================================================
