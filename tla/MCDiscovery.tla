---------------------------- MODULE MCDiscovery ----------------------------
(***************************************************************************)
(* Scenarios, each small, that the run takes together: two processes that  *)
(* compete for one enrichment and one project slot while clients ask and   *)
(* withdraw and entries expire; a cache with room for one; one process     *)
(* whose directory changes in every way; catalog changes that fail at      *)
(* every step, with a Supervisor that restarts, while a process is being   *)
(* scanned; and longer sequences of catalog changes alone.  Beside them,   *)
(* when "part" says so, the ports: as Windows finds them, as macOS does,   *)
(* with one process or two, and as a backend that does both.               *)
(***************************************************************************)
EXTENDS CatalogChanges, DiscoveryFeed

VARIABLE part

Quiet == [processes |-> {1, 2}, directories |-> {"d1"}, fields |-> {}, requests |-> {},
          expiries |-> {}, projectCapacity |-> 2, changes |-> 0, restarts |-> 0]

DiscoveryScenarios ==
  {[Quiet EXCEPT !.requests = {"Enrich"}],
   [Quiet EXCEPT !.requests = {"Withdraw"}, !.expiries = {"Projects"}],
   [Quiet EXCEPT !.requests = {"Project"}, !.projectCapacity = 1],
   [Quiet EXCEPT !.processes = {1}, !.directories = {"d1", "d2"},
                 !.fields = {"Unknown", "Limited"},
                 !.requests = {"Enrich", "Withdraw", "Project"},
                 !.expiries = {"Records", "Enrichments", "Projects"}],
   [Quiet EXCEPT !.processes = {1}, !.changes = 2],
   [Quiet EXCEPT !.processes = {1}, !.changes = 1, !.restarts = 1],
   [Quiet EXCEPT !.processes = {}, !.changes = 2, !.restarts = 1],
   [Quiet EXCEPT !.processes = {}, !.changes = 3]}

OnMacOS == [scans |-> {"Unknown"}, results |-> {"Known", "Unknown", "Limited"}, owners |-> {"p1"},
            endpoints |-> {"e1", "e2"}, runs |-> {"r1"}, expiries |-> TRUE, bytes |-> 5]
OnWindows == [OnMacOS EXCEPT !.scans = {"Known", "Unknown", "Limited"}, !.results = {},
                             !.owners = {"p1", "p2"}, !.endpoints = {"e1"}, !.runs = {}, !.bytes = 3]
DiscoveryFeedCases ==
  {OnWindows, OnMacOS, [OnMacOS EXCEPT !.bytes = 3],
   [OnMacOS EXCEPT !.owners = {"p1", "p2"}, !.endpoints = {"e1"}, !.runs = {},
                   !.results = {"Known", "Limited"}, !.bytes = 3],
   [OnWindows EXCEPT !.scans = {"Known", "Limited"}, !.results = {"Known"}, !.expiries = FALSE,
                     !.bytes = 4]}

InActor(A) == part = "Actor" /\ A /\ UNCHANGED <<feedVars, part>>
InFeed(A)  == part = "Feed" /\ A /\ UNCHANGED <<discoveryVars, part>>

DiscoveryInit ==
  /\ CatalogInit /\ FeedInit
  /\ part \in {"Actor", "Feed"}
  /\ part = "Actor" => feedCase = OnMacOS
  /\ part = "Feed" => scenario = [Quiet EXCEPT !.processes = {}, !.changes = 3]
DiscoverySpec == DiscoveryInit /\ [][InActor(CatalogNext) \/ InFeed(FeedNext)]_<<discoveryVars, feedVars, part>>
=============================================================================
