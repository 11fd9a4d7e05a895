--------------------------- MODULE RevisionStream ---------------------------
(***************************************************************************)
(* Processes and ports as the user sees them: RevisionState of             *)
(* crates/supervisor/src/revision.rs numbers every change and serves       *)
(* frozen snapshots page by page; run_bridge_actor of                      *)
(* apps/desktop/src-tauri/src/bridge.rs forwards changes and states of the *)
(* connection; SupervisorSnapshotStoreController of                        *)
(* apps/desktop/src/lib/supervisor.ts rebuilds the collections from a      *)
(* snapshot and the changes that follow it.                                *)
(*                                                                         *)
(* Messages reach the store in the order they were emitted; answers to its *)
(* requests travel beside them and may overtake them.                      *)
(***************************************************************************)
EXTENDS Naturals, Sequences, FiniteSets, Filters

CONSTANT Scenarios   \* bounds; a behaviour keeps to one of them

(* changes: those that are made, of entities there are.  pages: of a      *)
(* snapshot; one entity fills a page.  generations: connections.  faults: *)
(* lost answers and expired sessions.  inbox: events under way to the     *)
(* store.                                                                 *)
ASSUME ScenariosAreBounds ==
  Scenarios \subseteq
    [changes : SUBSET ([kind : {"Upsert", "Remove"}, key : Nat] \cup [kind : {"Log"}, key : {0}]),
     pages : Nat \ {0}, revision : Nat, capacity : Nat \ {0}, buffer : Nat \ {0},
     slots : Nat \ {0}, generations : Nat \ {0}, faults : Nat, inbox : Nat \ {0}]
ASSUME ChangesAreOfEntities ==
  \A s \in Scenarios : \A c \in s.changes : c.kind = "Log" \/ c.key \in 1..s.pages

VARIABLES
  history,     \* changes published by this Supervisor, by revision
  entities,    \* processes and ports, by the revision that last wrote them
  opening,     \* revision a snapshot session was given, before it has its copy
  session,     \* session the store reads; at most one
  abandoned,   \* other sessions that occupy a slot
  link,        \* generation of the connection, 0 without one
  connections, \* number of connections made
  sent,        \* last revision the subscription of this connection handed out
  inbox,       \* messages emitted to the store
  boot,        \* initialize: the first read of the state of the connection
  store,       \* the store
  fetch,       \* its snapshot request in flight
  shown,       \* history: generation and revision last shown as synchronized
  faults,      \* bound on LoseAnswer and ExpireSession
  scenario     \* the element of Scenarios that is kept

server == <<history, entities, opening, session, abandoned>>
bridge == <<link, connections, sent>>
client == <<boot, store, fetch, shown>>
vars   == <<server, bridge, inbox, client, faults, scenario>>

Changes        == scenario.changes
Pages          == scenario.pages
MaxRevision    == scenario.revision     \* MAX_SAFE_REVISION
Capacity       == scenario.capacity     \* REVISION_EVENT_CAPACITY
BufferCapacity == scenario.buffer       \* SUPERVISOR_EVENT_BUFFER_CAPACITY
Slots          == scenario.slots        \* MAX_SNAPSHOT_SESSIONS
MaxGeneration  == scenario.generations
MaxFaults      == scenario.faults
InboxLimit     == scenario.inbox

Entity      == 1..Pages
Revision    == 0..MaxRevision
Generation  == 0..MaxGeneration
Collections == [Entity -> Revision]     \* 0: absent
NoEntities  == [k \in Entity |-> 0]

Change == [kind : {"Upsert", "Remove"}, key : Entity] \cup {[kind |-> "Log", key |-> 0]}
Log    == [kind |-> "Log", key |-> 0]

Message ==
  [kind : {"State"}, generation : Generation]
    \cup [kind : {"Event"}, generation : Generation, revision : Revision, change : Change]

StateMessage(g)   == [kind |-> "State", generation |-> g]
EventMessage(g, r) ==
  [kind |-> "Event", generation |-> g, revision |-> r, change |-> history[r]]

Session == [revision : Revision, entities : Collections]

Idle ==
  [pc |-> "Idle", current |-> FALSE, start |-> 0, page |-> 1, revision |-> 0,
   partial |-> NoEntities, complete |-> FALSE, state |-> 0]

TypeOK ==
  /\ scenario \in Scenarios
  /\ history \in Seq(Change) /\ Len(history) <= MaxRevision
  /\ entities \in Collections
  /\ opening \subseteq Revision /\ session \subseteq Session
  /\ abandoned \in 0..Slots
  /\ abandoned + Cardinality(session) <= Slots
  /\ link \in Generation /\ connections \in Generation
  /\ sent \in 0..Len(history)
  /\ inbox \in Seq(Message)
  /\ boot \in [stage : {"Reading", "Read", "Done"}, state : Generation, moved : BOOLEAN,
               early : Seq(Message), overflow : BOOLEAN]
  /\ store \in [phase : {"Waiting", "Syncing", "Live"}, generation : Generation,
                trusted : Revision, view : Collections, buffered : Seq(Message),
                queued : SUBSET Revision]
  /\ Len(store.buffered) <= BufferCapacity /\ Len(boot.early) <= BufferCapacity
  /\ fetch \in [pc : {"Idle", "Asking", "Reading", "Resuming"}, current : BOOLEAN,
                start : Revision, page : Entity, revision : Revision,
                partial : Collections, complete : BOOLEAN, state : Generation]
  /\ shown \in [generation : Generation, revision : Revision]
  /\ faults \in 0..MaxFaults

Waiting ==
  [phase |-> "Waiting", generation |-> 0, trusted |-> 0, view |-> NoEntities,
   buffered |-> <<>>, queued |-> {}]

(* The window opens while the bridge is connected or not. *)
Init ==
  /\ scenario \in Scenarios
  /\ history = <<>> /\ entities = NoEntities
  /\ opening = {} /\ session = {} /\ abandoned = 0
  /\ link \in {0, 1} /\ connections = link /\ sent = 0
  /\ inbox = <<>>
  /\ boot = [stage |-> "Reading", state |-> 0, moved |-> FALSE, early |-> <<>>, overflow |-> FALSE]
  /\ store = Waiting /\ fetch = Idle
  /\ shown = [generation |-> 0, revision |-> 0]
  /\ faults = 0

Current == Len(history)   \* current_revision

-----------------------------------------------------------------------------
(* The Supervisor. *)

Apply(state, change, r) ==
  CASE change.kind = "Upsert" -> [state EXCEPT ![change.key] = r]
    [] change.kind = "Remove" -> [state EXCEPT ![change.key] = 0]
    [] change.kind = "Log"    -> state

(* next_revision refuses a revision beyond the last one JavaScript counts. *)
Publish(change) ==
  /\ Current < MaxRevision
  /\ history' = Append(history, change)
  /\ UNCHANGED <<opening, session, abandoned, bridge, inbox, client, faults>>

FaultyApplyDelta ==   \* changes the collections under an open snapshot request
  \E change \in Changes \ {Log} :
    Publish(change) /\ entities' = Apply(entities, change, Current + 1)

(* apply_process_delta and apply_port_delta: the actor has one request at a *)
(* time.                                                                    *)
ApplyDelta ==
  /\ opening = {}
  /\ \E change \in Changes \ {Log} :
       Publish(change) /\ entities' = Apply(entities, change, Current + 1)

(* ManagedLogPublisher: log workers number their batches beside the actor. *)
PublishLog == Log \in Changes /\ Publish(Log) /\ UNCHANGED entities

Asked == fetch.pc = "Asking" /\ link # 0

(* start_snapshot_session, under the publication lock ... *)
FixRevision ==
  /\ Asked /\ fetch.page = 1 /\ opening = {}
  /\ fetch.start <= Current
  /\ opening' = {Current}
  /\ UNCHANGED <<history, entities, session, abandoned, bridge, inbox, client, faults>>

SlotIsFree == abandoned + Cardinality(session) < Slots

(* ... and after releasing it; a repeated request opens a new session. *)
OpenSession ==
  \E r \in opening :
    /\ SlotIsFree
    /\ session' = {[revision |-> r, entities |-> entities]}
    /\ abandoned' = abandoned + Cardinality(session)
    /\ opening' = {}
    /\ UNCHANGED <<history, entities>>

Answer(page, s) ==
  fetch' = [fetch EXCEPT !.pc = "Reading", !.partial[page] = s.entities[page],
                         !.revision = s.revision]

FirstPage ==
  /\ opening # {} /\ OpenSession
  /\ \E s \in session' : Answer(1, s)
  /\ UNCHANGED <<bridge, inbox, boot, store, shown, faults>>

(* continue_snapshot_session *)
NextPage ==
  /\ Asked /\ fetch.page > 1
  /\ \E s \in session : Answer(fetch.page, s)
  /\ UNCHANGED <<server, bridge, inbox, boot, store, shown, faults>>

(* The session is there, its answer is not: the request timed out. *)
LoseAnswer ==
  /\ faults < MaxFaults /\ faults' = faults + 1
  /\ opening # {} /\ OpenSession
  /\ UNCHANGED <<bridge, inbox, client>>

(* purge_expired_snapshot_sessions, with every request and change; a    *)
(* session that is still read from expires when the reader is too slow. *)
InUse == fetch.pc # "Idle" /\ ~(fetch.pc = "Asking" /\ fetch.page = 1)

ExpireSession ==
  /\ InUse /\ faults < MaxFaults /\ faults' = faults + 1
  /\ session # {} /\ session' = {}
  /\ UNCHANGED <<history, entities, opening, abandoned, bridge, inbox, client>>

ExpireUnused ==
  /\ \/ abandoned > 0 /\ abandoned' = abandoned - 1 /\ UNCHANGED session
     \/ ~InUse /\ session # {} /\ session' = {} /\ UNCHANGED abandoned
  /\ UNCHANGED <<history, entities, opening, bridge, inbox, client, faults>>

-----------------------------------------------------------------------------
(* The bridge and the connection. *)

(* run_bridge_actor: a fresh connection, generation and subscription *)
Connect ==
  /\ link = 0 /\ connections < MaxGeneration
  /\ connections' = connections + 1 /\ link' = connections'
  /\ sent' = Current
  /\ inbox' = Append(inbox, StateMessage(link'))
  /\ UNCHANGED <<server, client, faults>>

Disconnect ==
  /\ link # 0 /\ connections < MaxGeneration /\ opening = {}
  /\ link' = 0
  /\ inbox' = Append(inbox, StateMessage(0))
  /\ UNCHANGED <<connections, server, sent, client, faults>>

(* A Supervisor that starts again counts from the beginning. *)
Restart ==
  /\ link = 0 /\ Current > 0
  /\ history' = <<>> /\ entities' = NoEntities /\ sent' = 0
  /\ session' = {} /\ abandoned' = 0
  /\ UNCHANGED <<opening, link, connections, inbox, client, faults>>

(* A subscription that lags goes on with the oldest event of the channel. *)
Forward ==
  /\ link # 0 /\ sent < Current
  /\ Len(inbox) < InboxLimit
  /\ sent' = IF Current - sent > Capacity THEN Current - Capacity + 1 ELSE sent + 1
  /\ inbox' = Append(inbox, EventMessage(link, sent'))
  /\ UNCHANGED <<link, connections, server, client, faults>>

-----------------------------------------------------------------------------
(* The store.  Each action is one turn of its event loop. *)

Ask(start) == [Idle EXCEPT !.pc = "Asking", !.current = TRUE, !.start = start]

Fits(events) == IF Len(events) <= BufferCapacity THEN events ELSE <<>>

(* The epoch moves on: what is in flight no longer counts. *)
Superseded(f) == [f EXCEPT !.current = FALSE]

(* beginSync and pumpSync: f is the request in flight *)
BeginSync(f, g, start, seed) ==
  LET busy == f.pc # "Idle" IN
  /\ store' = [phase |-> "Syncing", generation |-> g, trusted |-> 0, view |-> NoEntities,
               buffered |-> Fits(seed), queued |-> IF busy THEN {start} ELSE {}]
  /\ fetch' = IF busy THEN Superseded(f) ELSE Ask(start)

(* publishState *)
Show ==
  shown' = IF store'.phase = "Live"
           THEN [generation |-> store'.generation, revision |-> store'.trusted] ELSE shown

(* invalidateWhileDisconnected *)
Invalidate(f) == store' = Waiting /\ fetch' = Superseded(f)

(* handleConnectionState *)
HandleState(f, g) ==
  IF g = 0 THEN Invalidate(f)
  ELSE IF g = store.generation THEN fetch' = f /\ UNCHANGED store
  ELSE BeginSync(f, g, 0,
         Filtered(boot.early, {i \in DOMAIN boot.early : boot.early[i].generation = g}))

Booted == [stage |-> "Done", state |-> 0, moved |-> FALSE, early |-> <<>>, overflow |-> FALSE]

ReceiveState ==
  /\ inbox # <<>> /\ Head(inbox).kind = "State"
  /\ inbox' = Tail(inbox)
  /\ HandleState(fetch, Head(inbox).generation)
  /\ boot' = IF boot.stage = "Done" THEN boot
             ELSE [boot EXCEPT !.moved = TRUE, !.early = <<>>, !.overflow = FALSE]
  /\ Show
  /\ UNCHANGED <<server, bridge, faults>>

(* initialize: the state is read once, and dropped when an event was faster *)
ReadInitialState ==
  /\ boot.stage = "Reading"
  /\ boot' = [boot EXCEPT !.stage = "Read", !.state = link]
  /\ UNCHANGED <<server, bridge, inbox, store, fetch, shown, faults>>

ResolveInitialState ==
  /\ boot.stage = "Read"
  /\ IF boot.moved THEN UNCHANGED <<store, fetch>> ELSE HandleState(fetch, boot.state)
  /\ boot' = Booted
  /\ Show
  /\ UNCHANGED <<server, bridge, inbox, faults>>

(* bufferInitialEvent *)
BufferEarly(e) ==
  /\ boot' = IF Len(boot.early) >= BufferCapacity
             THEN [boot EXCEPT !.early = <<>>, !.overflow = TRUE]
             ELSE IF boot.overflow THEN boot
             ELSE [boot EXCEPT !.early = Append(@, e)]
  /\ UNCHANGED <<store, fetch>>

(* bufferEvent *)
Buffer(e) ==
  IF Len(store.buffered) >= BufferCapacity
  THEN BeginSync(fetch, store.generation, 0, <<>>)
  ELSE store' = [store EXCEPT !.buffered = Append(@, e)] /\ UNCHANGED fetch

(* an event of a live store: the next one, or a gap *)
Follow(e) ==
  IF e.revision = store.trusted + 1
  THEN /\ store' = [store EXCEPT !.view = Apply(@, e.change, e.revision), !.trusted = e.revision]
       /\ UNCHANGED fetch
  ELSE BeginSync(fetch, store.generation, store.trusted, <<e>>)

(* handleEvent *)
ReceiveEvent ==
  /\ inbox # <<>> /\ Head(inbox).kind = "Event"
  /\ inbox' = Tail(inbox)
  /\ LET e == Head(inbox) IN
     IF store.generation = 0
     THEN IF boot.stage = "Done" THEN UNCHANGED <<boot, store, fetch>> ELSE BufferEarly(e)
     ELSE /\ UNCHANGED boot
          /\ IF e.generation # store.generation
             THEN BeginSync(fetch, store.generation, 0, <<>>)
             ELSE IF store.phase = "Syncing" THEN Buffer(e)
             ELSE Follow(e)
  /\ Show
  /\ UNCHANGED <<server, bridge, faults>>

-----------------------------------------------------------------------------
(* fetchSnapshotChunks and what becomes of it. *)

FaultyPump(queued) ==   \* a request that waits is not sent
  /\ store' = [store EXCEPT !.queued = {}]
  /\ fetch' = Idle

Pump(queued) ==
  /\ store' = [store EXCEPT !.queued = {}]
  /\ fetch' = IF queued = {} THEN Idle ELSE Ask(CHOOSE start \in queued : TRUE)

(* An error that may be retried waits for its timer, unless superseded. *)
RetryLater ==
  IF fetch.current
  THEN store' = [store EXCEPT !.queued = {fetch.start}] /\ fetch' = Idle
  ELSE Pump(store.queued)

RetryTimer ==
  /\ fetch.pc = "Idle" /\ store.queued # {}
  /\ Pump(store.queued)
  /\ Show
  /\ UNCHANGED <<server, bridge, inbox, boot, faults>>

(* the capacity for frozen snapshots is exhausted *)
RefuseSession ==
  /\ opening # {} /\ ~SlotIsFree
  /\ opening' = {}
  /\ RetryLater
  /\ Show
  /\ UNCHANGED <<history, entities, session, abandoned, bridge, inbox, boot, faults>>

(* the frozen session is gone *)
RefusePage ==
  /\ Asked /\ fetch.page > 1 /\ session = {}
  /\ RetryLater
  /\ Show
  /\ UNCHANGED <<server, bridge, inbox, boot, faults>>

(* failSnapshotProtocol: the starting revision is ahead of the Supervisor *)
RefuseStart ==
  /\ Asked /\ fetch.page = 1 /\ opening = {} /\ fetch.start > Current
  /\ IF fetch.current THEN Invalidate(Idle) ELSE Pump(store.queued)
  /\ Show
  /\ UNCHANGED <<server, bridge, inbox, boot, faults>>

(* A request times out or finds no connection: it is repeated while it is *)
(* still wanted.                                                          *)
GiveUp ==
  /\ fetch.pc = "Asking" /\ ~fetch.current /\ opening = {}
  /\ Pump(store.queued)
  /\ Show
  /\ UNCHANGED <<server, bridge, inbox, boot, faults>>

FaultyConfirm ==   \* trusts the state it knows
  /\ fetch.pc = "Reading"
  /\ fetch' = [fetch EXCEPT !.pc = "Resuming", !.state = store.generation]
  /\ UNCHANGED <<server, bridge, inbox, boot, store, shown, faults>>

(* getSupervisorConnectionState, after each page and before acceptance *)
Confirm ==
  /\ fetch.pc = "Reading"
  /\ fetch' = [fetch EXCEPT !.pc = "Resuming", !.state = link]
  /\ UNCHANGED <<server, bridge, inbox, boot, store, shown, faults>>

AcceptedPage ==
  fetch' = IF fetch.page < Pages
           THEN [fetch EXCEPT !.pc = "Asking", !.page = @ + 1]
           ELSE [fetch EXCEPT !.pc = "Reading", !.complete = TRUE]

(* acceptSnapshot: changes beyond the snapshot are replayed, if they *)
(* follow it without a gap                                           *)
Replayed ==
  Filtered(store.buffered,
           {i \in DOMAIN store.buffered : store.buffered[i].revision > fetch.revision})

(* applyEvent for one after the other: the last one of an entity counts *)
Replay(state, events) ==
  [k \in DOMAIN state |->
     LET touching == {i \in DOMAIN events : events[i].change.key = k}
         last == events[CHOOSE i \in touching : \A j \in touching : j <= i]
     IN IF touching = {} THEN state[k]
        ELSE IF last.change.kind = "Upsert" THEN last.revision ELSE 0]

AcceptSnapshot ==
  IF \E i \in DOMAIN store.buffered : store.buffered[i].generation # store.generation
  THEN BeginSync(Idle, store.generation, 0, <<>>)
  ELSE IF \E i \in DOMAIN Replayed : Replayed[i].revision # fetch.revision + i
  THEN BeginSync(Idle, store.generation, fetch.revision, <<>>)
  ELSE /\ store' = [store EXCEPT
              !.phase = "Live", !.buffered = <<>>, !.trusted = fetch.revision + Len(Replayed),
              !.view = Replay(fetch.partial, Replayed)]
       /\ fetch' = Idle

Resume ==
  /\ fetch.pc = "Resuming"
  /\ IF ~fetch.current THEN Pump(store.queued)
     ELSE IF fetch.state # store.generation THEN HandleState(Idle, fetch.state)
     ELSE IF fetch.complete THEN AcceptSnapshot
     ELSE AcceptedPage /\ UNCHANGED store
  /\ Show
  /\ UNCHANGED <<server, bridge, inbox, boot, faults>>

-----------------------------------------------------------------------------
Serve   == FixRevision \/ FirstPage \/ NextPage \/ RefuseSession \/ RefusePage \/ RefuseStart
Receive == ReceiveState \/ ReceiveEvent
Sync    == RetryTimer \/ GiveUp \/ Confirm \/ Resume

Next ==
  /\ \/ ApplyDelta \/ PublishLog \/ Connect \/ Disconnect \/ Restart \/ Forward
     \/ Serve \/ LoseAnswer \/ ExpireSession \/ ExpireUnused
     \/ ReadInitialState \/ ResolveInitialState \/ Receive \/ Sync
  /\ UNCHANGED scenario

Spec == Init /\ [][Next]_vars

(* The bridge connects again for ever, requests are answered or time out, *)
(* sessions expire, and the event loop of the window runs.                *)
Fairness ==
  /\ WF_vars(Connect /\ UNCHANGED scenario)
  /\ WF_vars(Forward /\ UNCHANGED scenario)
  /\ WF_vars(Serve /\ UNCHANGED scenario)
  /\ WF_vars(ExpireUnused /\ UNCHANGED scenario)
  /\ WF_vars((ReadInitialState \/ ResolveInitialState) /\ UNCHANGED scenario)
  /\ WF_vars(Receive /\ UNCHANGED scenario)
  /\ WF_vars(Sync /\ UNCHANGED scenario)

FairSpec == Spec /\ Fairness

-----------------------------------------------------------------------------
(* Properties. *)

(* what the collections were at each revision of this Supervisor *)
StateAt(r) ==
  [k \in Entity |->
     LET writes == {i \in 1..r : history[i].key = k}
         last == CHOOSE i \in writes : \A j \in writes : j <= i
     IN IF writes # {} /\ history[last].kind = "Upsert" THEN last ELSE 0]

Live == store.phase = "Live"

(* A synchronized store shows exactly what the Supervisor's collections   *)
(* were at the revision it shows: no change is missed, applied twice or   *)
(* taken from another connection, through gaps, overflows and reconnects. *)
(* And it never provokes a protocol error from a Supervisor that is still *)
(* the one it synchronizes with: it never asks beyond its revision and    *)
(* never gets a snapshot older than what it asked for.                    *)
LiveViewIsServerState ==
  /\ TypeOK
  /\ Live /\ store.generation = link =>
       store.trusted <= Current /\ store.view = StateAt(store.trusted)
  /\ fetch.pc # "Idle" /\ fetch.current /\ store.generation = link =>
       /\ fetch.start <= Current
       /\ fetch.pc = "Resuming" /\ fetch.state = link => fetch.revision >= fetch.start

(* What the user sees never goes back to an earlier revision of the same *)
(* connection or to an earlier connection, whatever arrives late.        *)
ShownNeverGoesBack ==
  [][\/ shown'.generation > shown.generation
     \/ shown'.generation = shown.generation /\ shown'.revision >= shown.revision]_shown

(* When changes and failures end, the store shows the last revision. *)
CatchesUp ==
  <>[](link # 0 /\ Live /\ store.generation = link /\ store.trusted = Current)

=============================================================================
