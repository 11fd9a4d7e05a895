----------------------- MODULE RevisionStream_proofs -----------------------
(***************************************************************************)
(* A synchronized store shows the Supervisor's collections of the revision *)
(* it shows, and what the user sees never goes back.  What a subscriber of *)
(* discovery is told is the host's state, whichever scans, enrichments and *)
(* sweeps come in which order, and however its changes are packed.         *)
(***************************************************************************)
EXTENDS RevisionStream, DiscoveryFeed, Filters_proofs, FiniteSetTheorems, SequenceTheorems, WellFoundedInduction, TLAPS

------------------------------------------------------------
(* The collections at a revision. *)

Writes(h, r, k) == {i \in 1..r : h[i].key = k}
IsLast(m, at)   == m \in at /\ \A j \in at : j <= m

Collected(h, n, r) ==
  [k \in 1..n |->
     LET writes == {i \in 1..r : h[i].key = k}
         last == CHOOSE i \in writes : \A j \in writes : j <= i
     IN IF writes # {} /\ h[last].kind = "Upsert" THEN last ELSE 0]

LEMMA LastExists ==
  ASSUME NEW n \in Nat, NEW at \in SUBSET (1..n), at # {}
  PROVE  \E m \in 1..n : IsLast(m, at)
BY LargestExists DEF IsLast

(* The last position with a property is the one no other is after. *)
LEMMA LastIs ==
  ASSUME NEW n \in Nat, NEW at \in SUBSET (1..n), NEW m, IsLast(m, at)
  PROVE  (CHOOSE i \in at : \A j \in at : j <= i) = m
<1> DEFINE last == CHOOSE i \in at : \A j \in at : j <= i
<1>1. last \in at /\ \A j \in at : j <= last
  BY DEF IsLast
<1>2. last <= m /\ m <= last /\ m \in at
  BY <1>1 DEF IsLast
<1> HIDE DEF last
<1>3. last \in 1..n /\ m \in 1..n
  BY <1>1, <1>2
<1>4. last = m
  BY <1>2, <1>3
<1> QED BY <1>4 DEF last

(* An entity is absent unless its last write brought it. *)
LEMMA CollectedIs ==
  ASSUME NEW h, NEW n \in Nat, NEW r \in Nat, NEW k \in 1..n
  PROVE  /\ Writes(h, r, k) = {} => Collected(h, n, r)[k] = 0
         /\ \A m : IsLast(m, Writes(h, r, k)) =>
              Collected(h, n, r)[k] = IF h[m].kind = "Upsert" THEN m ELSE 0
<1> DEFINE writes == {i \in 1..r : h[i].key = k}
           last == CHOOSE i \in writes : \A j \in writes : j <= i
<1>1. Collected(h, n, r)[k] = IF writes # {} /\ h[last].kind = "Upsert" THEN last ELSE 0
  BY DEF Collected
<1>2. writes = Writes(h, r, k) /\ writes \in SUBSET (1..r)
  BY DEF Writes
<1>3. ASSUME NEW m, IsLast(m, writes)
      PROVE  Collected(h, n, r)[k] = IF h[m].kind = "Upsert" THEN m ELSE 0
  <2>1. last = m
    <3> HIDE DEF writes
    <3> QED BY <1>2, <1>3, LastIs
  <2>2. writes # {}
    BY <1>3 DEF IsLast
  <2> HIDE DEF writes, last
  <2> QED BY <1>1, <2>1, <2>2
<1>4. ASSUME writes = {} PROVE Collected(h, n, r)[k] = 0
  <2> HIDE DEF writes, last
  <2> QED BY <1>1, <1>4
<1> HIDE DEF writes
<1> QED BY <1>2, <1>3, <1>4

LEMMA Written ==
  ASSUME NEW h, NEW r \in Nat, NEW k
  PROVE  Writes(h, r, k) = {} \/ \E m \in 1..r : IsLast(m, Writes(h, r, k))
BY LastExists DEF Writes

LEMMA CollectedType ==
  ASSUME NEW h, NEW n \in Nat, NEW r \in Nat
  PROVE  Collected(h, n, r) \in [1..n -> 0..r]
<1> DEFINE c == Collected(h, n, r)
<1>1. ASSUME NEW k \in 1..n PROVE c[k] \in 0..r
  <2>1. CASE Writes(h, r, k) = {}
    <3>1. Collected(h, n, r)[k] = 0
      BY <2>1, CollectedIs
    <3> QED BY <3>1
  <2>2. ASSUME NEW m \in 1..r, IsLast(m, Writes(h, r, k)) PROVE c[k] \in 0..r
    <3>1. Collected(h, n, r)[k] = IF h[m].kind = "Upsert" THEN m ELSE 0
      BY <2>2, CollectedIs
    <3> HIDE DEF c
    <3>2. Collected(h, n, r)[k] \in 0..r
      BY <3>1
    <3> QED BY <3>2 DEF c
  <2> QED BY <2>1, <2>2, Written
<1>2. c = [k \in 1..n |-> c[k]]
  BY DEF Collected
<1> HIDE DEF c
<1>3. c \in [1..n -> 0..r]
  BY <1>1, <1>2
<1> QED BY <1>3 DEF c

LEMMA CollectedEqual ==
  ASSUME NEW h, NEW n \in Nat, NEW r \in Nat,
         NEW f, f = [k \in 1..n |-> f[k]], \A k \in 1..n : f[k] = Collected(h, n, r)[k]
  PROVE  f = Collected(h, n, r)
<1> DEFINE c == Collected(h, n, r)
<1>1. c = [k \in 1..n |-> c[k]]
  BY DEF Collected
<1>2. \A k \in 1..n : f[k] = c[k]
  OBVIOUS
<1> HIDE DEF c
<1>3. f = c
  BY <1>1, <1>2
<1> QED BY <1>3 DEF c

(* An entity that has the same writes is the same. *)
LEMMA CollectedSame ==
  ASSUME NEW h, NEW g, NEW n \in Nat, NEW r \in Nat, NEW s \in Nat, NEW k \in 1..n,
         Writes(g, s, k) = Writes(h, r, k),
         \A m \in Writes(h, r, k) : g[m] = h[m]
  PROVE  Collected(g, n, s)[k] = Collected(h, n, r)[k]
<1>1. CASE Writes(h, r, k) = {}
  <2>1. Collected(h, n, r)[k] = 0
    BY <1>1, CollectedIs
  <2>2. Collected(g, n, s)[k] = 0
    BY <1>1, CollectedIs
  <2> QED BY <2>1, <2>2
<1>2. ASSUME NEW m \in 1..r, IsLast(m, Writes(h, r, k))
      PROVE  Collected(g, n, s)[k] = Collected(h, n, r)[k]
  <2>1. Collected(h, n, r)[k] = IF h[m].kind = "Upsert" THEN m ELSE 0
    BY <1>2, CollectedIs
  <2>2. Collected(g, n, s)[k] = IF g[m].kind = "Upsert" THEN m ELSE 0
    BY <1>2, CollectedIs
  <2>3. m \in Writes(h, r, k)
    BY <1>2 DEF IsLast
  <2> QED BY <2>1, <2>2, <2>3
<1> QED BY <1>1, <1>2, Written

LEMMA CollectedUntouched ==
  ASSUME NEW h, NEW n \in Nat, NEW r \in Nat, NEW s \in Nat, NEW k \in 1..n,
         Writes(h, s, k) = Writes(h, r, k)
  PROVE  Collected(h, n, s)[k] = Collected(h, n, r)[k]
BY CollectedSame

(* Later changes leave the collections of a revision as they were. *)
LEMMA CollectedStays ==
  ASSUME NEW h, NEW g, NEW n \in Nat, NEW r \in Nat, \A i \in 1..r : g[i] = h[i]
  PROVE  Collected(g, n, r) = Collected(h, n, r)
<1> DEFINE c == Collected(g, n, r)
<1>1. ASSUME NEW k \in 1..n PROVE c[k] = Collected(h, n, r)[k]
  <2>1. Writes(g, r, k) = Writes(h, r, k)
    BY DEF Writes
  <2>2. \A m \in Writes(h, r, k) : g[m] = h[m]
    BY DEF Writes
  <2> QED BY <2>1, <2>2, CollectedSame
<1>2. c = [k \in 1..n |-> c[k]]
  BY DEF Collected
<1> HIDE DEF c
<1>3. c = Collected(h, n, r)
  BY <1>1, <1>2, CollectedEqual
<1> QED BY <1>3 DEF c

LEMMA CollectedAtFirst ==
  ASSUME NEW h, NEW n \in Nat
  PROVE  Collected(h, n, 0) = [k \in 1..n |-> 0]
<1> DEFINE f == [k \in 1..n |-> 0]
<1>1. ASSUME NEW k \in 1..n PROVE f[k] = Collected(h, n, 0)[k]
  <2>1. 0 \in Nat /\ Writes(h, 0, k) = {}
    BY DEF Writes
  <2>2. Collected(h, n, 0)[k] = 0
    BY <2>1, CollectedIs
  <2> QED BY <2>2
<1>2. f = [k \in 1..n |-> f[k]]
  OBVIOUS
<1>3. 0 \in Nat
  OBVIOUS
<1> HIDE DEF f
<1>4. f = Collected(h, n, 0)
  BY <1>1, <1>2, <1>3, CollectedEqual
<1> QED BY <1>4 DEF f

(* Events that follow revision r without a gap rebuild the collections of *)
(* the revision they reach.                                               *)
Replaying(n, state, events) ==
  [k \in 1..n |->
     LET touching == {i \in DOMAIN events : events[i].change.key = k}
         last == events[CHOOSE i \in touching : \A j \in touching : j <= i]
     IN IF touching = {} THEN state[k]
        ELSE IF last.change.kind = "Upsert" THEN last.revision ELSE 0]

Touching(events, k) == {i \in DOMAIN events : events[i].change.key = k}

LEMMA ReplayingIs ==
  ASSUME NEW n \in Nat, NEW l \in Nat, NEW events, NEW state, DOMAIN events = 1..l,
         NEW k \in 1..n
  PROVE  /\ Touching(events, k) \in SUBSET (1..l)
         /\ Touching(events, k) = {} => Replaying(n, state, events)[k] = state[k]
         /\ \A m : IsLast(m, Touching(events, k)) =>
              Replaying(n, state, events)[k] =
                IF events[m].change.kind = "Upsert" THEN events[m].revision ELSE 0
<1> DEFINE touching == Touching(events, k)
           last == CHOOSE i \in touching : \A j \in touching : j <= i
<1>1. Replaying(n, state, events)[k] =
        IF touching = {} THEN state[k]
        ELSE IF events[last].change.kind = "Upsert" THEN events[last].revision ELSE 0
  BY DEF Replaying, Touching
<1>2. touching \in SUBSET (1..l)
  BY DEF Touching
<1>3. ASSUME NEW m, IsLast(m, touching)
      PROVE  /\ last = m
             /\ touching # {}
  BY <1>2, <1>3, LastIs DEF IsLast
<1> HIDE DEF touching, last
<1>4. touching = {} => Replaying(n, state, events)[k] = state[k]
  BY <1>1
<1>5. \A m : IsLast(m, touching) =>
        Replaying(n, state, events)[k] =
          IF events[m].change.kind = "Upsert" THEN events[m].revision ELSE 0
  BY <1>1, <1>3
<1> QED BY <1>2, <1>4, <1>5 DEF touching

Follows(events, l, h, r) ==
  DOMAIN events = 1..l
    /\ \A i \in 1..l : events[i].revision = r + i /\ events[i].change = h[r + i]
Holds(state, h, n, r) == \A k \in 1..n : state[k] = Collected(h, n, r)[k]

LEMMA ReplayRebuilds ==
  ASSUME NEW h, NEW n \in Nat, NEW r \in Nat, NEW l \in Nat, NEW events, NEW state,
         Follows(events, l, h, r), Holds(state, h, n, r)
  PROVE  Replaying(n, state, events) = Collected(h, n, r + l)
<1> DEFINE f == Replaying(n, state, events)
<1> SUFFICES ASSUME DOMAIN events = 1..l,
                    \A i \in 1..l : events[i].revision = r + i /\ events[i].change = h[r + i],
                    \A k \in 1..n : state[k] = Collected(h, n, r)[k]
             PROVE  f = Collected(h, n, r + l)
  BY DEF Follows, Holds
<1>0. r + l \in Nat
  OBVIOUS
<1>1. ASSUME NEW k \in 1..n PROVE f[k] = Collected(h, n, r + l)[k]
  <2>1. ASSUME NEW m \in 1..l, IsLast(m, Touching(events, k))
        PROVE  f[k] = Collected(h, n, r + l)[k]
    <3>1. events[m].revision = r + m /\ events[m].change = h[r + m] /\ h[r + m].key = k
      BY <2>1 DEF IsLast, Touching
    <3>2. r + m \in Writes(h, r + l, k)
      BY <3>1 DEF Writes
    <3>3. ASSUME NEW j \in Writes(h, r + l, k) PROVE j <= r + m
      <4>1. j \in 1..(r + l) /\ h[j].key = k
        BY DEF Writes
      <4>2. CASE j <= r
        BY <4>1, <4>2
      <4>3. CASE ~ (j <= r)
        <5>1. j - r \in 1..l /\ r + (j - r) = j
          BY <4>1, <4>3
        <5>2. events[j - r].change = h[r + (j - r)]
          BY <5>1
        <5>3. j - r \in Touching(events, k)
          BY <5>1, <5>2, <4>1 DEF Touching
        <5>4. j - r <= m
          BY <2>1, <5>3 DEF IsLast
        <5> QED BY <5>4, <5>1, <4>1
      <4> QED BY <4>2, <4>3
    <3>4. IsLast(r + m, Writes(h, r + l, k))
      BY <3>2, <3>3 DEF IsLast
    <3>5. Collected(h, n, r + l)[k] = IF h[r + m].kind = "Upsert" THEN r + m ELSE 0
      BY <1>0, <3>4, CollectedIs
    <3>6. f[k] = IF events[m].change.kind = "Upsert" THEN events[m].revision ELSE 0
      BY <2>1, ReplayingIs
    <3> QED BY <3>1, <3>5, <3>6
  <2>2. ASSUME Touching(events, k) = {} PROVE f[k] = Collected(h, n, r + l)[k]
    <3>1. ASSUME NEW j \in 1..(r + l), h[j].key = k PROVE j \in 1..r
      <4>1. CASE ~ (j <= r)
        <5>1. j - r \in 1..l /\ r + (j - r) = j
          BY <4>1
        <5>2. events[j - r].change = h[r + (j - r)]
          BY <5>1
        <5>3. j - r \in Touching(events, k)
          BY <5>1, <5>2, <3>1 DEF Touching
        <5> QED BY <5>3, <2>2
      <4> QED BY <4>1
    <3>2. 1..r \subseteq 1..(r + l)
      OBVIOUS
    <3>3. Writes(h, r + l, k) = Writes(h, r, k)
      BY <3>1, <3>2 DEF Writes
    <3>4. Collected(h, n, r + l)[k] = Collected(h, n, r)[k]
      BY <1>0, <3>3, CollectedUntouched
    <3>5. f[k] = state[k]
      BY <2>2, ReplayingIs
    <3> QED BY <3>4, <3>5
  <2>3. Touching(events, k) \in SUBSET (1..l)
    BY ReplayingIs
  <2>4. Touching(events, k) # {} => \E m \in 1..l : IsLast(m, Touching(events, k))
    BY <2>3, LastExists
  <2> QED BY <2>1, <2>2, <2>4
<1>2. f = [k \in 1..n |-> f[k]]
  BY DEF Replaying
<1> HIDE DEF f
<1>3. f = Collected(h, n, r + l)
  BY <1>0, <1>1, <1>2, CollectedEqual
<1> QED BY <1>3 DEF f

(* One more change is what Apply makes of it. *)
LEMMA CollectedGrows ==
  ASSUME NEW h, NEW n \in Nat, NEW r \in Nat,
         \/ h[r + 1].kind = "Log" /\ h[r + 1].key = 0
         \/ h[r + 1].kind \in {"Upsert", "Remove"} /\ h[r + 1].key \in 1..n
  PROVE  Collected(h, n, r + 1) = Apply(Collected(h, n, r), h[r + 1], r + 1)
<1> DEFINE c == h[r + 1]
           old == Collected(h, n, r)
           new == Apply(old, c, r + 1)
<1>1. r + 1 \in Nat
  OBVIOUS
<1>2. old = [k \in 1..n |-> old[k]]
  BY DEF Collected
<1>3. new = [k \in 1..n |-> IF c.key = k THEN IF c.kind = "Upsert" THEN r + 1 ELSE 0
                            ELSE old[k]]
  <2> HIDE DEF old, c
  <2>1. CASE c.kind = "Log" /\ c.key = 0
    BY <2>1, <1>2 DEF Apply
  <2>2. CASE c.kind = "Upsert" /\ c.key \in 1..n
    BY <2>2, <1>2 DEF Apply
  <2>3. CASE c.kind = "Remove" /\ c.key \in 1..n
    BY <2>3, <1>2 DEF Apply
  <2>4. \/ c.kind = "Log" /\ c.key = 0
        \/ c.kind = "Upsert" /\ c.key \in 1..n
        \/ c.kind = "Remove" /\ c.key \in 1..n
    BY DEF c
  <2> QED BY <2>1, <2>2, <2>3, <2>4
<1>4. ASSUME NEW k \in 1..n PROVE new[k] = Collected(h, n, r + 1)[k]
  <2>1. CASE c.key = k
    <3>1. IsLast(r + 1, Writes(h, r + 1, k))
      BY <2>1 DEF IsLast, Writes
    <3>2. Collected(h, n, r + 1)[k] = IF c.kind = "Upsert" THEN r + 1 ELSE 0
      BY <1>1, <3>1, CollectedIs
    <3> HIDE DEF new, c
    <3> QED BY <1>3, <2>1, <3>2
  <2>2. CASE c.key # k
    <3>1. \A i \in 1..(r + 1) : i \in 1..r \/ i = r + 1
      OBVIOUS
    <3>2. Writes(h, r + 1, k) = Writes(h, r, k)
      BY <2>2, <3>1 DEF Writes
    <3>3. Collected(h, n, r + 1)[k] = old[k]
      BY <1>1, <3>2, CollectedSame
    <3> HIDE DEF new, c, old
    <3> QED BY <1>3, <2>2, <3>3
  <2> QED BY <2>1, <2>2
<1> HIDE DEF old, c, new
<1>5. new = [k \in 1..n |-> new[k]]
  BY <1>3
<1>6. new = Collected(h, n, r + 1)
  BY <1>1, <1>4, <1>5, CollectedEqual
<1> QED BY <1>6 DEF new, old, c

------------------------------------------------------------
(* The inductive invariant. *)

At(r) == Collected(history, Pages, r)

(* The Supervisor: collections, sessions and connection go with the *)
(* history.                                                         *)
Frozen(r) == [revision |-> r, entities |-> At(r)]

ServerInv ==
  /\ scenario \in Scenarios
  /\ history \in Seq(Change) /\ Current <= MaxRevision
  /\ entities = At(Current)
  /\ session = {} \/ \E r \in 0..Current : session = {Frozen(r)}
  /\ abandoned \in Nat /\ abandoned + Cardinality(session) <= Slots
  /\ connections \in Generation /\ link \in {0, connections}
  /\ sent \in 0..Current
  /\ faults \in 0..MaxFaults

(* A session that is being opened gets the collections of its revision, and *)
(* serves a request that starts before it.                                  *)
OpeningInv ==
  \A r \in opening :
    /\ opening = {r} /\ r \in 0..Current /\ fetch.start <= r
    /\ entities = At(r)
    /\ link # 0 /\ fetch.pc = "Asking" /\ fetch.page = 1
    /\ shown.generation = link => shown.revision <= r

(* An event of the present connection is of the history. *)
Genuine(m) ==
  /\ m.generation <= connections
  /\ m.kind = "Event" =>
       /\ m.generation # 0
       /\ m.generation = link => m.revision \in 1..Current /\ m.change = history[m.revision]

GenuineMessages == {m \in Message : Genuine(m)}
GenuineEvents   == {m \in GenuineMessages : m.kind = "Event"}

MailInv ==
  /\ inbox \in Seq(GenuineMessages)
  /\ boot = [stage |-> boot.stage, state |-> boot.state, moved |-> boot.moved,
             early |-> boot.early, overflow |-> boot.overflow]
  /\ boot.stage \in {"Reading", "Read", "Done"} /\ boot.state \in 0..connections
  /\ boot.moved \in BOOLEAN /\ boot.overflow \in BOOLEAN
  /\ boot.early \in Seq(GenuineEvents) /\ Len(boot.early) <= BufferCapacity

StoreType ==
  /\ store = [phase |-> store.phase, generation |-> store.generation,
              trusted |-> store.trusted, view |-> store.view,
              buffered |-> store.buffered, queued |-> store.queued]
  /\ store.phase \in {"Waiting", "Syncing", "Live"}
  /\ store.generation \in 0..connections /\ store.trusted \in Revision
  /\ store.view \in Collections /\ store.queued \subseteq Revision
  /\ store.buffered \in Seq(GenuineEvents) /\ Len(store.buffered) <= BufferCapacity

FetchType ==
  /\ fetch = [pc |-> fetch.pc, current |-> fetch.current, start |-> fetch.start,
              page |-> fetch.page, revision |-> fetch.revision, partial |-> fetch.partial,
              complete |-> fetch.complete, state |-> fetch.state]
  /\ fetch.pc \in {"Idle", "Asking", "Reading", "Resuming"}
  /\ fetch.current \in BOOLEAN /\ fetch.complete \in BOOLEAN
  /\ fetch.start \in Revision /\ fetch.page \in Entity /\ fetch.revision \in Revision
  /\ fetch.partial \in Collections /\ fetch.state \in 0..connections

ShownType ==
  /\ shown = [generation |-> shown.generation, revision |-> shown.revision]
  /\ shown.generation \in 0..connections /\ shown.revision \in Revision

(* The phases of the store and of its request. *)
PhaseInv ==
  /\ store.phase = "Waiting" <=> store.generation = 0
  /\ store.queued # {} => store.phase = "Syncing"
  /\ fetch.pc = "Idle" => ~ fetch.current
  /\ fetch.current => store.phase = "Syncing" /\ store.queued = {}
  /\ store.phase = "Live" => fetch.pc = "Idle"
  /\ fetch.complete => fetch.page = Pages /\ fetch.pc \in {"Reading", "Resuming"}

(* A request that still counts is for the connection there is. *)
Fresh == fetch.current /\ store.generation = link
Answered == fetch.pc \in {"Reading", "Resuming"}
HasRevision == Answered \/ (fetch.pc = "Asking" /\ fetch.page > 1)
IsRead(k) == k < fetch.page \/ (k = fetch.page /\ Answered)

(* Its pages are the collections of one revision, not before its start. *)
FetchInv ==
  /\ Fresh => fetch.start <= Current
  /\ store.generation = link => \A start \in store.queued : start <= Current
  /\ Fresh /\ HasRevision =>
       /\ fetch.start <= fetch.revision /\ fetch.revision <= Current
       /\ \A k \in Entity : IsRead(k) => fetch.partial[k] = At(fetch.revision)[k]
       /\ \A s \in session : s.revision = fetch.revision

LiveInv ==
  Live /\ store.generation = link =>
    store.trusted <= Current /\ store.view = At(store.trusted)

(* What is shown is not beyond what can be shown next. *)
ShownInv ==
  /\ Live => shown = [generation |-> store.generation, revision |-> store.trusted]
  /\ link # 0 /\ shown.generation = link => shown.revision <= Current
  /\ Fresh /\ HasRevision /\ shown.generation = link => shown.revision <= fetch.revision
  /\ fetch.pc = "Resuming" /\ fetch.current /\ fetch.state = store.generation =>
       /\ shown.generation <= fetch.state
       /\ shown.generation = fetch.state => shown.revision <= fetch.revision

ClientInv ==
  StoreType /\ FetchType /\ ShownType /\ PhaseInv /\ FetchInv /\ LiveInv /\ ShownInv

StreamInv == ServerInv /\ OpeningInv /\ MailInv /\ ClientInv

------------------------------------------------------------
(* What the invariant says. *)

Bounds ==
  /\ Pages \in Nat \ {0} /\ MaxRevision \in Nat /\ Capacity \in Nat \ {0}
  /\ BufferCapacity \in Nat \ {0} /\ Slots \in Nat \ {0}
  /\ MaxGeneration \in Nat \ {0} /\ MaxFaults \in Nat /\ InboxLimit \in Nat \ {0}

LEMMA ScenarioHasBounds ==
  ASSUME scenario \in Scenarios
  PROVE  Bounds /\ Changes \subseteq Change
<1>1. scenario \in
        [changes : SUBSET ([kind : {"Upsert", "Remove"}, key : Nat]
                             \cup [kind : {"Log"}, key : {0}]),
         pages : Nat \ {0}, revision : Nat, capacity : Nat \ {0}, buffer : Nat \ {0},
         slots : Nat \ {0}, generations : Nat \ {0}, faults : Nat, inbox : Nat \ {0}]
  BY ScenariosAreBounds
<1>2. Bounds
  BY <1>1 DEF Bounds, Pages, MaxRevision, Capacity, BufferCapacity, Slots, MaxGeneration,
              MaxFaults, InboxLimit
<1>3. ASSUME NEW c \in scenario.changes PROVE c \in Change
  <2>1. c \in [kind : {"Upsert", "Remove"}, key : Nat] \cup [kind : {"Log"}, key : {0}]
    BY <1>1
  <2>2. c.kind = "Log" \/ c.key \in 1..scenario.pages
    BY ChangesAreOfEntities
  <2>3. CASE c \in [kind : {"Log"}, key : {0}]
    BY <2>3 DEF Change
  <2>4. CASE c \in [kind : {"Upsert", "Remove"}, key : Nat]
    <3>1. c.kind # "Log"
      BY <2>4
    <3>2. c.key \in 1..scenario.pages
      BY <2>2, <3>1
    <3>3. c \in [kind : {"Upsert", "Remove"}, key : 1..scenario.pages]
      BY <2>4, <3>2
    <3> QED BY <3>3 DEF Change, Entity, Pages
  <2> QED BY <2>1, <2>3, <2>4
<1> QED BY <1>2, <1>3 DEF Changes

LEMMA StateAtIs ==
  \A r : StateAt(r) = At(r)
BY DEF StateAt, At, Collected, Entity

LEMMA AtType ==
  ASSUME scenario \in Scenarios, NEW r \in Revision
  PROVE  At(r) \in Collections
<1>1. Pages \in Nat /\ MaxRevision \in Nat
  BY ScenarioHasBounds DEF Bounds
<1>2. r \in 0..MaxRevision /\ r \in Nat
  BY <1>1 DEF Revision
<1>3. Collected(history, Pages, r) \in [1..Pages -> 0..r]
  BY <1>1, <1>2, CollectedType
<1>4. 0..r \subseteq 0..MaxRevision
  BY <1>1, <1>2
<1>5. Collected(history, Pages, r) \in [1..Pages -> 0..MaxRevision]
  BY <1>3, <1>4
<1> QED BY <1>5 DEF At, Collections, Entity, Revision

LEMMA SessionSize ==
  ASSUME ServerInv
  PROVE  /\ IsFiniteSet(session) /\ Cardinality(session) \in 0..1
         /\ session = {} <=> Cardinality(session) = 0
<1>1. CASE session = {}
  BY <1>1, FS_EmptySet
<1>2. ASSUME NEW r, session = {Frozen(r)}
      PROVE  IsFiniteSet(session) /\ Cardinality(session) = 1 /\ session # {}
  BY <1>2, FS_Singleton
<1> QED BY <1>1, <1>2 DEF ServerInv

LEMMA MailIsTyped ==
  /\ \A s \in Seq(GenuineMessages) : s \in Seq(Message)
  /\ \A s \in Seq(GenuineEvents) : s \in Seq(Message) /\ s \in Seq(GenuineMessages)
BY SeqMonotonic DEF GenuineMessages, GenuineEvents

LEMMA InvIsTyped == StreamInv => TypeOK
<1> SUFFICES ASSUME StreamInv PROVE TypeOK
  OBVIOUS
<1>1. Bounds
  BY ScenarioHasBounds DEF StreamInv, ServerInv
<1>2. Current \in Nat /\ Current <= MaxRevision /\ Current \in Revision
  BY <1>1 DEF StreamInv, ServerInv, Current, Revision, Bounds
<1>3. scenario \in Scenarios /\ history \in Seq(Change) /\ Len(history) <= MaxRevision
  BY DEF StreamInv, ServerInv, Current
<1>4. entities \in Collections
  BY <1>2, <1>3, AtType DEF StreamInv, ServerInv
<1>5. opening \subseteq Revision
  BY <1>1, <1>2 DEF StreamInv, OpeningInv, Revision, Bounds
<1>6. session \subseteq Session
  <2>1. ASSUME NEW r \in 0..Current PROVE Frozen(r) \in Session
    BY <1>1, <1>2, <1>3, AtType DEF Revision, Bounds, Session, Frozen
  <2> QED BY <2>1 DEF StreamInv, ServerInv
<1>7. abandoned \in 0..Slots /\ abandoned + Cardinality(session) <= Slots
  BY <1>1, SessionSize DEF StreamInv, ServerInv, Bounds
<1>8. connections \in Generation /\ link \in Generation /\ MaxGeneration \in Nat
  BY <1>1 DEF StreamInv, ServerInv, Generation, Bounds
<1>9. sent \in 0..Len(history) /\ faults \in 0..MaxFaults
  BY DEF StreamInv, ServerInv, Current
<1>10. 0..connections \subseteq Generation
  BY <1>8 DEF Generation
<1>11. inbox \in Seq(Message)
  BY MailIsTyped DEF StreamInv, MailInv
<1>12. /\ boot \in [stage : {"Reading", "Read", "Done"}, state : Generation, moved : BOOLEAN,
                    early : Seq(Message), overflow : BOOLEAN]
       /\ Len(boot.early) <= BufferCapacity
  BY <1>10, MailIsTyped DEF StreamInv, MailInv
<1>13. /\ store \in [phase : {"Waiting", "Syncing", "Live"}, generation : Generation,
                     trusted : Revision, view : Collections, buffered : Seq(Message),
                     queued : SUBSET Revision]
       /\ Len(store.buffered) <= BufferCapacity
  BY <1>10, MailIsTyped DEF StreamInv, ClientInv, StoreType
<1>14. fetch \in [pc : {"Idle", "Asking", "Reading", "Resuming"}, current : BOOLEAN,
                  start : Revision, page : Entity, revision : Revision,
                  partial : Collections, complete : BOOLEAN, state : Generation]
  BY <1>10 DEF StreamInv, ClientInv, FetchType
<1>15. shown \in [generation : Generation, revision : Revision]
  BY <1>10 DEF StreamInv, ClientInv, ShownType
<1> QED BY <1>3, <1>4, <1>5, <1>6, <1>7, <1>8, <1>9, <1>11, <1>12, <1>13, <1>14, <1>15
       DEF TypeOK

LEMMA InvIsTrustworthy == StreamInv => LiveViewIsServerState
<1> SUFFICES ASSUME StreamInv PROVE LiveViewIsServerState
  OBVIOUS
<1>1. TypeOK
  BY InvIsTyped
<1>2. Live /\ store.generation = link =>
        store.trusted <= Current /\ store.view = StateAt(store.trusted)
  BY StateAtIs DEF StreamInv, ClientInv, LiveInv
<1>3. ASSUME fetch.pc # "Idle", fetch.current, store.generation = link
      PROVE  /\ fetch.start <= Current
             /\ fetch.pc = "Resuming" /\ fetch.state = link => fetch.revision >= fetch.start
  <2>1. fetch.start \in Nat /\ fetch.revision \in Nat
    BY ScenarioHasBounds DEF StreamInv, ServerInv, Bounds, ClientInv, FetchType, Revision
  <2>2. fetch.start <= Current
    BY <1>3 DEF StreamInv, ClientInv, FetchInv, Fresh
  <2>3. fetch.pc = "Resuming" => fetch.start <= fetch.revision
    BY <1>3 DEF StreamInv, ClientInv, FetchInv, Fresh, HasRevision, Answered
  <2> QED BY <2>1, <2>2, <2>3
<1> QED BY <1>1, <1>2, <1>3 DEF LiveViewIsServerState

------------------------------------------------------------
(* It holds at the start. *)

LEMMA NothingIsThere ==
  ASSUME scenario \in Scenarios
  PROVE  NoEntities \in Collections /\ At(0) = NoEntities /\ 1 \in Entity /\ 0 \in Revision
<1>1. Bounds
  BY ScenarioHasBounds
<1>2. Pages \in Nat /\ 0 \in Revision /\ 1 \in Entity
  BY <1>1 DEF Bounds, Revision, Entity
<1>3. NoEntities \in Collections
  BY <1>2 DEF NoEntities, Collections
<1>4. At(0) = NoEntities
  BY <1>2, CollectedAtFirst DEF At, NoEntities, Entity
<1> QED BY <1>2, <1>3, <1>4

LEMMA InitStream == Init => StreamInv
<1> SUFFICES ASSUME Init PROVE StreamInv
  OBVIOUS
<1>1. scenario \in Scenarios
  BY DEF Init
<1>2. Bounds
  BY <1>1, ScenarioHasBounds
<1>3. NoEntities \in Collections /\ At(0) = NoEntities /\ 1 \in Entity /\ 0 \in Revision
  BY <1>1, NothingIsThere
<1>4. history = <<>> /\ Current = 0
  BY DEF Init, Current
<1>5. connections \in 0..1 /\ link = connections
  BY DEF Init
<1>6. ServerInv
  <2>1. history \in Seq(Change)
    BY <1>4
  <2>2. session = {} /\ Cardinality(session) = 0
    BY FS_EmptySet DEF Init
  <2>3. connections \in Generation
    BY <1>2, <1>5 DEF Generation, Bounds
  <2>4. abandoned = 0 /\ sent = 0 /\ faults = 0 /\ entities = At(0)
    BY <1>3 DEF Init
  <2>5. /\ Current <= MaxRevision /\ 0 + 0 <= Slots /\ 0 \in 0..MaxFaults
        /\ link \in {0, connections}
    BY <1>2, <1>4, <1>5 DEF Bounds
  <2> QED BY <1>1, <1>4, <2>1, <2>2, <2>3, <2>4, <2>5 DEF ServerInv
<1>7. OpeningInv
  BY DEF Init, OpeningInv
<1>8. 0 \in 0..connections /\ 0 <= BufferCapacity
  BY <1>2, <1>5 DEF Bounds
<1>9. MailInv
  BY <1>8 DEF Init, MailInv
<1>10. ClientInv
  <2>1. store = Waiting /\ fetch = Idle /\ shown = [generation |-> 0, revision |-> 0]
    BY DEF Init
  <2>2. StoreType
    BY <2>1, <1>3, <1>8 DEF StoreType, Waiting
  <2>3. FetchType
    BY <2>1, <1>3, <1>8 DEF FetchType, Idle
  <2>4. ShownType
    BY <2>1, <1>3, <1>8 DEF ShownType
  <2>5. PhaseInv
    BY <2>1 DEF PhaseInv, Waiting, Idle
  <2>6. FetchInv
    BY <2>1 DEF FetchInv, Fresh, Waiting, Idle
  <2>7. LiveInv
    BY <2>1 DEF LiveInv, Live, Waiting
  <2>8. ShownInv
    BY <2>1 DEF Live, Waiting, Idle, ShownInv, Fresh
  <2> QED BY <2>2, <2>3, <2>4, <2>5, <2>6, <2>7, <2>8 DEF ClientInv
<1> QED BY <1>6, <1>7, <1>9, <1>10 DEF StreamInv

------------------------------------------------------------
(* What others do leaves the store and its mail as they are: the history *)
(* of a connection only grows, and the next connection is a new one.     *)

Extends ==
  /\ scenario' = scenario
  /\ connections' \in Nat /\ connections <= connections'
  /\ link' \in Nat
  /\ link' # 0 /\ link' <= connections =>
       /\ link' = link /\ Current' \in Nat /\ Current <= Current'
       /\ \A i \in 1..Current : history'[i] = history[i]

LEMMA GenuineStays ==
  ASSUME ServerInv, Extends
  PROVE  /\ GenuineMessages \subseteq GenuineMessages'
         /\ GenuineEvents \subseteq GenuineEvents'
<1>1. Message' = Message
  BY DEF Extends, Message, Generation, Revision, Change, Entity, MaxGeneration, MaxRevision,
         Pages
<1>2. ASSUME NEW m \in Message, Genuine(m) PROVE Genuine(m)'
  <2>1. m.generation <= connections'
    <3>1. m.generation <= connections /\ connections <= connections'
      BY <1>2 DEF Genuine, Extends
    <3>2. m.generation \in Nat /\ connections \in Nat /\ connections' \in Nat
      <4>1. MaxGeneration \in Nat
        BY ScenarioHasBounds DEF ServerInv, Bounds
      <4>2. m.generation \in Generation
        BY DEF Message
      <4> QED BY <4>1, <4>2 DEF ServerInv, Extends, Generation
    <3> QED BY <3>1, <3>2
  <2>2. ASSUME m.kind = "Event"
        PROVE  /\ m.generation # 0
               /\ m.generation = link' =>
                    m.revision \in 1..Current' /\ m.change = history'[m.revision]
    <3>1. m.generation # 0
      BY <1>2, <2>2 DEF Genuine
    <3>2. ASSUME m.generation = link'
          PROVE  m.revision \in 1..Current' /\ m.change = history'[m.revision]
      <4>1. link' # 0 /\ link' <= connections
        BY <1>2, <3>1, <3>2 DEF Genuine
      <4>2. /\ link' = link /\ Current' \in Nat /\ Current <= Current'
            /\ \A i \in 1..Current : history'[i] = history[i]
        BY <4>1 DEF Extends
      <4>3. m.revision \in 1..Current /\ m.change = history[m.revision]
        BY <1>2, <2>2, <3>2, <4>2 DEF Genuine
      <4>4. Current \in Nat
        BY DEF ServerInv, Current
      <4> QED BY <4>2, <4>3, <4>4
    <3> QED BY <3>1, <3>2
  <2> QED BY <2>1, <2>2 DEF Genuine
<1> QED BY <1>1, <1>2 DEF GenuineMessages, GenuineEvents

LEMMA MailKept ==
  ASSUME ServerInv, Extends
  PROVE  /\ \A s \in Seq(GenuineMessages) : s \in Seq(GenuineMessages')
         /\ \A s \in Seq(GenuineEvents) : s \in Seq(GenuineEvents')
BY GenuineStays, SeqMonotonic

LEMMA AtStays ==
  ASSUME ServerInv, Extends, link' # 0, link' <= connections, NEW r \in 0..Current
  PROVE  At(r)' = At(r)
<1>1. Pages \in Nat /\ Pages' = Pages
  BY ScenarioHasBounds DEF ServerInv, Bounds, Extends, Pages
<1>2. Current \in Nat
  BY DEF ServerInv, Current
<1>3. r \in Nat /\ \A i \in 1..r : history'[i] = history[i]
  BY <1>2 DEF Extends
<1> QED BY <1>1, <1>3, CollectedStays DEF At

LEMMA MailStays ==
  ASSUME ServerInv, MailInv, Extends, boot' = boot,
         inbox' = inbox \/ \E m \in GenuineMessages' : inbox' = Append(inbox, m)
  PROVE  MailInv'
<1>1. inbox \in Seq(GenuineMessages') /\ boot.early \in Seq(GenuineEvents')
  BY MailKept DEF MailInv
<1>2. inbox' \in Seq(GenuineMessages')
  BY <1>1
<1>3. BufferCapacity' = BufferCapacity
  BY DEF Extends, BufferCapacity
<1>4. boot.state \in 0..connections'
  <2>1. /\ boot.state \in 0..connections /\ connections <= connections'
        /\ connections \in Nat /\ connections' \in Nat
    BY ScenarioHasBounds DEF ServerInv, Bounds, MailInv, Extends, Generation
  <2> QED BY <2>1
<1> QED BY <1>1, <1>2, <1>3, <1>4 DEF MailInv

LEMMA NatFacts ==
  ASSUME ServerInv
  PROVE  /\ Bounds /\ Current \in Nat /\ connections \in Nat /\ link \in 0..connections
         /\ Revision = 0..MaxRevision /\ Generation = 0..MaxGeneration /\ Entity = 1..Pages
         /\ 0..Current \subseteq Revision
<1>1. Bounds
  BY ScenarioHasBounds DEF ServerInv
<1>2. Current \in Nat /\ Current <= MaxRevision /\ MaxRevision \in Nat
  BY <1>1 DEF ServerInv, Current, Bounds
<1>3. connections \in Nat /\ link \in {0, connections}
  BY <1>1 DEF ServerInv, Bounds, Generation
<1>4. 0..Current \subseteq Revision
  BY <1>2 DEF Revision
<1>5. link \in 0..connections
  BY <1>3
<1> QED BY <1>1, <1>2, <1>3, <1>4, <1>5 DEF Revision, Generation, Entity

LEMMA ClientStays ==
  ASSUME ServerInv, OpeningInv, ClientInv, Extends,
         store' = store, fetch' = fetch, shown' = shown,
         session' \subseteq session \/ opening # {}
  PROVE  ClientInv'
<1>0. /\ Bounds /\ Current \in Nat /\ connections \in Nat /\ link \in 0..connections
      /\ 0..Current \subseteq Revision /\ connections' \in Nat /\ connections <= connections'
  BY NatFacts DEF Extends
<1>1. /\ Pages' = Pages /\ Revision' = Revision /\ Collections' = Collections
      /\ BufferCapacity' = BufferCapacity /\ Entity' = Entity
  BY DEF Extends, Pages, Revision, MaxRevision, Collections, Entity, BufferCapacity
<1>2. 0..connections \subseteq 0..connections'
  BY <1>0
<1>3. StoreType'
  BY <1>1, <1>2, MailKept DEF ClientInv, StoreType
<1>4. FetchType'
  BY <1>1, <1>2 DEF ClientInv, FetchType
<1>5. ShownType'
  BY <1>1, <1>2 DEF ClientInv, ShownType
<1>6. PhaseInv'
  BY <1>1 DEF ClientInv, PhaseInv
(* what is of a connection stays while it does *)
<1>7. ASSUME NEW g \in 0..connections, g # 0, g = link'
      PROVE  /\ g = link /\ Current' \in Nat /\ Current <= Current'
             /\ \A r \in 0..Current : At(r)' = At(r)
  <2>1. link' # 0 /\ link' <= connections
    BY <1>0, <1>7
  <2>2. g = link /\ Current' \in Nat /\ Current <= Current'
    BY <1>7, <2>1 DEF Extends
  <2>3. \A r \in 0..Current : At(r)' = At(r)
    BY <2>1, AtStays
  <2> QED BY <2>2, <2>3
<1>8. store.generation \in 0..connections /\ shown.generation \in 0..connections
  BY DEF ClientInv, StoreType, ShownType
<1>9. fetch.start \in Nat /\ fetch.revision \in Nat /\ shown.revision \in Nat /\ store.trusted \in Nat
      /\ store.queued \subseteq Nat
  BY <1>0 DEF ClientInv, StoreType, ShownType, FetchType, Revision, Bounds
<1>10. (fetch.current \/ Live \/ store.queued # {}) => store.generation # 0
  BY DEF ClientInv, PhaseInv, Live
<1>11. FetchInv'
  <2>1. ASSUME Fresh' PROVE Fresh /\ Current' \in Nat /\ Current <= Current'
                            /\ \A r \in 0..Current : At(r)' = At(r)
    <3>1. fetch.current /\ store.generation = link' /\ store.generation # 0
      BY <2>1, <1>10 DEF Fresh
    <3>2. store.generation = link
      BY <1>7, <1>8, <3>1
    <3>3. Current' \in Nat /\ Current <= Current' /\ \A r \in 0..Current : At(r)' = At(r)
      BY <1>7, <1>8, <3>1
    <3> QED BY <3>1, <3>2, <3>3 DEF Fresh
  <2>2. Fresh' => fetch.start <= Current'
    BY <2>1, <1>0, <1>9 DEF ClientInv, FetchInv
  <2>3. store.generation = link' => \A start \in store.queued : start <= Current'
    <3>1. SUFFICES ASSUME store.generation = link', NEW start \in store.queued
                   PROVE start <= Current'
      OBVIOUS
    <3>2. store.generation # 0
      BY <1>10
    <3>3. store.generation = link /\ Current' \in Nat /\ Current <= Current'
      BY <1>7, <1>8, <3>1, <3>2
    <3>4. start <= Current /\ start \in Nat
      BY <1>9, <3>3 DEF ClientInv, FetchInv
    <3> QED BY <1>0, <3>3, <3>4
  <2>4. ASSUME Fresh', HasRevision'
        PROVE  /\ fetch.start <= fetch.revision /\ fetch.revision <= Current'
               /\ \A k \in Entity : IsRead(k) => fetch.partial[k] = At(fetch.revision)'[k]
               /\ \A s \in session' : s.revision = fetch.revision
    <3>1. Fresh /\ HasRevision
      BY <2>1, <2>4 DEF HasRevision, Answered
    <3>2. /\ fetch.start <= fetch.revision /\ fetch.revision <= Current
          /\ \A k \in Entity : IsRead(k) => fetch.partial[k] = At(fetch.revision)[k]
          /\ \A s \in session : s.revision = fetch.revision
      BY <3>1 DEF ClientInv, FetchInv
    <3>3. fetch.revision <= Current'
      BY <1>0, <1>9, <2>1, <2>4, <3>2
    <3>4. PICK r \in 0..Current : r = fetch.revision
      BY <1>0, <1>9, <3>2
    <3>5. At(r)' = At(r)
      BY <2>1, <2>4
    <3>6. At(fetch.revision)' = At(fetch.revision)
      BY <3>4, <3>5 DEF At
    <3>7. opening = {}
      BY <3>1 DEF OpeningInv, HasRevision, Answered
    <3> QED BY <3>2, <3>3, <3>6, <3>7
  <2>5. \A k : IsRead(k)' = IsRead(k)
    BY DEF IsRead, Answered
  <2> QED BY <1>1, <2>2, <2>3, <2>4, <2>5 DEF FetchInv
<1>12. LiveInv'
  <2>1. SUFFICES ASSUME Live, store.generation = link'
                 PROVE  store.trusted <= Current' /\ store.view = At(store.trusted)'
    BY DEF LiveInv, Live
  <2>2. store.generation # 0
    BY <1>10, <2>1
  <2>3. /\ store.generation = link /\ Current' \in Nat /\ Current <= Current'
        /\ \A r \in 0..Current : At(r)' = At(r)
    BY <1>7, <1>8, <2>1, <2>2
  <2>4. store.trusted <= Current /\ store.view = At(store.trusted)
    BY <2>1, <2>3 DEF ClientInv, LiveInv
  <2>5. PICK r \in 0..Current : r = store.trusted
    BY <1>0, <1>9, <2>4
  <2>6. At(r)' = At(r)
    BY <2>3
  <2>7. At(store.trusted)' = At(store.trusted)
    BY <2>5, <2>6 DEF At
  <2> QED BY <1>0, <1>9, <2>3, <2>4, <2>7
<1>13. ShownInv'
  <2>1. link' # 0 /\ shown.generation = link' => shown.revision <= Current'
    <3>1. SUFFICES ASSUME link' # 0, shown.generation = link' PROVE shown.revision <= Current'
      OBVIOUS
    <3>2. shown.generation = link /\ link # 0 /\ Current' \in Nat /\ Current <= Current'
      BY <1>7, <1>8, <3>1
    <3>3. shown.revision <= Current
      BY <3>2 DEF ClientInv, ShownInv
    <3> QED BY <1>0, <1>9, <3>2, <3>3
  <2>2. Fresh' /\ HasRevision' /\ shown.generation = link' => shown.revision <= fetch.revision
    <3>1. SUFFICES ASSUME Fresh', HasRevision', shown.generation = link'
                   PROVE  shown.revision <= fetch.revision
      OBVIOUS
    <3>2. fetch.current /\ store.generation = link' /\ store.generation # 0
      BY <3>1, <1>10 DEF Fresh
    <3>3. store.generation = link
      BY <1>7, <1>8, <3>2
    <3>4. Fresh /\ HasRevision /\ shown.generation = link
      BY <3>1, <3>2, <3>3 DEF Fresh, HasRevision, Answered
    <3> QED BY <3>4 DEF ClientInv, ShownInv
  <2>3. Live' => shown = [generation |-> store.generation, revision |-> store.trusted]
    BY DEF Live, ClientInv, ShownInv
  <2> QED BY <2>1, <2>2, <2>3 DEF ShownInv, ClientInv
<1> QED BY <1>3, <1>4, <1>5, <1>6, <1>11, <1>12, <1>13 DEF ClientInv

------------------------------------------------------------
(* The Supervisor and the bridge. *)

(* A new revision is the last one with one more change. *)
LEMMA PublishExtends ==
  ASSUME ServerInv, scenario' = scenario, NEW c \in Change, Publish(c)
  PROVE  /\ Extends /\ Current' = Current + 1
         /\ \A r \in 0..Current : At(r)' = At(r)
         /\ At(Current)' = Apply(At(Current), c, Current + 1)
         /\ history' \in Seq(Change) /\ Current' <= MaxRevision
<1>1. Bounds /\ Current \in Nat /\ connections \in Nat /\ link \in 0..connections /\ Entity = 1..Pages
  BY NatFacts
<1>2. /\ history \in Seq(Change) /\ history' = Append(history, c) /\ Current < MaxRevision
      /\ link' = link /\ connections' = connections
  BY DEF Publish, ServerInv, bridge
<1>3. /\ history' \in Seq(Change) /\ Current' = Current + 1
      /\ history'[Current + 1] = c
      /\ \A i \in 1..Current : history'[i] = history[i]
  BY <1>2 DEF Current
<1>4. Current' <= MaxRevision /\ Current' \in Nat
  BY <1>1, <1>2, <1>3 DEF Bounds
<1>5. Extends
  <2>1. Current <= Current' /\ connections <= connections' /\ link' \in Nat /\ connections' \in Nat
    BY <1>1, <1>2, <1>3
  <2> QED BY <1>2, <1>3, <1>4, <2>1 DEF Extends
<1>6. Pages \in Nat /\ Pages' = Pages
  BY <1>1 DEF Bounds, Pages
<1>7. ASSUME NEW r \in 0..Current PROVE At(r)' = At(r)
  BY <1>1, <1>3, <1>6, CollectedStays DEF At
<1>8. PICK n \in Nat : n = Current
  BY <1>1
<1>9. \/ history'[n + 1].kind = "Log" /\ history'[n + 1].key = 0
      \/ history'[n + 1].kind \in {"Upsert", "Remove"} /\ history'[n + 1].key \in 1..Pages
  BY <1>1, <1>3, <1>8 DEF Change
<1>10. Collected(history', Pages, n + 1) = Apply(Collected(history', Pages, n), history'[n + 1], n + 1)
  BY <1>6, <1>9, CollectedGrows
<1>11. Collected(history', Pages, n) = At(Current)
  BY <1>6, <1>7, <1>8 DEF At
<1>12. At(Current)' = Collected(history', Pages, n + 1)
  BY <1>3, <1>6, <1>8 DEF At
<1>13. At(Current)' = Apply(At(Current), c, Current + 1)
  BY <1>3, <1>8, <1>10, <1>11, <1>12
<1> QED BY <1>3, <1>4, <1>5, <1>7, <1>13

LEMMA SessionKept ==
  ASSUME ServerInv, Current' \in Nat, Current <= Current',
         \A r \in 0..Current : At(r)' = At(r),
         session' = session
  PROVE  session' = {} \/ \E r \in 0..Current' : session' = {Frozen(r)'}
<1>1. CASE session = {}
  BY <1>1
<1>2. ASSUME NEW r \in 0..Current, session = {Frozen(r)}
      PROVE  \E q \in 0..Current' : session' = {Frozen(q)'}
  <2>1. r \in 0..Current'
    BY NatFacts
  <2>2. Frozen(r)' = Frozen(r)
    BY DEF Frozen
  <2> QED BY <1>2, <2>1, <2>2
<1> QED BY <1>1, <1>2 DEF ServerInv

LEMMA PublishKeeps ==
  ASSUME StreamInv, scenario' = scenario, NEW c \in Change, Publish(c),
         entities' = Apply(entities, c, Current + 1),
         opening = {} \/ entities' = entities
  PROVE  StreamInv'
<1>1. ServerInv /\ OpeningInv /\ MailInv /\ ClientInv
  BY DEF StreamInv
<1>2. /\ Extends /\ Current' = Current + 1
      /\ \A r \in 0..Current : At(r)' = At(r)
      /\ At(Current)' = Apply(At(Current), c, Current + 1)
      /\ history' \in Seq(Change) /\ Current' <= MaxRevision
  BY <1>1, PublishExtends
<1>3. Bounds /\ Current \in Nat /\ connections \in Nat /\ link \in 0..connections
  BY <1>1, NatFacts
<1>4. /\ opening' = opening /\ session' = session /\ abandoned' = abandoned
      /\ link' = link /\ connections' = connections /\ sent' = sent
      /\ inbox' = inbox /\ boot' = boot /\ store' = store /\ fetch' = fetch /\ shown' = shown
      /\ faults' = faults
  BY DEF Publish, bridge, client
<1>5. ServerInv'
  <2>1. entities' = At(Current)'
    BY <1>1, <1>2 DEF ServerInv
  <2>2. session' = {} \/ \E r \in 0..Current' : session' = {Frozen(r)'}
    <3>1. Current' \in Nat /\ Current <= Current'
      BY <1>2, <1>3
    <3> QED BY <1>1, <1>2, <1>4, <3>1, SessionKept
  <2>3. sent \in 0..Current'
    BY <1>1, <1>2, <1>3 DEF ServerInv
  <2>4. /\ MaxRevision' = MaxRevision /\ Slots' = Slots /\ Generation' = Generation
        /\ MaxFaults' = MaxFaults
    BY DEF MaxRevision, Slots, Generation, MaxGeneration, MaxFaults
  <2>5. /\ scenario \in Scenarios /\ abandoned \in Nat
        /\ abandoned + Cardinality(session) <= Slots
        /\ connections \in Generation /\ link \in {0, connections} /\ faults \in 0..MaxFaults
    BY <1>1 DEF ServerInv
  <2>6. /\ scenario' \in Scenarios /\ abandoned' \in Nat
        /\ abandoned' + Cardinality(session') <= Slots'
        /\ connections' \in Generation' /\ link' \in {0, connections'} /\ faults' \in 0..MaxFaults'
        /\ sent' \in 0..Current' /\ Current' <= MaxRevision'
    BY <1>2, <1>4, <2>3, <2>4, <2>5
  <2>7. Change' = Change
    BY DEF Change, Entity, Pages
  <2> QED BY <1>2, <2>1, <2>2, <2>6, <2>7 DEF ServerInv
<1>6. OpeningInv'
  <2>1. ASSUME NEW r \in opening
        PROVE  /\ opening = {r} /\ r \in 0..Current' /\ fetch.start <= r
               /\ entities' = At(r)'
               /\ link # 0 /\ fetch.pc = "Asking" /\ fetch.page = 1
               /\ shown.generation = link => shown.revision <= r
    BY <1>1, <1>2, <1>3 DEF OpeningInv
  <2> QED BY <1>4, <2>1 DEF OpeningInv
<1>7. MailInv'
  BY <1>1, <1>2, <1>4, MailStays
<1>8. ClientInv'
  BY <1>1, <1>2, <1>4, ClientStays
<1> QED BY <1>5, <1>6, <1>7, <1>8 DEF StreamInv

LEMMA ApplyDeltaKeeps ==
  ASSUME StreamInv, ApplyDelta, scenario' = scenario
  PROVE  StreamInv'
<1>1. PICK c \in Changes : Publish(c) /\ entities' = Apply(entities, c, Current + 1)
  BY DEF ApplyDelta
<1>2. c \in Change
  BY ScenarioHasBounds DEF StreamInv, ServerInv
<1>3. opening = {}
  BY DEF ApplyDelta
<1> QED BY <1>1, <1>2, <1>3, PublishKeeps

LEMMA PublishLogKeeps ==
  ASSUME StreamInv, PublishLog, scenario' = scenario
  PROVE  StreamInv'
<1>1. Publish(Log) /\ entities' = entities
  BY DEF PublishLog
<1>2. Log \in Change
  BY DEF Log, Change
<1>3. Apply(entities, Log, Current + 1) = entities
  BY DEF Apply, Log
<1>4. PICK c \in Change : c = Log
  BY <1>2
<1>5. Publish(c) /\ entities' = Apply(entities, c, Current + 1)
  BY <1>1, <1>3, <1>4
<1> QED BY <1>1, <1>5, PublishKeeps

(* Without a change, the collections stay as they are. *)
LEMMA QuietExtends ==
  ASSUME ServerInv, scenario' = scenario, history' = history,
         connections' \in Nat, connections <= connections',
         link' \in {0, link} \/ (link' \in Nat /\ link' > connections)
  PROVE  /\ Extends /\ Current' = Current
         /\ \A r : At(r)' = At(r) /\ Frozen(r)' = Frozen(r)
<1>1. Current \in Nat /\ connections \in Nat /\ link \in 0..connections
  BY NatFacts
<1>2. Current' = Current
  BY DEF Current
<1>3. \A r : At(r)' = At(r) /\ Frozen(r)' = Frozen(r)
  BY DEF At, Frozen, Pages
<1>4. link' \in Nat
  BY <1>1
<1>5. link' # 0 /\ link' <= connections => link' = link
  BY <1>1
<1>6. \A i \in 1..Current : history'[i] = history[i]
  OBVIOUS
<1>7. Current' \in Nat /\ Current <= Current'
  BY <1>1, <1>2
<1>8. Extends
  BY <1>4, <1>5, <1>6, <1>7 DEF Extends
<1> QED BY <1>2, <1>3, <1>8

LEMMA ServerKept ==
  ASSUME ServerInv, scenario' = scenario, history' = history, entities' = entities,
         connections' \in Generation, link' \in {0, connections'},
         sent' \in 0..Current, faults' \in 0..MaxFaults, abandoned' \in Nat,
         session' = {} \/ \E r \in 0..Current : session' = {Frozen(r)},
         abandoned' + Cardinality(session') <= Slots
  PROVE  ServerInv'
<1>1. Current' = Current /\ (\A r : At(r)' = At(r) /\ Frozen(r)' = Frozen(r))
  BY DEF At, Frozen, Pages, Current
<1>2. /\ MaxRevision' = MaxRevision /\ Slots' = Slots /\ Generation' = Generation
      /\ MaxFaults' = MaxFaults /\ Change' = Change
  BY DEF MaxRevision, Slots, Generation, MaxGeneration, MaxFaults, Change, Entity, Pages
<1>3. entities' = At(Current)'
  <2>1. PICK n : n = Current
    OBVIOUS
  <2>2. At(n)' = At(n) /\ n = Current'
    BY <1>1, <2>1
  <2>3. At(Current)' = At(Current)
    BY <2>1, <2>2 DEF At
  <2> QED BY <2>3 DEF ServerInv
<1>4. session' = {} \/ \E r \in 0..Current' : session' = {Frozen(r)'}
  BY <1>1
<1>5. /\ scenario' \in Scenarios /\ history' \in Seq(Change') /\ Current' <= MaxRevision'
      /\ sent' \in 0..Current' /\ faults' \in 0..MaxFaults'
      /\ abandoned' + Cardinality(session') <= Slots' /\ connections' \in Generation'
  BY <1>1, <1>2 DEF ServerInv
<1> QED BY <1>3, <1>4, <1>5 DEF ServerInv

LEMMA OpeningKept ==
  ASSUME OpeningInv, scenario' = scenario, history' = history, entities' = entities,
         opening' = {} \/ (opening' = opening /\ link' = link),
         opening' # {} => /\ fetch'.pc = fetch.pc /\ fetch'.page = fetch.page
                          /\ fetch'.start = fetch.start /\ shown' = shown
  PROVE  OpeningInv'
<1>1. Current' = Current /\ \A r : At(r)' = At(r)
  BY DEF At, Pages, Current
<1>2. ASSUME NEW r \in opening'
      PROVE  /\ opening' = {r} /\ r \in 0..Current' /\ fetch'.start <= r
             /\ entities' = At(r)'
             /\ link' # 0 /\ fetch'.pc = "Asking" /\ fetch'.page = 1
             /\ shown'.generation = link' => shown'.revision <= r
  <2>1. opening' = opening /\ link' = link /\ r \in opening
    BY <1>2
  <2>2. /\ opening = {r} /\ r \in 0..Current /\ fetch.start <= r /\ entities = At(r)
        /\ link # 0 /\ fetch.pc = "Asking" /\ fetch.page = 1
        /\ shown.generation = link => shown.revision <= r
    BY <2>1 DEF OpeningInv
  <2>3. At(r)' = At(r)
    BY <1>1
  <2>4. /\ fetch'.pc = fetch.pc /\ fetch'.page = fetch.page
        /\ fetch'.start = fetch.start /\ shown' = shown
    BY <1>2
  <2> QED BY <1>1, <2>1, <2>2, <2>3, <2>4
<1> QED BY <1>2 DEF OpeningInv

LEMMA ConnectKeeps ==
  ASSUME StreamInv, Connect, scenario' = scenario
  PROVE  StreamInv'
<1>1. ServerInv /\ OpeningInv /\ MailInv /\ ClientInv
  BY DEF StreamInv
<1>2. Bounds /\ Current \in Nat /\ connections \in Nat /\ link \in 0..connections
  BY <1>1, NatFacts
<1>3. /\ history' = history /\ entities' = entities /\ opening' = opening /\ session' = session
      /\ abandoned' = abandoned /\ boot' = boot /\ store' = store /\ fetch' = fetch
      /\ shown' = shown /\ faults' = faults
      /\ link = 0 /\ connections < MaxGeneration
      /\ connections' = connections + 1 /\ link' = connections' /\ sent' = Current
      /\ inbox' = Append(inbox, StateMessage(link'))
  BY DEF Connect, server, client
<1>4. connections' \in Generation /\ connections' \in Nat /\ link' > connections
  BY <1>2, <1>3 DEF Generation, Bounds
<1>5. Extends
  <2>1. connections <= connections' /\ link' \in Nat
    BY <1>2, <1>3
  <2> QED BY <1>1, <1>3, <1>4, <2>1, QuietExtends
<1>6. ServerInv'
  <2>1. /\ abandoned' \in Nat /\ faults' \in 0..MaxFaults
        /\ session' = {} \/ \E r \in 0..Current : session' = {Frozen(r)}
        /\ abandoned' + Cardinality(session') <= Slots
    BY <1>1, <1>3 DEF ServerInv
  <2>2. sent' \in 0..Current /\ link' \in {0, connections'}
    BY <1>2, <1>3
  <2> QED BY <1>1, <1>3, <1>4, <2>1, <2>2, ServerKept
<1>7. opening = {}
  BY <1>1, <1>3 DEF OpeningInv
<1>8. OpeningInv'
  BY <1>3, <1>7 DEF OpeningInv
<1>9. MailInv'
  <2>1. StateMessage(link') \in GenuineMessages'
    <3>1. Generation' = Generation
      BY DEF Generation, MaxGeneration
    <3>2. StateMessage(link') \in Message'
      BY <1>3, <1>4, <3>1 DEF StateMessage, Message
    <3>3. PICK m : m = StateMessage(link')
      OBVIOUS
    <3>4. m.kind = "State" /\ m.generation = connections'
      BY <3>3, <1>3 DEF StateMessage
    <3>5. m \in GenuineMessages'
      BY <1>4, <3>2, <3>3, <3>4 DEF GenuineMessages, Genuine
    <3> QED BY <3>3, <3>5
  <2> QED BY <1>1, <1>3, <1>5, <2>1, MailStays
<1>10. ClientInv'
  BY <1>1, <1>3, <1>5, ClientStays
<1> QED BY <1>6, <1>8, <1>9, <1>10 DEF StreamInv

LEMMA DisconnectKeeps ==
  ASSUME StreamInv, Disconnect, scenario' = scenario
  PROVE  StreamInv'
<1>1. ServerInv /\ OpeningInv /\ MailInv /\ ClientInv
  BY DEF StreamInv
<1>2. Bounds /\ Current \in Nat /\ connections \in Nat /\ link \in 0..connections
  BY <1>1, NatFacts
<1>3. /\ history' = history /\ entities' = entities /\ opening' = opening /\ session' = session
      /\ abandoned' = abandoned /\ boot' = boot /\ store' = store /\ fetch' = fetch
      /\ shown' = shown /\ faults' = faults /\ sent' = sent
      /\ opening = {} /\ connections' = connections /\ link' = 0
      /\ inbox' = Append(inbox, StateMessage(0))
  BY DEF Disconnect, server, client
<1>4. Extends
  BY <1>1, <1>2, <1>3, QuietExtends
<1>5. ServerInv'
  BY <1>1, <1>3, ServerKept DEF ServerInv
<1>6. OpeningInv'
  BY <1>3 DEF OpeningInv
<1>7. MailInv'
  <2>1. StateMessage(0) \in GenuineMessages'
    <3>1. 0 \in Generation' /\ 0 <= connections'
      BY <1>2, <1>3 DEF Generation, MaxGeneration, Bounds
    <3>2. StateMessage(0) \in Message'
      BY <3>1 DEF StateMessage, Message
    <3>3. PICK m : m = StateMessage(0)
      OBVIOUS
    <3>4. m.kind = "State" /\ m.generation = 0
      BY <3>3 DEF StateMessage
    <3>5. m \in GenuineMessages'
      BY <3>1, <3>2, <3>3, <3>4 DEF GenuineMessages, Genuine
    <3> QED BY <3>3, <3>5
  <2> QED BY <1>1, <1>3, <1>4, <2>1, MailStays
<1>8. ClientInv'
  BY <1>1, <1>3, <1>4, ClientStays
<1> QED BY <1>5, <1>6, <1>7, <1>8 DEF StreamInv

LEMMA RestartKeeps ==
  ASSUME StreamInv, Restart, scenario' = scenario
  PROVE  StreamInv'
<1>1. ServerInv /\ OpeningInv /\ MailInv /\ ClientInv
  BY DEF StreamInv
<1>2. Bounds /\ Current \in Nat /\ connections \in Nat /\ link \in 0..connections
  BY <1>1, NatFacts
<1>3. /\ history' = <<>> /\ entities' = NoEntities /\ sent' = 0
      /\ session' = {} /\ abandoned' = 0
      /\ opening' = opening /\ link = 0 /\ link' = 0 /\ connections' = connections
      /\ inbox' = inbox /\ boot' = boot /\ store' = store /\ fetch' = fetch
      /\ shown' = shown /\ faults' = faults
  BY DEF Restart, client
<1>4. Extends
  BY <1>2, <1>3 DEF Extends
<1>5. Current' = 0 /\ history' \in Seq(Change')
  BY <1>3 DEF Current
<1>6. ServerInv'
  <2>1. scenario' \in Scenarios /\ NoEntities' = NoEntities /\ Pages \in Nat /\ Pages' = Pages
    BY <1>1, <1>2 DEF ServerInv, NoEntities, Entity, Pages, Bounds
  <2>2. At(0)' = NoEntities
    BY <2>1, CollectedAtFirst DEF At, NoEntities, Entity
  <2>3. entities' = At(Current)'
    BY <1>3, <1>5, <2>2 DEF At
  <2>4. abandoned' + Cardinality(session') <= Slots' /\ abandoned' \in Nat /\ Current' <= MaxRevision'
    BY <1>2, <1>3, <1>5, FS_EmptySet DEF Slots, MaxRevision, Bounds
  <2>5. /\ connections' \in Generation' /\ link' \in {0, connections'}
        /\ sent' \in 0..Current' /\ faults' \in 0..MaxFaults'
    BY <1>1, <1>3, <1>5 DEF ServerInv, Generation, MaxGeneration, MaxFaults
  <2> QED BY <1>3, <1>5, <2>1, <2>3, <2>4, <2>5 DEF ServerInv
<1>7. opening = {}
  BY <1>1, <1>3 DEF OpeningInv
<1>8. OpeningInv'
  BY <1>3, <1>7 DEF OpeningInv
<1>9. MailInv'
  BY <1>1, <1>3, <1>4, MailStays
<1>10. ClientInv'
  BY <1>1, <1>3, <1>4, ClientStays
<1> QED BY <1>6, <1>8, <1>9, <1>10 DEF StreamInv

(* What the subscription hands out is of the history. *)
LEMMA ForwardKeeps ==
  ASSUME StreamInv, Forward, scenario' = scenario
  PROVE  StreamInv'
<1>1. ServerInv /\ OpeningInv /\ MailInv /\ ClientInv
  BY DEF StreamInv
<1>2. Bounds /\ Current \in Nat /\ connections \in Nat /\ link \in 0..connections
  BY <1>1, NatFacts
<1>3. /\ history' = history /\ entities' = entities /\ opening' = opening /\ session' = session
      /\ abandoned' = abandoned /\ boot' = boot /\ store' = store /\ fetch' = fetch
      /\ shown' = shown /\ faults' = faults /\ link # 0 /\ sent < Current
      /\ connections' = connections /\ link' = link
      /\ sent' = IF Current - sent > Capacity THEN Current - Capacity + 1 ELSE sent + 1
      /\ inbox' = Append(inbox, EventMessage(link, sent'))
  BY DEF Forward, server, client
<1>4. Extends
  <2>1. connections' \in Nat /\ connections <= connections' /\ link' \in {0, link}
    BY <1>2, <1>3
  <2> QED BY <1>1, <1>3, <2>1, QuietExtends
<1>5. sent' \in 1..Current
  BY <1>1, <1>2, <1>3 DEF ServerInv, Bounds
<1>6. ServerInv'
  <2>1. /\ abandoned' \in Nat /\ faults' \in 0..MaxFaults
        /\ session' = {} \/ \E r \in 0..Current : session' = {Frozen(r)}
        /\ abandoned' + Cardinality(session') <= Slots
        /\ connections' \in Generation /\ link' \in {0, connections'}
    BY <1>1, <1>3 DEF ServerInv
  <2>2. sent' \in 0..Current
    BY <1>2, <1>5
  <2> QED BY <1>1, <1>3, <2>1, <2>2, ServerKept
<1>7. OpeningInv'
  BY <1>1, <1>3, OpeningKept
<1>8. MailInv'
  <2>1. PICK r \in 1..Current : r = sent'
    BY <1>5
  <2>2. PICK m : m = EventMessage(link, r)
    OBVIOUS
  <2>3. /\ m = [kind |-> "Event", generation |-> link, revision |-> r, change |-> history[r]]
        /\ history[r] \in Change
    BY <1>1, <2>1, <2>2 DEF ServerInv, Current, EventMessage
  <2>4. m \in Message
    <3>1. link \in Generation /\ r \in Revision
      BY <1>1, <1>2, NatFacts DEF ServerInv, Generation, Bounds
    <3> QED BY <2>3, <3>1 DEF Message
  <2>5. m \in GenuineMessages
    BY <1>2, <1>3, <2>3, <2>4 DEF GenuineMessages, Genuine
  <2>6. m \in GenuineMessages'
    BY <1>1, <1>4, <2>5, GenuineStays
  <2>7. inbox' = Append(inbox, m)
    BY <1>3, <2>1, <2>2
  <2> QED BY <1>1, <1>3, <1>4, <2>6, <2>7, MailStays
<1>9. ClientInv'
  BY <1>1, <1>3, <1>4, ClientStays
<1> QED BY <1>6, <1>7, <1>8, <1>9 DEF StreamInv

------------------------------------------------------------
(* Snapshot sessions. *)

LEMMA FixRevisionKeeps ==
  ASSUME StreamInv, FixRevision, scenario' = scenario
  PROVE  StreamInv'
<1>1. ServerInv /\ OpeningInv /\ MailInv /\ ClientInv
  BY DEF StreamInv
<1>2. Bounds /\ Current \in Nat /\ connections \in Nat /\ link \in 0..connections
  BY <1>1, NatFacts
<1>3. /\ history' = history /\ entities' = entities /\ session' = session
      /\ abandoned' = abandoned /\ boot' = boot /\ store' = store /\ fetch' = fetch
      /\ shown' = shown /\ faults' = faults /\ inbox' = inbox
      /\ connections' = connections /\ link' = link /\ sent' = sent
      /\ opening' = {Current} /\ fetch.start <= Current
      /\ link # 0 /\ fetch.pc = "Asking" /\ fetch.page = 1
  BY DEF FixRevision, Asked, bridge, client
<1>4. Extends /\ Current' = Current /\ \A r : At(r)' = At(r)
  BY <1>1, <1>2, <1>3, QuietExtends
<1>5. ServerInv'
  <2>1. /\ abandoned' \in Nat /\ faults' \in 0..MaxFaults /\ sent' \in 0..Current
        /\ session' = {} \/ \E r \in 0..Current : session' = {Frozen(r)}
        /\ abandoned' + Cardinality(session') <= Slots
        /\ connections' \in Generation /\ link' \in {0, connections'}
    BY <1>1, <1>3 DEF ServerInv
  <2> QED BY <1>1, <1>3, <2>1, ServerKept
<1>6. OpeningInv'
  <2>1. PICK r \in 0..Current : r = Current
    BY <1>2
  <2>2. entities' = At(r)'
    BY <1>1, <1>3, <1>4, <2>1 DEF ServerInv
  <2>3. shown'.generation = link' => shown'.revision <= r
    BY <1>1, <1>3, <2>1 DEF ClientInv, ShownInv
  <2>4. opening' = {r} /\ r \in 0..Current' /\ fetch'.start <= r
        /\ link' # 0 /\ fetch'.pc = "Asking" /\ fetch'.page = 1
    BY <1>2, <1>3, <1>4, <2>1
  <2> QED BY <2>2, <2>3, <2>4 DEF OpeningInv
<1>7. MailInv'
  BY <1>1, <1>3, <1>4, MailStays
<1>8. ClientInv'
  BY <1>1, <1>3, <1>4, ClientStays
<1> QED BY <1>5, <1>6, <1>7, <1>8 DEF StreamInv

(* A session gets a free slot and the collections of its revision. *)
LEMMA OpenSessionFreezes ==
  ASSUME ServerInv, OpeningInv, OpenSession
  PROVE  \E r \in 0..Current :
           /\ opening = {r} /\ opening' = {}
           /\ session' = {Frozen(r)} /\ IsFiniteSet(session') /\ Cardinality(session') = 1
           /\ abandoned' \in Nat /\ abandoned' + Cardinality(session') <= Slots
           /\ history' = history /\ entities' = entities
<1>1. PICK r \in opening :
        /\ SlotIsFree
        /\ session' = {[revision |-> r, entities |-> entities]}
        /\ abandoned' = abandoned + Cardinality(session)
        /\ opening' = {} /\ UNCHANGED <<history, entities>>
  BY DEF OpenSession
<1>2. r \in 0..Current /\ entities = At(r) /\ opening = {r}
  BY DEF OpeningInv
<1>3. session' = {Frozen(r)}
  BY <1>1, <1>2 DEF Frozen
<1>4. IsFiniteSet(session') /\ Cardinality(session') = 1
  BY <1>3, FS_Singleton
<1>5. abandoned' \in Nat /\ abandoned' + 1 <= Slots
  <2>1. Cardinality(session) \in 0..1 /\ abandoned \in Nat /\ Slots \in Nat
    BY SessionSize, NatFacts DEF ServerInv, Bounds
  <2>2. abandoned + Cardinality(session) < Slots
    BY <1>1 DEF SlotIsFree
  <2> QED BY <1>1, <2>1, <2>2
<1> QED BY <1>1, <1>2, <1>3, <1>4, <1>5

LEMMA LoseAnswerKeeps ==
  ASSUME StreamInv, LoseAnswer, scenario' = scenario
  PROVE  StreamInv'
<1>1. ServerInv /\ OpeningInv /\ MailInv /\ ClientInv
  BY DEF StreamInv
<1>2. Bounds /\ Current \in Nat /\ connections \in Nat /\ link \in 0..connections
  BY <1>1, NatFacts
<1>3. /\ OpenSession /\ boot' = boot /\ store' = store /\ fetch' = fetch
      /\ shown' = shown /\ faults < MaxFaults /\ faults' = faults + 1 /\ inbox' = inbox
      /\ connections' = connections /\ link' = link /\ sent' = sent /\ opening # {}
  BY DEF LoseAnswer, bridge, client
<1>4. PICK r \in 0..Current :
        /\ opening' = {} /\ session' = {Frozen(r)}
        /\ abandoned' \in Nat /\ abandoned' + Cardinality(session') <= Slots
        /\ history' = history /\ entities' = entities
  BY <1>1, <1>3, OpenSessionFreezes
<1>5. Extends
  <2>1. connections' \in Nat /\ connections <= connections' /\ link' \in {0, link}
    BY <1>2, <1>3
  <2> QED BY <1>1, <1>3, <1>4, <2>1, QuietExtends
<1>6. ServerInv'
  <2>1. /\ sent' \in 0..Current /\ connections' \in Generation /\ link' \in {0, connections'}
        /\ faults \in 0..MaxFaults
    BY <1>1, <1>3 DEF ServerInv
  <2>2. faults' \in 0..MaxFaults
    BY <1>2, <1>3, <2>1 DEF Bounds
  <2> QED BY <1>1, <1>3, <1>4, <2>1, <2>2, ServerKept
<1>7. OpeningInv'
  BY <1>4 DEF OpeningInv
<1>8. MailInv'
  BY <1>1, <1>3, <1>5, MailStays
<1>9. ClientInv'
  BY <1>1, <1>3, <1>5, ClientStays
<1> QED BY <1>6, <1>7, <1>8, <1>9 DEF StreamInv

(* Sessions that expire free their slots. *)
LEMMA ExpireKeeps ==
  ASSUME StreamInv, ExpireSession \/ ExpireUnused, scenario' = scenario
  PROVE  StreamInv'
<1>1. ServerInv /\ OpeningInv /\ MailInv /\ ClientInv
  BY DEF StreamInv
<1>2. Bounds /\ Current \in Nat /\ connections \in Nat /\ link \in 0..connections
  BY <1>1, NatFacts
<1>3. /\ history' = history /\ entities' = entities /\ opening' = opening
      /\ boot' = boot /\ store' = store /\ fetch' = fetch /\ shown' = shown /\ inbox' = inbox
      /\ connections' = connections /\ link' = link /\ sent' = sent
  BY DEF ExpireSession, ExpireUnused, bridge, client
<1>4. session' \in {{}, session} /\ abandoned' \in {abandoned, abandoned - 1}
      /\ (abandoned' # abandoned => abandoned > 0)
  BY DEF ExpireSession, ExpireUnused
<1>5. faults' \in 0..MaxFaults
  BY <1>1, <1>2 DEF ServerInv, Bounds, ExpireSession, ExpireUnused
<1>6. Extends
  BY <1>1, <1>2, <1>3, QuietExtends
<1>7. ServerInv'
  <2>1. /\ sent' \in 0..Current /\ connections' \in Generation /\ link' \in {0, connections'}
        /\ abandoned \in Nat /\ abandoned + Cardinality(session) <= Slots
        /\ session' = {} \/ \E r \in 0..Current : session' = {Frozen(r)}
    BY <1>1, <1>3, <1>4 DEF ServerInv
  <2>2. Cardinality(session) \in 0..1 /\ Cardinality(session') \in {0, Cardinality(session)}
    BY <1>1, <1>4, SessionSize, FS_EmptySet
  <2>3. abandoned' \in Nat /\ abandoned' <= abandoned
    BY <1>4, <2>1
  <2>4. abandoned' + Cardinality(session') <= Slots
    BY <1>2, <2>1, <2>2, <2>3 DEF Bounds
  <2> QED BY <1>1, <1>3, <1>5, <2>1, <2>3, <2>4, ServerKept
<1>8. OpeningInv'
  BY <1>1, <1>3, OpeningKept
<1>9. MailInv'
  BY <1>1, <1>3, <1>6, MailStays
<1>10. ClientInv'
  <2>1. session' \subseteq session
    BY <1>4
  <2> QED BY <1>1, <1>3, <1>6, <2>1, ClientStays
<1> QED BY <1>7, <1>8, <1>9, <1>10 DEF StreamInv

------------------------------------------------------------
(* Answers to the request of the store. *)

(* The Supervisor and the connection do nothing, apart from its sessions. *)
Undisturbed ==
  /\ scenario' = scenario /\ history' = history /\ entities' = entities
  /\ link' = link /\ connections' = connections /\ sent' = sent

LEMMA UndisturbedKeeps ==
  ASSUME ServerInv, Undisturbed
  PROVE  /\ Extends /\ Current' = Current
         /\ \A r : At(r)' = At(r) /\ Frozen(r)' = Frozen(r)
         /\ GenuineMessages' = GenuineMessages /\ GenuineEvents' = GenuineEvents
         /\ Revision' = Revision /\ Collections' = Collections /\ Entity' = Entity
         /\ BufferCapacity' = BufferCapacity /\ Pages' = Pages /\ NoEntities' = NoEntities
<1>1. Extends /\ Current' = Current /\ \A r : At(r)' = At(r) /\ Frozen(r)' = Frozen(r)
  BY NatFacts, QuietExtends DEF Undisturbed
<1>2. \A m : Genuine(m)' = Genuine(m)
  BY <1>1 DEF Undisturbed, Genuine
<1>3. Message' = Message
  BY DEF Undisturbed, Message, Generation, Revision, Change, Entity, MaxGeneration, MaxRevision,
         Pages
<1>4. GenuineMessages' = GenuineMessages /\ GenuineEvents' = GenuineEvents
  BY <1>2, <1>3 DEF GenuineMessages, GenuineEvents
<1>5. /\ Revision' = Revision /\ Collections' = Collections /\ Entity' = Entity
      /\ BufferCapacity' = BufferCapacity /\ Pages' = Pages /\ NoEntities' = NoEntities
  BY DEF Undisturbed, Revision, MaxRevision, Collections, Entity, Pages, BufferCapacity,
         NoEntities
<1> QED BY <1>1, <1>4, <1>5

LEMMA UndisturbedServer ==
  ASSUME ServerInv, Undisturbed, session' = session, abandoned' = abandoned, faults' = faults
  PROVE  ServerInv'
BY ServerKept DEF ServerInv, Undisturbed

(* A page of the session that is read is of the revision of the others. *)
LEMMA AnswerKeeps ==
  ASSUME ServerInv, ClientInv, Undisturbed, store' = store, shown' = shown,
         NEW r \in 0..Current, session' = {Frozen(r)}, fetch.pc = "Asking",
         NEW s, s = Frozen(r), NEW p, p = fetch.page, Answer(p, s),
         Fresh => /\ fetch.start <= r
                  /\ shown.generation = link => shown.revision <= r
                  /\ fetch.page > 1 => fetch.revision = r
  PROVE  ClientInv'
<1>1. /\ Extends /\ Current' = Current
      /\ \A q : At(q)' = At(q)
      /\ GenuineEvents' = GenuineEvents
      /\ Revision' = Revision /\ Collections' = Collections /\ Entity' = Entity
      /\ BufferCapacity' = BufferCapacity /\ Pages' = Pages
  BY UndisturbedKeeps
<1>2. link' = link /\ connections' = connections
  BY DEF Undisturbed
<1>3. r \in Revision /\ Current \in Nat /\ Entity = 1..Pages /\ Pages \in Nat /\ MaxRevision \in Nat
      /\ Revision = 0..MaxRevision
  BY NatFacts DEF Bounds
<1>4. s.revision = r /\ s.entities = At(r)
  BY DEF Frozen
<1>5. At(r) \in Collections /\ p \in Entity /\ fetch.partial \in Collections
  BY <1>3, AtType DEF ServerInv, ClientInv, FetchType
<1>6. PICK partial \in Collections :
        /\ partial = [fetch.partial EXCEPT ![p] = At(r)[p]]
        /\ partial[p] = At(r)[p]
        /\ \A k \in Entity : k # p => partial[k] = fetch.partial[k]
  <2>1. [fetch.partial EXCEPT ![p] = At(r)[p]] \in Collections
    BY <1>5 DEF Collections
  <2>2. /\ [fetch.partial EXCEPT ![p] = At(r)[p]][p] = At(r)[p]
        /\ \A k \in Entity : k # p => [fetch.partial EXCEPT ![p] = At(r)[p]][k] = fetch.partial[k]
    BY <1>5 DEF Collections
  <2> QED BY <2>1, <2>2
<1>7. fetch' = [pc |-> "Reading", current |-> fetch.current, start |-> fetch.start,
                page |-> fetch.page, revision |-> r, partial |-> partial,
                complete |-> fetch.complete, state |-> fetch.state]
  <2>1. fetch = [pc |-> fetch.pc, current |-> fetch.current, start |-> fetch.start,
                 page |-> fetch.page, revision |-> fetch.revision, partial |-> fetch.partial,
                 complete |-> fetch.complete, state |-> fetch.state]
    BY DEF ClientInv, FetchType
  <2>2. fetch' = [fetch EXCEPT !.pc = "Reading", !.partial[p] = At(r)[p], !.revision = r]
    BY <1>4 DEF Answer
  <2>3. [fetch EXCEPT !.pc = "Reading", !.partial[p] = At(r)[p], !.revision = r]
          = [fetch EXCEPT !.pc = "Reading", !.partial = partial, !.revision = r]
    BY <1>6, <2>1
  <2> QED BY <2>1, <2>2, <2>3
<1>8. StoreType' /\ ShownType'
  BY <1>1, <1>2 DEF ClientInv, StoreType, ShownType
<1>9. FetchType'
  BY <1>1, <1>2, <1>3, <1>7 DEF ClientInv, FetchType
<1>10. PhaseInv'
  BY <1>1, <1>7 DEF ClientInv, PhaseInv
<1>11. FetchInv'
  <2>1. Fresh' => Fresh
    BY <1>2, <1>7 DEF Fresh
  <2>2. Fresh => fetch.start <= Current
    BY DEF ClientInv, FetchInv
  <2>3. store.generation = link => \A start \in store.queued : start <= Current
    BY DEF ClientInv, FetchInv
  <2>4. ASSUME Fresh, NEW k \in Entity, IsRead(k)' PROVE partial[k] = At(r)[k]
    <3>1. k < p \/ k = p
      BY <1>7, <2>4 DEF IsRead
    <3>2. CASE k = p
      BY <3>2, <1>6
    <3>3. CASE k < p /\ k # p
      <4>1. fetch.page > 1 /\ HasRevision
        BY <1>3, <1>5, <3>3 DEF HasRevision
      <4>2. IsRead(k)
        BY <3>3 DEF IsRead
      <4>3. fetch.revision = r
        BY <2>4, <4>1
      <4>4. fetch.partial[k] = At(fetch.revision)[k]
        BY <2>4, <4>1, <4>2 DEF ClientInv, FetchInv
      <4> QED BY <1>6, <3>3, <4>3, <4>4
    <3> QED BY <3>1, <3>2, <3>3
  <2>5. \A x \in session' : x.revision = r
    BY <1>4
  <2>6. r <= Current
    BY <1>3
  <2>7. ASSUME Fresh', NEW k \in Entity, IsRead(k)' PROVE partial[k] = At(r)'[k]
    BY <2>1, <2>4, <2>7, <1>1
  <2>8. fetch'.revision = r /\ fetch'.partial = partial /\ fetch'.start = fetch.start
    BY <1>7
  <2>9. At(fetch.revision)' = At(r)'
    BY <2>8 DEF At
  <2> QED BY <1>1, <1>2, <2>1, <2>2, <2>3, <2>5, <2>6, <2>7, <2>8, <2>9 DEF FetchInv
<1>12. LiveInv'
  <2>1. ~ Live'
    BY DEF Live, ClientInv, PhaseInv
  <2> QED BY <2>1 DEF LiveInv
<1>13. ShownInv'
  <2>1. ~ Live' /\ fetch'.pc = "Reading" /\ fetch'.revision = r
    BY <1>7 DEF Live, ClientInv, PhaseInv
  <2>2. link' # 0 /\ shown'.generation = link' => shown'.revision <= Current'
    BY <1>1, <1>2 DEF ClientInv, ShownInv
  <2>3. Fresh' => Fresh
    BY <1>2, <1>7 DEF Fresh
  <2> QED BY <1>2, <2>1, <2>2, <2>3 DEF ShownInv
<1> QED BY <1>8, <1>9, <1>10, <1>11, <1>12, <1>13 DEF ClientInv

LEMMA FirstPageKeeps ==
  ASSUME StreamInv, FirstPage, scenario' = scenario
  PROVE  StreamInv'
<1>1. ServerInv /\ OpeningInv /\ MailInv /\ ClientInv
  BY DEF StreamInv
<1>2. /\ OpenSession /\ boot' = boot /\ store' = store
      /\ shown' = shown /\ faults' = faults /\ inbox' = inbox
      /\ connections' = connections /\ link' = link /\ sent' = sent
  BY DEF FirstPage, bridge
<1>3. PICK r \in 0..Current :
        /\ opening = {r} /\ opening' = {} /\ session' = {Frozen(r)}
        /\ abandoned' \in Nat /\ abandoned' + Cardinality(session') <= Slots
        /\ history' = history /\ entities' = entities
  BY <1>1, <1>2, OpenSessionFreezes
<1>4. Undisturbed
  BY <1>2, <1>3 DEF Undisturbed
<1>5. ServerInv'
  BY <1>1, <1>2, <1>3, ServerKept DEF ServerInv
<1>6. OpeningInv'
  BY <1>3 DEF OpeningInv
<1>7. MailInv'
  <2>1. Extends
    BY <1>1, <1>4, UndisturbedKeeps
  <2> QED BY <1>1, <1>2, <2>1, MailStays
<1>8. /\ fetch.start <= r /\ fetch.pc = "Asking" /\ fetch.page = 1
      /\ shown.generation = link => shown.revision <= r
  BY <1>1, <1>3 DEF OpeningInv
<1>9. ClientInv'
  <2>1. PICK s : s = Frozen(r)
    OBVIOUS
  <2>2. PICK p : p = fetch.page
    OBVIOUS
  <2>3. Answer(p, s)
    <3>1. \A x \in session' : x = s
      BY <1>3, <2>1
    <3>2. PICK x \in session' : Answer(1, x)
      BY DEF FirstPage
    <3>3. p = 1 /\ x = s
      BY <1>8, <2>2, <3>1
    <3> QED BY <3>2, <3>3
  <2> QED BY <1>1, <1>2, <1>3, <1>4, <1>8, <2>1, <2>2, <2>3, AnswerKeeps
<1> QED BY <1>5, <1>6, <1>7, <1>9 DEF StreamInv

LEMMA NextPageKeeps ==
  ASSUME StreamInv, NextPage, scenario' = scenario
  PROVE  StreamInv'
<1>1. ServerInv /\ OpeningInv /\ MailInv /\ ClientInv
  BY DEF StreamInv
<1>2. /\ history' = history /\ entities' = entities /\ opening' = opening
      /\ session' = session /\ abandoned' = abandoned
      /\ boot' = boot /\ store' = store
      /\ shown' = shown /\ faults' = faults /\ inbox' = inbox
      /\ connections' = connections /\ link' = link /\ sent' = sent
      /\ fetch.pc = "Asking" /\ fetch.page > 1
  BY DEF NextPage, server, bridge, Asked
<1>3. Undisturbed
  BY <1>2 DEF Undisturbed
<1>4. ServerInv'
  BY <1>1, <1>2, <1>3, UndisturbedServer
<1>5. opening = {}
  <2>1. fetch.page # 1
    BY <1>1, <1>2, NatFacts DEF ClientInv, FetchType, Bounds
  <2> QED BY <1>1, <2>1 DEF OpeningInv
<1>6. OpeningInv'
  BY <1>2, <1>5 DEF OpeningInv
<1>7. MailInv'
  <2>1. Extends
    BY <1>1, <1>3, UndisturbedKeeps
  <2> QED BY <1>1, <1>2, <2>1, MailStays
<1>8. PICK s \in session : Answer(fetch.page, s)
  BY DEF NextPage
<1>9. PICK r \in 0..Current : session = {Frozen(r)} /\ s = Frozen(r) /\ s.revision = r
  BY <1>1 DEF ServerInv, Frozen
<1>10. Fresh => /\ fetch.start <= r
                /\ shown.generation = link => shown.revision <= r
                /\ fetch.page > 1 => fetch.revision = r
  <2>1. ASSUME Fresh PROVE /\ fetch.start <= fetch.revision /\ fetch.revision = r
                           /\ shown.generation = link => shown.revision <= fetch.revision
    <3>1. HasRevision
      BY <1>2 DEF HasRevision
    <3>2. fetch.start <= fetch.revision /\ \A x \in session : x.revision = fetch.revision
      BY <1>1, <2>1, <3>1 DEF ClientInv, FetchInv
    <3>3. shown.generation = link => shown.revision <= fetch.revision
      BY <1>1, <2>1, <3>1 DEF ClientInv, ShownInv
    <3> QED BY <1>9, <3>2, <3>3
  <2> QED BY <2>1
<1>11. ClientInv'
  <2>1. PICK p : p = fetch.page
    OBVIOUS
  <2>2. Answer(p, s) /\ session' = {Frozen(r)}
    BY <1>2, <1>8, <1>9, <2>1
  <2> QED BY <1>1, <1>2, <1>3, <1>9, <1>10, <2>1, <2>2, AnswerKeeps
<1> QED BY <1>4, <1>6, <1>7, <1>11 DEF StreamInv

------------------------------------------------------------
(* What the store does. *)

LEMMA IdleIs ==
  Idle = [pc |-> "Idle", current |-> FALSE, start |-> 0, page |-> 1, revision |-> 0,
          partial |-> NoEntities, complete |-> FALSE, state |-> 0]
BY DEF Idle

LEMMA AskIs ==
  ASSUME NEW start
  PROVE  Ask(start) = [pc |-> "Asking", current |-> TRUE, start |-> start, page |-> 1,
                       revision |-> 0, partial |-> NoEntities, complete |-> FALSE, state |-> 0]
<1>1. PICK idle, none : idle = Idle /\ none = NoEntities
  OBVIOUS
<1>0. idle = [pc |-> "Idle", current |-> FALSE, start |-> 0, page |-> 1, revision |-> 0,
              partial |-> none, complete |-> FALSE, state |-> 0]
  BY <1>1, IdleIs
<1>2. PICK ask : ask = Ask(start)
  OBVIOUS
<1>3. ask = [idle EXCEPT !.pc = "Asking", !.current = TRUE, !.start = start]
  BY <1>1, <1>2 DEF Ask
<1>4. ask = [pc |-> "Asking", current |-> TRUE, start |-> start, page |-> 1, revision |-> 0,
             partial |-> none, complete |-> FALSE, state |-> 0]
  BY <1>0, <1>3
<1> QED BY <1>1, <1>2, <1>4

LEMMA SupersededIs ==
  ASSUME ServerInv, ClientInv, NEW f, f = fetch \/ f = Idle
  PROVE  /\ Superseded(f) =
              [pc |-> f.pc, current |-> FALSE, start |-> f.start, page |-> f.page,
               revision |-> f.revision, partial |-> f.partial, complete |-> f.complete,
               state |-> f.state]
         /\ f.pc \in {"Idle", "Asking", "Reading", "Resuming"}
         /\ f.complete \in BOOLEAN
         /\ f.start \in Revision /\ f.page \in Entity /\ f.revision \in Revision
         /\ f.partial \in Collections /\ f.state \in 0..connections
         /\ f.complete => f.page = Pages /\ f.pc \in {"Reading", "Resuming"}
<1>1. /\ f = [pc |-> f.pc, current |-> f.current, start |-> f.start, page |-> f.page,
              revision |-> f.revision, partial |-> f.partial, complete |-> f.complete,
              state |-> f.state]
      /\ f.pc \in {"Idle", "Asking", "Reading", "Resuming"}
      /\ f.complete \in BOOLEAN
      /\ f.start \in Revision /\ f.page \in Entity /\ f.revision \in Revision
      /\ f.partial \in Collections /\ f.state \in 0..connections
      /\ f.complete => f.page = Pages /\ f.pc \in {"Reading", "Resuming"}
  <2>1. CASE f = fetch
    BY <2>1 DEF ClientInv, FetchType, PhaseInv
  <2>2. CASE f = Idle
    <3>1. /\ NoEntities \in Collections /\ 1 \in Entity /\ 0 \in Revision
          /\ 0 \in 0..connections
      BY NothingIsThere, NatFacts DEF ServerInv
    <3>2. f = [pc |-> "Idle", current |-> FALSE, start |-> 0, page |-> 1, revision |-> 0,
               partial |-> NoEntities, complete |-> FALSE, state |-> 0]
      BY <2>2, IdleIs
    <3>3. /\ f.pc = "Idle" /\ f.complete = FALSE /\ f.start = 0 /\ f.page = 1 /\ f.revision = 0
          /\ f.partial = NoEntities /\ f.state = 0 /\ f.current = FALSE
      BY <3>2
    <3>4. f = [pc |-> f.pc, current |-> f.current, start |-> f.start, page |-> f.page,
               revision |-> f.revision, partial |-> f.partial, complete |-> f.complete,
               state |-> f.state]
      BY <3>2, <3>3
    <3> QED BY <3>1, <3>3, <3>4
  <2> QED BY <2>1, <2>2
<1>2. PICK x : x = Superseded(f)
  OBVIOUS
<1>3. x = [f EXCEPT !.current = FALSE]
  BY <1>2 DEF Superseded
<1>4. x = [pc |-> f.pc, current |-> FALSE, start |-> f.start, page |-> f.page,
           revision |-> f.revision, partial |-> f.partial, complete |-> f.complete,
           state |-> f.state]
  BY <1>1, <1>3
<1> QED BY <1>1, <1>2, <1>4

(* The store begins again: nothing in flight counts. *)
LEMMA BeginSyncKeeps ==
  ASSUME ServerInv, ClientInv, Undisturbed, session' = session, Show,
         NEW f, f = fetch \/ f = Idle,
         NEW g \in 1..connections, NEW start \in Revision, g = link => start <= Current,
         NEW seed \in Seq(GenuineEvents), BeginSync(f, g, start, seed)
  PROVE  /\ ClientInv' /\ shown' = shown
         /\ f = fetch /\ fetch.pc # "Idle" =>
              /\ fetch'.pc = fetch.pc /\ fetch'.page = fetch.page /\ fetch'.start = fetch.start
<1>1. /\ Current' = Current
      /\ (\A q : At(q)' = At(q))
      /\ GenuineEvents' = GenuineEvents
      /\ Revision' = Revision /\ Collections' = Collections /\ Entity' = Entity
      /\ BufferCapacity' = BufferCapacity /\ Pages' = Pages
  BY UndisturbedKeeps
<1>2. link' = link /\ connections' = connections
  BY DEF Undisturbed
<1>3. /\ NoEntities \in Collections /\ 1 \in Entity /\ 0 \in Revision
      /\ connections \in Nat /\ Current \in Nat /\ Bounds
  BY NothingIsThere, NatFacts DEF ServerInv
<1>4. PICK seeded \in Seq(GenuineEvents) : seeded = Fits(seed) /\ Len(seeded) <= BufferCapacity
  <2>1. Fits(seed) \in Seq(GenuineEvents) /\ Len(Fits(seed)) <= BufferCapacity
    BY <1>3 DEF Fits, Bounds
  <2> QED BY <2>1
<1>5. PICK queued : queued = IF f.pc # "Idle" THEN {start} ELSE {}
  OBVIOUS
<1>6. store' = [phase |-> "Syncing", generation |-> g, trusted |-> 0, view |-> NoEntities,
                buffered |-> seeded, queued |-> queued]
  BY <1>4, <1>5 DEF BeginSync
<1>7. CASE f.pc # "Idle"
  <2>1. fetch' = Superseded(f)
    BY <1>7 DEF BeginSync
  <2>2. /\ Superseded(f) =
             [pc |-> f.pc, current |-> FALSE, start |-> f.start, page |-> f.page,
              revision |-> f.revision, partial |-> f.partial, complete |-> f.complete,
              state |-> f.state]
        /\ f.pc \in {"Idle", "Asking", "Reading", "Resuming"}
        /\ f.complete \in BOOLEAN
        /\ f.start \in Revision /\ f.page \in Entity /\ f.revision \in Revision
        /\ f.partial \in Collections /\ f.state \in 0..connections
        /\ f.complete => f.page = Pages /\ f.pc \in {"Reading", "Resuming"}
    BY SupersededIs
  <2>3. fetch' = [pc |-> f.pc, current |-> FALSE, start |-> f.start, page |-> f.page,
                  revision |-> f.revision, partial |-> f.partial, complete |-> f.complete,
                  state |-> f.state]
    BY <2>1, <2>2
  <2>4. queued = {start}
    BY <1>5, <1>7
  <2>5. shown' = shown
    BY <1>6 DEF Show
  <2>6. StoreType'
    BY <1>1, <1>2, <1>3, <1>4, <1>6, <2>4 DEF StoreType
  <2>7. FetchType'
    BY <1>1, <1>2, <2>2, <2>3 DEF FetchType
  <2>8. ShownType'
    BY <1>1, <1>2, <2>5 DEF ClientInv, ShownType
  <2>9. PhaseInv'
    BY <1>1, <1>6, <2>2, <2>3 DEF PhaseInv
  <2>10. FetchInv'
    <3>1. ~ Fresh'
      BY <2>3 DEF Fresh
    <3>2. store'.generation = link' => \A x \in store'.queued : x <= Current'
      BY <1>1, <1>2, <1>6, <2>4
    <3> QED BY <3>1, <3>2 DEF FetchInv
  <2>11. LiveInv'
    BY <1>6 DEF LiveInv, Live
  <2>12. ShownInv'
    <3>1. ~ fetch'.current /\ ~ Live'
      BY <1>6, <2>3 DEF Live
    <3>2. link' # 0 /\ shown'.generation = link' => shown'.revision <= Current'
      BY <1>1, <1>2, <2>5 DEF ClientInv, ShownInv
    <3> QED BY <3>1, <3>2 DEF ShownInv, Fresh
  <2>13. f = fetch => fetch'.pc = fetch.pc /\ fetch'.page = fetch.page /\ fetch'.start = fetch.start
    BY <2>3
  <2> QED BY <2>5, <2>6, <2>7, <2>8, <2>9, <2>10, <2>11, <2>12, <2>13 DEF ClientInv
<1>8. CASE f.pc = "Idle"
  <2>1. fetch' = Ask(start)
    BY <1>8 DEF BeginSync
  <2>2. fetch' = [pc |-> "Asking", current |-> TRUE, start |-> start, page |-> 1,
                  revision |-> 0, partial |-> NoEntities, complete |-> FALSE, state |-> 0]
    BY <2>1, AskIs
  <2>3. queued = {}
    BY <1>5, <1>8
  <2>4. shown' = shown
    BY <1>6 DEF Show
  <2>5. StoreType'
    BY <1>1, <1>2, <1>3, <1>4, <1>6, <2>3 DEF StoreType
  <2>6. FetchType'
    BY <1>1, <1>2, <1>3, <2>2 DEF FetchType
  <2>7. ShownType'
    BY <1>1, <1>2, <2>4 DEF ClientInv, ShownType
  <2>8. PhaseInv'
    BY <1>1, <1>6, <2>2, <2>3 DEF PhaseInv
  <2>9. ~ HasRevision'
    BY <2>2 DEF HasRevision, Answered
  <2>10. FetchInv'
    <3>1. Fresh' => fetch'.start <= Current'
      BY <1>1, <1>2, <1>6, <2>2 DEF Fresh
    <3> QED BY <1>6, <2>3, <2>9, <3>1 DEF FetchInv
  <2>11. LiveInv'
    BY <1>6 DEF LiveInv, Live
  <2>12. ShownInv'
    <3>1. fetch'.pc # "Resuming" /\ ~ Live'
      BY <1>6, <2>2 DEF Live
    <3>2. link' # 0 /\ shown'.generation = link' => shown'.revision <= Current'
      BY <1>1, <1>2, <2>4 DEF ClientInv, ShownInv
    <3> QED BY <2>9, <3>1, <3>2 DEF ShownInv
  <2> QED BY <1>8, <2>4, <2>5, <2>6, <2>7, <2>8, <2>10, <2>11, <2>12 DEF ClientInv
<1> QED BY <1>7, <1>8

LEMMA InvalidateKeeps ==
  ASSUME ServerInv, ClientInv, Undisturbed, session' = session, Show,
         NEW f, f = fetch \/ f = Idle, Invalidate(f)
  PROVE  /\ ClientInv' /\ shown' = shown
         /\ f = fetch =>
              /\ fetch'.pc = fetch.pc /\ fetch'.page = fetch.page /\ fetch'.start = fetch.start
<1>1. /\ Current' = Current
      /\ (\A q : At(q)' = At(q))
      /\ GenuineEvents' = GenuineEvents
      /\ Revision' = Revision /\ Collections' = Collections /\ Entity' = Entity
      /\ BufferCapacity' = BufferCapacity /\ Pages' = Pages
  BY UndisturbedKeeps
<1>2. link' = link /\ connections' = connections
  BY DEF Undisturbed
<1>3. /\ NoEntities \in Collections /\ 1 \in Entity /\ 0 \in Revision
      /\ connections \in Nat /\ Current \in Nat /\ Bounds
  BY NothingIsThere, NatFacts DEF ServerInv
<1>4. store' = [phase |-> "Waiting", generation |-> 0, trusted |-> 0, view |-> NoEntities,
                buffered |-> <<>>, queued |-> {}]
  BY DEF Invalidate, Waiting
<1>5. fetch' = Superseded(f)
  BY DEF Invalidate
<1>6. /\ Superseded(f) =
           [pc |-> f.pc, current |-> FALSE, start |-> f.start, page |-> f.page,
            revision |-> f.revision, partial |-> f.partial, complete |-> f.complete,
            state |-> f.state]
      /\ f.pc \in {"Idle", "Asking", "Reading", "Resuming"}
      /\ f.complete \in BOOLEAN
      /\ f.start \in Revision /\ f.page \in Entity /\ f.revision \in Revision
      /\ f.partial \in Collections /\ f.state \in 0..connections
      /\ f.complete => f.page = Pages /\ f.pc \in {"Reading", "Resuming"}
  BY SupersededIs
<1>7. fetch' = [pc |-> f.pc, current |-> FALSE, start |-> f.start, page |-> f.page,
                revision |-> f.revision, partial |-> f.partial, complete |-> f.complete,
                state |-> f.state]
  BY <1>5, <1>6
<1>8. shown' = shown
  BY <1>4 DEF Show
<1>9. StoreType'
  BY <1>1, <1>2, <1>3, <1>4 DEF Bounds, StoreType
<1>10. FetchType'
  BY <1>1, <1>2, <1>6, <1>7 DEF FetchType
<1>11. ShownType'
  BY <1>1, <1>2, <1>8 DEF ClientInv, ShownType
<1>12. PhaseInv'
  BY <1>1, <1>4, <1>6, <1>7 DEF PhaseInv
<1>13. FetchInv'
  BY <1>4, <1>7 DEF FetchInv, Fresh
<1>14. LiveInv'
  BY <1>4 DEF LiveInv, Live
<1>15. ShownInv'
  <2>1. ~ fetch'.current /\ ~ Live'
    BY <1>4, <1>7 DEF Live
  <2>2. link' # 0 /\ shown'.generation = link' => shown'.revision <= Current'
    BY <1>1, <1>2, <1>8 DEF ClientInv, ShownInv
  <2> QED BY <2>1, <2>2 DEF ShownInv, Fresh
<1>16. f = fetch => fetch'.pc = fetch.pc /\ fetch'.page = fetch.page /\ fetch'.start = fetch.start
  BY <1>7
<1> QED BY <1>8, <1>9, <1>10, <1>11, <1>12, <1>13, <1>14, <1>15, <1>16 DEF ClientInv

(* A request that no longer counts makes room for the one that waits. *)
LEMMA PumpKeeps ==
  ASSUME ServerInv, ClientInv, Undisturbed, session' = session, Show,
         ~ fetch.current, Pump(store.queued)
  PROVE  ClientInv' /\ shown' = shown
<1>1. /\ Current' = Current
      /\ (\A q : At(q)' = At(q))
      /\ GenuineEvents' = GenuineEvents
      /\ Revision' = Revision /\ Collections' = Collections /\ Entity' = Entity
      /\ BufferCapacity' = BufferCapacity /\ Pages' = Pages
  BY UndisturbedKeeps
<1>2. link' = link /\ connections' = connections
  BY DEF Undisturbed
<1>3. /\ NoEntities \in Collections /\ 1 \in Entity /\ 0 \in Revision /\ 0 \in 0..connections
      /\ Current \in Nat
  BY NothingIsThere, NatFacts DEF ServerInv
<1>4. store' = [phase |-> store.phase, generation |-> store.generation,
                trusted |-> store.trusted, view |-> store.view,
                buffered |-> store.buffered, queued |-> {}]
  BY DEF ClientInv, StoreType, Pump
<1>5. \/ /\ store.queued = {}
         /\ fetch' = [pc |-> "Idle", current |-> FALSE, start |-> 0, page |-> 1, revision |-> 0,
                      partial |-> NoEntities, complete |-> FALSE, state |-> 0]
      \/ \E start \in store.queued :
           fetch' = [pc |-> "Asking", current |-> TRUE, start |-> start, page |-> 1,
                     revision |-> 0, partial |-> NoEntities, complete |-> FALSE, state |-> 0]
  <2>1. CASE store.queued = {}
    BY <2>1, IdleIs DEF Pump
  <2>2. CASE store.queued # {}
    BY <2>2, AskIs DEF Pump
  <2> QED BY <2>1, <2>2
<1>6. fetch'.start \in store.queued \cup {0} /\ (fetch'.current => fetch'.start \in store.queued)
      /\ (fetch'.pc = "Idle" <=> store.queued = {}) /\ (fetch'.current <=> fetch'.pc # "Idle")
      /\ fetch'.pc \in {"Idle", "Asking"} /\ fetch'.page = 1 /\ fetch'.complete = FALSE
      /\ fetch'.current \in BOOLEAN
  <2>1. CASE /\ store.queued = {}
             /\ fetch' = [pc |-> "Idle", current |-> FALSE, start |-> 0, page |-> 1,
                          revision |-> 0, partial |-> NoEntities, complete |-> FALSE,
                          state |-> 0]
    BY <2>1
  <2>2. ASSUME NEW start \in store.queued,
               fetch' = [pc |-> "Asking", current |-> TRUE, start |-> start, page |-> 1,
                         revision |-> 0, partial |-> NoEntities, complete |-> FALSE, state |-> 0]
        PROVE  /\ fetch'.start = start /\ fetch'.current = TRUE /\ fetch'.pc = "Asking"
               /\ fetch'.page = 1 /\ fetch'.complete = FALSE /\ store.queued # {}
    BY <2>2
  <2> QED BY <1>5, <2>1, <2>2
<1>7. shown' = shown
  <2>1. CASE Live
    BY <1>4, <2>1 DEF ClientInv, ShownInv, Live, Show
  <2>2. CASE ~ Live
    BY <1>4, <2>2 DEF Live, Show
  <2> QED BY <2>1, <2>2
<1>8. StoreType'
  BY <1>1, <1>2, <1>4 DEF ClientInv, StoreType
<1>9. FetchType'
  <2>1. store.queued \subseteq Revision
    BY DEF ClientInv, StoreType
  <2>2. CASE fetch' = [pc |-> "Idle", current |-> FALSE, start |-> 0, page |-> 1, revision |-> 0,
                       partial |-> NoEntities, complete |-> FALSE, state |-> 0]
    BY <1>1, <1>2, <1>3, <2>2 DEF FetchType
  <2>3. ASSUME NEW start \in store.queued,
               fetch' = [pc |-> "Asking", current |-> TRUE, start |-> start, page |-> 1,
                         revision |-> 0, partial |-> NoEntities, complete |-> FALSE, state |-> 0]
        PROVE  FetchType'
    BY <1>1, <1>2, <1>3, <2>1, <2>3 DEF FetchType
  <2> QED BY <1>5, <2>2, <2>3
<1>10. ShownType'
  BY <1>1, <1>2, <1>7 DEF ClientInv, ShownType
<1>11. PhaseInv'
  BY <1>1, <1>4, <1>6 DEF ClientInv, PhaseInv
<1>12. ~ HasRevision'
  BY <1>6 DEF HasRevision, Answered
<1>13. FetchInv'
  <2>1. ASSUME Fresh' PROVE fetch'.start <= Current'
    <3>1. fetch'.start \in store.queued /\ store.generation = link
      BY <1>2, <1>4, <1>6, <2>1 DEF Fresh
    <3> QED BY <1>1, <3>1 DEF ClientInv, FetchInv
  <2> QED BY <1>4, <1>12, <2>1 DEF FetchInv
<1>14. LiveInv'
  <2>1. ASSUME Live', store'.generation = link'
        PROVE  store'.trusted <= Current' /\ store'.view = At(store.trusted)'
    <3>1. Live /\ store.generation = link
      BY <1>2, <1>4, <2>1 DEF Live
    <3>2. store.trusted <= Current /\ store.view = At(store.trusted)
      BY <3>1 DEF ClientInv, LiveInv
    <3>3. PICK q : q = store.trusted
      OBVIOUS
    <3>4. At(store.trusted)' = At(q)'
      BY <1>4, <3>3 DEF At
    <3> QED BY <1>1, <1>4, <3>2, <3>3, <3>4
  <2> QED BY <2>1 DEF LiveInv
<1>15. ShownInv'
  <2>1. Live' => shown' = [generation |-> store'.generation, revision |-> store'.trusted]
    BY <1>4, <1>7 DEF Live, ClientInv, ShownInv
  <2>2. link' # 0 /\ shown'.generation = link' => shown'.revision <= Current'
    BY <1>1, <1>2, <1>7 DEF ClientInv, ShownInv
  <2>3. fetch'.pc # "Resuming"
    BY <1>6
  <2> QED BY <1>12, <2>1, <2>2, <2>3 DEF ShownInv
<1> QED BY <1>7, <1>8, <1>9, <1>10, <1>11, <1>13, <1>14, <1>15 DEF ClientInv

(* A request that still counts is repeated from where it started. *)
LEMMA RetryKeeps ==
  ASSUME ServerInv, ClientInv, Undisturbed, session' = session, Show, RetryLater
  PROVE  ClientInv' /\ shown' = shown
<1>1. CASE ~ fetch.current
  BY <1>1, PumpKeeps DEF RetryLater
<1>2. CASE fetch.current
  <2>1. /\ Current' = Current
        /\ GenuineEvents' = GenuineEvents
        /\ Revision' = Revision /\ Collections' = Collections /\ Entity' = Entity
        /\ BufferCapacity' = BufferCapacity /\ Pages' = Pages
    BY UndisturbedKeeps
  <2>2. link' = link /\ connections' = connections
    BY DEF Undisturbed
  <2>3. /\ NoEntities \in Collections /\ 1 \in Entity /\ 0 \in Revision /\ 0 \in 0..connections
    BY NothingIsThere, NatFacts DEF ServerInv
  <2>4. store.phase = "Syncing" /\ fetch.start \in Revision
    BY <1>2 DEF ClientInv, PhaseInv, FetchType
  <2>5. store' = [phase |-> store.phase, generation |-> store.generation,
                  trusted |-> store.trusted, view |-> store.view,
                  buffered |-> store.buffered, queued |-> {fetch.start}]
    BY <1>2 DEF ClientInv, StoreType, RetryLater
  <2>6. fetch' = [pc |-> "Idle", current |-> FALSE, start |-> 0, page |-> 1, revision |-> 0,
                  partial |-> NoEntities, complete |-> FALSE, state |-> 0]
    BY <1>2, IdleIs DEF RetryLater
  <2>7. shown' = shown
    BY <2>4, <2>5 DEF Show
  <2>8. StoreType'
    BY <2>1, <2>2, <2>4, <2>5 DEF ClientInv, StoreType
  <2>9. FetchType'
    BY <2>1, <2>2, <2>3, <2>6 DEF FetchType
  <2>10. ShownType'
    BY <2>1, <2>2, <2>7 DEF ClientInv, ShownType
  <2>11. PhaseInv'
    BY <2>1, <2>4, <2>5, <2>6 DEF ClientInv, PhaseInv
  <2>12. FetchInv'
    <3>1. ~ Fresh'
      BY <2>6 DEF Fresh
    <3>2. store.generation = link => fetch.start <= Current
      BY <1>2 DEF ClientInv, FetchInv, Fresh
    <3> QED BY <2>1, <2>2, <2>5, <3>1, <3>2 DEF FetchInv
  <2>13. LiveInv'
    BY <2>4, <2>5 DEF LiveInv, Live
  <2>14. ShownInv'
    <3>1. ~ fetch'.current /\ ~ Live'
      BY <2>4, <2>5, <2>6 DEF Live
    <3>2. link' # 0 /\ shown'.generation = link' => shown'.revision <= Current'
      BY <2>1, <2>2, <2>7 DEF ClientInv, ShownInv
    <3> QED BY <3>1, <3>2 DEF ShownInv, Fresh
  <2> QED BY <2>7, <2>8, <2>9, <2>10, <2>11, <2>12, <2>13, <2>14 DEF ClientInv
<1> QED BY <1>1, <1>2

(* An event that waits for the snapshot. *)
LEMMA BufferKeeps ==
  ASSUME ServerInv, ClientInv, Undisturbed, session' = session, Show,
         store.phase = "Syncing", Len(store.buffered) < BufferCapacity,
         NEW e \in GenuineEvents, store' = [store EXCEPT !.buffered = Append(@, e)],
         fetch' = fetch
  PROVE  ClientInv' /\ shown' = shown
<1>1. /\ Current' = Current
      /\ (\A q : At(q)' = At(q))
      /\ GenuineEvents' = GenuineEvents
      /\ Revision' = Revision /\ Collections' = Collections /\ Entity' = Entity
      /\ BufferCapacity' = BufferCapacity /\ Pages' = Pages
  BY UndisturbedKeeps
<1>2. link' = link /\ connections' = connections
  BY DEF Undisturbed
<1>3. PICK events \in Seq(GenuineEvents) :
        events = Append(store.buffered, e) /\ Len(events) <= BufferCapacity
  <2>1. store.buffered \in Seq(GenuineEvents) /\ BufferCapacity \in Nat
    BY NatFacts DEF Bounds, ClientInv, StoreType
  <2>2. PICK b \in Seq(GenuineEvents) : b = store.buffered
    BY <2>1
  <2>3. Append(b, e) \in Seq(GenuineEvents) /\ Len(Append(b, e)) = Len(b) + 1 /\ Len(b) \in Nat
    OBVIOUS
  <2>4. Len(Append(b, e)) <= BufferCapacity
    BY <2>1, <2>2, <2>3
  <2> QED BY <2>2, <2>3, <2>4
<1>4. store' = [phase |-> "Syncing", generation |-> store.generation,
                trusted |-> store.trusted, view |-> store.view,
                buffered |-> events, queued |-> store.queued]
  BY <1>3 DEF ClientInv, StoreType
<1>5. shown' = shown
  BY <1>4 DEF Show
<1>6. StoreType'
  BY <1>1, <1>2, <1>3, <1>4 DEF ClientInv, StoreType
<1>7. FetchType' /\ ShownType'
  BY <1>1, <1>2, <1>5 DEF ClientInv, FetchType, ShownType
<1>8. PhaseInv'
  BY <1>1, <1>4 DEF ClientInv, PhaseInv
<1>9. Fresh' = Fresh /\ HasRevision' = HasRevision /\ \A k : IsRead(k)' = IsRead(k)
  BY <1>2, <1>4 DEF Fresh, HasRevision, IsRead, Answered
<1>10. At(fetch.revision)' = At(fetch.revision)
  BY <1>1 DEF At
<1>11. FetchInv'
  BY <1>1, <1>2, <1>4, <1>9, <1>10 DEF ClientInv, FetchInv
<1>12. LiveInv'
  BY <1>4 DEF LiveInv, Live
<1>13. ShownInv'
  BY <1>1, <1>2, <1>4, <1>5, <1>9 DEF ClientInv, ShownInv, Live
<1> QED BY <1>5, <1>6, <1>7, <1>8, <1>11, <1>12, <1>13 DEF ClientInv

(* The next page, or the last answer before the snapshot is taken. *)
LEMMA AcceptedPageKeeps ==
  ASSUME ServerInv, ClientInv, Undisturbed, session' = session, Show,
         store' = store, fetch.pc = "Resuming", fetch.current, ~ fetch.complete, AcceptedPage
  PROVE  ClientInv' /\ shown' = shown
<1>1. /\ Current' = Current
      /\ (\A q : At(q)' = At(q))
      /\ GenuineEvents' = GenuineEvents
      /\ Revision' = Revision /\ Collections' = Collections /\ Entity' = Entity
      /\ BufferCapacity' = BufferCapacity /\ Pages' = Pages
  BY UndisturbedKeeps
<1>2. link' = link /\ connections' = connections
  BY DEF Undisturbed
<1>3. Pages \in Nat /\ Entity = 1..Pages /\ fetch.page \in Entity
  BY NatFacts DEF Bounds, ClientInv, FetchType
<1>4. store.phase = "Syncing"
  BY DEF ClientInv, PhaseInv
<1>5. shown' = shown
  BY <1>4 DEF Show
<1>6. PICK pc, page, complete :
        /\ fetch' = [pc |-> pc, current |-> fetch.current, start |-> fetch.start,
                     page |-> page, revision |-> fetch.revision, partial |-> fetch.partial,
                     complete |-> complete, state |-> fetch.state]
        /\ \/ pc = "Asking" /\ page = fetch.page + 1 /\ fetch.page < Pages /\ complete = FALSE
           \/ pc = "Reading" /\ page = fetch.page /\ ~ (fetch.page < Pages) /\ complete = TRUE
  <2>1. fetch = [pc |-> fetch.pc, current |-> fetch.current, start |-> fetch.start,
                 page |-> fetch.page, revision |-> fetch.revision, partial |-> fetch.partial,
                 complete |-> fetch.complete, state |-> fetch.state] /\ fetch.complete = FALSE
    BY DEF ClientInv, FetchType
  <2>2. CASE fetch.page < Pages
    BY <2>1, <2>2 DEF AcceptedPage
  <2>3. CASE ~ (fetch.page < Pages)
    BY <2>1, <2>3 DEF AcceptedPage
  <2> QED BY <2>2, <2>3
<1>7. StoreType' /\ ShownType'
  BY <1>1, <1>2, <1>5 DEF ClientInv, StoreType, ShownType
<1>8. page \in Entity /\ pc \in {"Asking", "Reading"} /\ complete \in BOOLEAN
  <2>1. \/ pc = "Asking" /\ page = fetch.page + 1 /\ fetch.page < Pages /\ complete = FALSE
        \/ pc = "Reading" /\ page = fetch.page /\ ~ (fetch.page < Pages) /\ complete = TRUE
    BY <1>6
  <2>2. page \in Entity
    BY <1>3, <2>1
  <2> QED BY <2>1, <2>2
<1>9. FetchType'
  BY <1>1, <1>2, <1>6, <1>8 DEF ClientInv, FetchType
<1>10. PhaseInv'
  <2>1. complete => page = Pages /\ pc = "Reading"
    BY <1>3, <1>6
  <2> QED BY <1>1, <1>4, <1>6, <1>8, <2>1 DEF ClientInv, PhaseInv
<1>11. FetchInv'
  <2>1. (Fresh' => Fresh) /\ HasRevision
    BY <1>2, <1>6 DEF Fresh, HasRevision, Answered
  <2>2. ASSUME NEW k \in Entity, IsRead(k)' PROVE IsRead(k)
    BY <1>3, <1>6, <1>8, <2>2 DEF IsRead, Answered
  <2>3. At(fetch.revision)' = At(fetch.revision)
    BY <1>1, <1>6 DEF At
  <2>4. /\ fetch'.start = fetch.start /\ fetch'.revision = fetch.revision
        /\ fetch'.partial = fetch.partial
    BY <1>6
  <2>5. Fresh => fetch.start <= Current
    BY DEF ClientInv, FetchInv
  <2>6. store.generation = link => \A start \in store.queued : start <= Current
    BY DEF ClientInv, FetchInv
  <2>7. Fresh =>
          /\ fetch.start <= fetch.revision /\ fetch.revision <= Current
          /\ \A k \in Entity : IsRead(k) => fetch.partial[k] = At(fetch.revision)[k]
          /\ \A s \in session : s.revision = fetch.revision
    BY <2>1 DEF ClientInv, FetchInv
  <2>8. Fresh' => \A k \in Entity : IsRead(k)' => fetch'.partial[k] = At(fetch.revision)'[k]
    BY <2>1, <2>2, <2>3, <2>4, <2>7
  <2> QED BY <1>1, <1>2, <2>1, <2>4, <2>5, <2>6, <2>7, <2>8 DEF FetchInv
<1>12. LiveInv'
  BY <1>4 DEF LiveInv, Live
<1>13. ShownInv'
  <2>1. fetch'.pc # "Resuming" /\ ~ Live' /\ fetch'.revision = fetch.revision
    BY <1>4, <1>6 DEF Live
  <2>2. (Fresh' => Fresh) /\ HasRevision
    BY <1>2, <1>6 DEF Fresh, HasRevision, Answered
  <2>3. Fresh /\ shown.generation = link => shown.revision <= fetch.revision
    BY <2>2 DEF ClientInv, ShownInv
  <2>4. link # 0 /\ shown.generation = link => shown.revision <= Current
    BY DEF ClientInv, ShownInv
  <2> QED BY <1>1, <1>2, <1>5, <2>1, <2>2, <2>3, <2>4 DEF ShownInv
<1> QED BY <1>5, <1>7, <1>9, <1>10, <1>11, <1>12, <1>13 DEF ClientInv

(* The state of the connection is one that no later one has been shown of. *)
LEMMA ConfirmedKeeps ==
  ASSUME ServerInv, ClientInv, Undisturbed, session' = session,
         store' = store, shown' = shown, fetch.pc = "Reading",
         fetch' = [fetch EXCEPT !.pc = "Resuming", !.state = link]
  PROVE  ClientInv'
<1>1. /\ Current' = Current
      /\ (\A q : At(q)' = At(q))
      /\ GenuineEvents' = GenuineEvents
      /\ Revision' = Revision /\ Collections' = Collections /\ Entity' = Entity
      /\ BufferCapacity' = BufferCapacity /\ Pages' = Pages
  BY UndisturbedKeeps
<1>2. link' = link /\ connections' = connections
  BY DEF Undisturbed
<1>3. link \in {0, connections} /\ link \in 0..connections /\ connections \in Nat
  BY NatFacts DEF ServerInv
<1>4. fetch' = [pc |-> "Resuming", current |-> fetch.current, start |-> fetch.start,
                page |-> fetch.page, revision |-> fetch.revision, partial |-> fetch.partial,
                complete |-> fetch.complete, state |-> link]
  BY DEF ClientInv, FetchType
<1>5. StoreType' /\ ShownType'
  BY <1>1, <1>2 DEF ClientInv, StoreType, ShownType
<1>6. FetchType'
  BY <1>1, <1>2, <1>3, <1>4 DEF ClientInv, FetchType
<1>7. PhaseInv'
  BY <1>1, <1>4 DEF ClientInv, PhaseInv
<1>8. Fresh' = Fresh /\ HasRevision' = HasRevision /\ \A k : IsRead(k)' = IsRead(k)
  BY <1>2, <1>4 DEF Fresh, HasRevision, IsRead, Answered
<1>9. At(fetch.revision)' = At(fetch.revision)
  BY <1>1, <1>4 DEF At
<1>10. FetchInv'
  BY <1>1, <1>2, <1>4, <1>8, <1>9 DEF ClientInv, FetchInv
<1>11. LiveInv'
  <2>1. ~ Live'
    BY DEF Live, ClientInv, PhaseInv
  <2> QED BY <2>1 DEF LiveInv
<1>12. ShownInv'
  <2>1. ~ Live' /\ fetch'.revision = fetch.revision /\ fetch'.state = link
        /\ fetch'.current = fetch.current
    BY <1>4 DEF Live, ClientInv, PhaseInv
  <2>2. link # 0 /\ shown.generation = link => shown.revision <= Current
    BY DEF ClientInv, ShownInv
  <2>3. Fresh /\ HasRevision /\ shown.generation = link => shown.revision <= fetch.revision
    BY DEF ClientInv, ShownInv
  <2>4. ASSUME fetch.current, link = store.generation
        PROVE  /\ shown.generation <= link
               /\ shown.generation = link => shown.revision <= fetch.revision
    <3>1. Fresh /\ HasRevision
      BY <2>4 DEF Fresh, HasRevision, Answered
    <3>2. link # 0
      BY <2>4 DEF ClientInv, PhaseInv
    <3>3. shown.generation \in 0..connections
      BY DEF ClientInv, ShownType
    <3> QED BY <1>3, <2>3, <3>1, <3>2, <3>3
  <2> QED BY <1>1, <1>2, <1>8, <2>1, <2>2, <2>3, <2>4 DEF ShownInv
<1> QED BY <1>5, <1>6, <1>7, <1>10, <1>11, <1>12 DEF ClientInv

------------------------------------------------------------
(* What a synchronized store shows. *)

LEMMA EventFacts ==
  ASSUME ServerInv, NEW e \in GenuineEvents
  PROVE  /\ e.kind = "Event" /\ e.generation \in 1..connections
         /\ e.revision \in Revision /\ e.change \in Change
         /\ e.generation = link => e.revision \in 1..Current /\ e.change = history[e.revision]
<1>1. e \in Message /\ Genuine(e) /\ e.kind = "Event"
  BY DEF GenuineEvents, GenuineMessages
<1>2. e \in [kind : {"Event"}, generation : Generation, revision : Revision, change : Change]
  BY <1>1 DEF Message
<1>3. e.generation \in Generation /\ e.revision \in Revision /\ e.change \in Change
  BY <1>2
<1>4. e.generation \in Nat /\ connections \in Nat
  BY <1>3, NatFacts DEF Bounds
<1>5. e.generation # 0 /\ e.generation <= connections
  BY <1>1 DEF Genuine
<1>6. e.generation = link => e.revision \in 1..Current /\ e.change = history[e.revision]
  BY <1>1 DEF Genuine
<1> QED BY <1>1, <1>3, <1>4, <1>5, <1>6

LEMMA ChangeFacts ==
  ASSUME NEW c \in Change
  PROVE  \/ c.kind = "Log" /\ c.key = 0
         \/ c.kind = "Upsert" /\ c.key \in Entity
         \/ c.kind = "Remove" /\ c.key \in Entity
BY DEF Change

LEMMA ApplyType ==
  ASSUME NEW state \in Collections, NEW c \in Change, NEW r \in Revision, 0 \in Revision
  PROVE  Apply(state, c, r) \in Collections
<1>1. CASE c.kind = "Log" /\ c.key = 0
  BY <1>1 DEF Apply
<1>2. CASE c.kind = "Upsert" /\ c.key \in Entity
  BY <1>2 DEF Apply, Collections
<1>3. CASE c.kind = "Remove" /\ c.key \in Entity
  BY <1>3 DEF Apply, Collections
<1> QED BY <1>1, <1>2, <1>3, ChangeFacts

LEMMA AtGrows ==
  ASSUME ServerInv, NEW r \in Nat, r + 1 \in 1..Current
  PROVE  At(r + 1) = Apply(At(r), history[r + 1], r + 1)
<1>1. Pages \in Nat /\ Entity = 1..Pages
  BY NatFacts DEF Bounds
<1>2. history[r + 1] \in Change
  BY DEF ServerInv, Current
<1>3. \/ history[r + 1].kind = "Log" /\ history[r + 1].key = 0
      \/ history[r + 1].kind \in {"Upsert", "Remove"} /\ history[r + 1].key \in 1..Pages
  BY <1>1, <1>2, ChangeFacts
<1> QED BY <1>1, <1>3, CollectedGrows DEF At

(* A live store follows the event of the next revision. *)
LEMMA FollowKeeps ==
  ASSUME ServerInv, ClientInv, Undisturbed, session' = session, Show, Live,
         NEW e \in GenuineEvents, e.generation = store.generation,
         e.revision = store.trusted + 1,
         store' = [store EXCEPT !.view = Apply(@, e.change, e.revision), !.trusted = e.revision],
         fetch' = fetch
  PROVE  /\ ClientInv'
         /\ shown'.generation = shown.generation /\ shown'.revision = shown.revision + 1
<1>1. /\ Current' = Current
      /\ (\A q : At(q)' = At(q))
      /\ GenuineEvents' = GenuineEvents
      /\ Revision' = Revision /\ Collections' = Collections /\ Entity' = Entity
      /\ BufferCapacity' = BufferCapacity /\ Pages' = Pages
  BY UndisturbedKeeps
<1>2. link' = link /\ connections' = connections
  BY DEF Undisturbed
<1>3. /\ e.revision \in Revision /\ e.change \in Change
      /\ e.generation = link => e.revision \in 1..Current /\ e.change = history[e.revision]
  BY EventFacts
<1>4. 0 \in Revision /\ Current \in Nat /\ Revision = 0..MaxRevision /\ MaxRevision \in Nat
  BY NothingIsThere, NatFacts DEF ServerInv, Bounds
<1>5. PICK view \in Collections : view = Apply(store.view, e.change, e.revision)
  BY <1>3, <1>4, ApplyType DEF ClientInv, StoreType
<1>6. store' = [phase |-> "Live", generation |-> store.generation,
                trusted |-> e.revision, view |-> view,
                buffered |-> store.buffered, queued |-> store.queued]
  BY <1>5 DEF ClientInv, StoreType, Live
<1>7. shown = [generation |-> store.generation, revision |-> store.trusted]
  BY DEF ClientInv, ShownInv
<1>61. /\ store'.phase = "Live" /\ store'.generation = store.generation
       /\ store'.trusted = e.revision /\ store'.view = view
  BY ONLY <1>6
<1>8. shown' = [generation |-> store.generation, revision |-> e.revision]
  BY <1>61 DEF Show
<1>9. store.queued = {} /\ fetch.pc = "Idle" /\ ~ fetch.current
  BY DEF Live, ClientInv, PhaseInv
<1>10. StoreType'
  BY <1>1, <1>2, <1>3, <1>5, <1>6 DEF ClientInv, StoreType
<1>11. FetchType'
  BY <1>1, <1>2 DEF ClientInv, FetchType
<1>12. ShownType'
  BY <1>1, <1>2, <1>3, <1>8 DEF ClientInv, StoreType, ShownType
<1>13. PhaseInv'
  BY <1>1, <1>6, <1>9 DEF ClientInv, PhaseInv, Live
<1>14. FetchInv'
  BY <1>6, <1>9 DEF FetchInv, Fresh
<1>15. store.generation = link => e.revision <= Current /\ view = At(e.revision)
  <2>1. SUFFICES ASSUME store.generation = link
                 PROVE  e.revision <= Current /\ view = At(e.revision)
    OBVIOUS
  <2>2. e.revision \in 1..Current /\ e.change = history[e.revision]
    BY <1>3, <2>1
  <2>3. store.view = At(store.trusted)
    BY <2>1 DEF ClientInv, LiveInv
  <2>4. PICK r \in Nat : r = store.trusted
    BY <1>4 DEF ClientInv, StoreType
  <2>5. r + 1 \in 1..Current /\ e.revision = r + 1
    BY <2>2, <2>4
  <2>6. At(r + 1) = Apply(At(r), history[r + 1], r + 1)
    BY <2>5, AtGrows
  <2> QED BY <1>4, <1>5, <2>2, <2>3, <2>4, <2>5, <2>6
<1>16. LiveInv'
  <2>1. At(store.trusted)' = At(e.revision)
    BY <1>1, <1>61 DEF At
  <2> QED BY <1>1, <1>2, <1>61, <1>15, <2>1 DEF LiveInv
<1>17. ShownInv'
  <2>1. shown' = [generation |-> store'.generation, revision |-> store'.trusted]
    BY <1>6, <1>8
  <2>2. shown'.generation = link' => shown'.revision <= Current'
    BY <1>1, <1>2, <1>8, <1>15
  <2>3. ~ fetch'.current
    BY <1>9
  <2> QED BY <2>1, <2>2, <2>3 DEF ShownInv, Fresh
<1>18. shown'.generation = shown.generation /\ shown'.revision = shown.revision + 1
  BY <1>7, <1>8
<1> QED BY <1>10, <1>11, <1>12, <1>13, <1>14, <1>16, <1>17, <1>18 DEF ClientInv

LEMMA ReplayIs ==
  \A state \in Collections : \A events :
    Replay(state, events) = Replaying(Pages, state, events)
BY DEF Collections, Entity, Replay, Replaying

LEMMA ReplayType ==
  ASSUME NEW state \in Collections, NEW events, NEW l \in Nat, DOMAIN events = 1..l,
         \A i \in 1..l : events[i].revision \in Revision,
         Pages \in Nat, 0 \in Revision
  PROVE  Replay(state, events) \in Collections
<1> DEFINE f == Replaying(Pages, state, events)
<1>1. ASSUME NEW k \in 1..Pages PROVE f[k] \in Revision
  <2>1. /\ Touching(events, k) \in SUBSET (1..l)
        /\ Touching(events, k) = {} => f[k] = state[k]
        /\ \A m : IsLast(m, Touching(events, k)) =>
             f[k] = IF events[m].change.kind = "Upsert" THEN events[m].revision ELSE 0
    BY ReplayingIs
  <2>2. state[k] \in Revision
    BY DEF Collections, Entity
  <2>3. Touching(events, k) # {} => \E m \in 1..l : IsLast(m, Touching(events, k))
    BY <2>1, LastExists
  <2> HIDE DEF f
  <2> QED BY <2>1, <2>2, <2>3
<1>2. f = [k \in 1..Pages |-> f[k]]
  BY DEF Replaying
<1> HIDE DEF f
<1>3. f \in [1..Pages -> Revision]
  BY <1>1, <1>2
<1> QED BY <1>3, ReplayIs DEF f, Collections, Entity

(* What is replayed are events that were buffered. *)
LEMMA ReplayedAreBuffered ==
  ASSUME ClientInv
  PROVE  /\ Replayed \in Seq(GenuineEvents) /\ Len(Replayed) \in Nat
         /\ DOMAIN Replayed = 1..Len(Replayed)
         /\ \A i \in DOMAIN Replayed : \E j \in DOMAIN store.buffered :
              Replayed[i] = store.buffered[j]
<1> DEFINE at == {i \in DOMAIN store.buffered : store.buffered[i].revision > fetch.revision}
<1>1. store.buffered \in Seq(GenuineEvents) /\ at \in SUBSET DOMAIN store.buffered
  BY DEF ClientInv, StoreType
<1>2. Replayed = Filtered(store.buffered, at)
  BY DEF Replayed
<1> HIDE DEF at
<1>3. PICK events \in Seq(GenuineEvents) : events = store.buffered
  BY <1>1
<1>4. /\ Filtered(events, at) \in Seq(GenuineEvents)
      /\ DOMAIN Filtered(events, at) = 1..Len(Filtered(events, at))
      /\ \A k \in DOMAIN Filtered(events, at) : \E i \in at : Filtered(events, at)[k] = events[i]
  BY <1>1, <1>3, FilteredKeeps
<1>5. at \subseteq DOMAIN store.buffered
  BY <1>1
<1>6. Len(Replayed) \in Nat
  BY <1>2, <1>3, <1>4
<1> QED BY <1>2, <1>3, <1>4, <1>5, <1>6

(* A complete snapshot and the buffered events beyond it make the store *)
(* live, if they follow it without a gap.                               *)
LEMMA SnapshotKeeps ==
  ASSUME ServerInv, ClientInv, Undisturbed, session' = session, Show,
         fetch.pc = "Resuming", fetch.current, fetch.complete, fetch.state = store.generation,
         \A i \in DOMAIN store.buffered : store.buffered[i].generation = store.generation,
         \A i \in DOMAIN Replayed : Replayed[i].revision = fetch.revision + i,
         store' = [store EXCEPT
              !.phase = "Live", !.buffered = <<>>, !.trusted = fetch.revision + Len(Replayed),
              !.view = Replay(fetch.partial, Replayed)],
         fetch' = Idle
  PROVE  /\ ClientInv'
         /\ \/ shown'.generation > shown.generation
            \/ shown'.generation = shown.generation /\ shown'.revision >= shown.revision
<1>1. /\ Current' = Current
      /\ (\A q : At(q)' = At(q))
      /\ GenuineEvents' = GenuineEvents
      /\ Revision' = Revision /\ Collections' = Collections /\ Entity' = Entity
      /\ BufferCapacity' = BufferCapacity /\ Pages' = Pages
  BY UndisturbedKeeps
<1>2. link' = link /\ connections' = connections
  BY DEF Undisturbed
<1>3. /\ NoEntities \in Collections /\ 1 \in Entity /\ 0 \in Revision
      /\ connections \in Nat /\ Current \in Nat /\ Revision = 0..MaxRevision /\ MaxRevision \in Nat
      /\ Entity = 1..Pages /\ Pages \in Nat /\ BufferCapacity \in Nat
  BY NothingIsThere, NatFacts DEF ServerInv, Bounds
<1>4. PICK events, l, r, partial :
        events = Replayed /\ l = Len(Replayed) /\ r = fetch.revision /\ partial = fetch.partial
  OBVIOUS
<1>5. /\ events \in Seq(GenuineEvents) /\ l \in Nat /\ DOMAIN events = 1..l
      /\ \A i \in 1..l : \E j \in DOMAIN store.buffered : events[i] = store.buffered[j]
  BY <1>4, ReplayedAreBuffered
<1>6. r \in Revision /\ partial \in Collections /\ r \in Nat
  BY <1>3, <1>4 DEF ClientInv, FetchType
<1>7. ASSUME NEW i \in 1..l
      PROVE  /\ events[i] \in GenuineEvents
             /\ events[i].revision = r + i /\ events[i].revision \in Revision
             /\ events[i].generation = store.generation
             /\ store.generation = link =>
                  r + i \in 1..Current /\ events[i].change = history[r + i]
  <2>1. events[i] \in GenuineEvents
    BY <1>5
  <2>2. events[i].revision = r + i
    BY <1>4, <1>5
  <2>3. events[i].generation = store.generation
    BY <1>5
  <2>4. PICK e \in GenuineEvents : e = events[i]
    BY <2>1
  <2>5. /\ e.revision \in Revision
        /\ e.generation = link => e.revision \in 1..Current /\ e.change = history[e.revision]
    BY EventFacts
  <2> QED BY <2>1, <2>2, <2>3, <2>4, <2>5
<1>8. PICK trusted, view : trusted = r + l /\ view = Replay(partial, events)
  OBVIOUS
<1>9. trusted \in Revision /\ trusted \in Nat /\ r <= trusted
  <2>1. CASE l = 0
    BY <1>6, <1>8, <2>1
  <2>2. CASE l # 0
    <3>1. l \in 1..l
      BY <1>5, <2>2
    <3>2. r + l \in Revision
      BY <1>7, <3>1
    <3> QED BY <1>5, <1>6, <1>8, <3>2
  <2> QED BY <2>1, <2>2
<1>10. view \in Collections
  <2>1. \A i \in 1..l : events[i].revision \in Revision
    BY <1>7
  <2> QED BY <1>3, <1>5, <1>6, <1>8, <2>1, ReplayType
<1>11. store' = [phase |-> "Live", generation |-> store.generation, trusted |-> trusted,
                 view |-> view, buffered |-> <<>>, queued |-> store.queued]
  <2>1. store = [phase |-> store.phase, generation |-> store.generation,
                 trusted |-> store.trusted, view |-> store.view,
                 buffered |-> store.buffered, queued |-> store.queued]
    BY DEF ClientInv, StoreType
  <2>2. store' = [store EXCEPT !.phase = "Live", !.buffered = <<>>, !.trusted = trusted,
                               !.view = view]
    BY <1>4, <1>8
  <2> QED BY ONLY <2>1, <2>2
<1>12. /\ store'.phase = "Live" /\ store'.generation = store.generation
       /\ store'.trusted = trusted /\ store'.view = view /\ store'.buffered = <<>>
       /\ store'.queued = store.queued
  BY ONLY <1>11
<1>13. fetch' = [pc |-> "Idle", current |-> FALSE, start |-> 0, page |-> 1, revision |-> 0,
                 partial |-> NoEntities, complete |-> FALSE, state |-> 0]
  BY IdleIs
<1>14. shown' = [generation |-> store.generation, revision |-> trusted]
  BY <1>12 DEF Show
<1>15. store.phase = "Syncing" /\ store.queued = {} /\ store.generation # 0
  BY DEF ClientInv, PhaseInv
<1>16. store.generation \in 0..connections
  BY DEF ClientInv, StoreType
<1>17. StoreType'
  <2>1. <<>> \in Seq(GenuineEvents)' /\ Len(<<>>) <= BufferCapacity' /\ {} \subseteq Revision'
    BY <1>1, <1>3
  <2>2. /\ store.generation \in 0..connections' /\ trusted \in Revision'
        /\ view \in Collections'
    BY <1>1, <1>2, <1>9, <1>10, <1>16
  <2>3. store' = [phase |-> store'.phase, generation |-> store'.generation,
                  trusted |-> store'.trusted, view |-> store'.view,
                  buffered |-> store'.buffered, queued |-> store'.queued]
    BY ONLY <1>11
  <2>4. /\ store'.phase \in {"Waiting", "Syncing", "Live"}
        /\ store'.generation \in 0..connections' /\ store'.trusted \in Revision'
        /\ store'.view \in Collections' /\ store'.queued \subseteq Revision'
        /\ store'.buffered \in Seq(GenuineEvents)' /\ Len(store'.buffered) <= BufferCapacity'
    BY ONLY <1>12, <1>15, <2>1, <2>2
  <2> QED BY ONLY <2>3, <2>4 DEF StoreType
<1>18. FetchType'
  BY <1>1, <1>2, <1>3, <1>13 DEF FetchType
<1>19. ShownType'
  BY <1>1, <1>2, <1>9, <1>14, <1>16 DEF ShownType
<1>20. fetch'.pc = "Idle" /\ fetch'.current = FALSE /\ fetch'.complete = FALSE
  BY ONLY <1>13
<1>21. PhaseInv'
  BY <1>12, <1>15, <1>20 DEF PhaseInv
<1>22. FetchInv'
  BY <1>12, <1>15, <1>20 DEF FetchInv, Fresh
<1>23. store.generation = link => trusted <= Current /\ view = At(trusted)
  <2>1. SUFFICES ASSUME store.generation = link PROVE trusted <= Current /\ view = At(trusted)
    OBVIOUS
  <2>2. Fresh /\ HasRevision
    BY <2>1 DEF Fresh, HasRevision, Answered
  <2>3. /\ r <= Current
        /\ \A k \in Entity : IsRead(k) => partial[k] = At(fetch.revision)[k]
    BY <1>4, <2>2 DEF ClientInv, FetchInv
  <2>4. \A k \in Entity : IsRead(k)
    BY <1>3 DEF ClientInv, PhaseInv, IsRead, Answered
  <2>5. \A k \in 1..Pages : partial[k] = Collected(history, Pages, r)[k]
    BY <1>3, <1>4, <2>3, <2>4 DEF At
  <2>6. \A i \in 1..l : events[i].revision = r + i /\ events[i].change = history[r + i]
    BY <1>7, <2>1
  <2>7. Replaying(Pages, partial, events) = Collected(history, Pages, r + l)
    <3>1. PICK h, n : h = history /\ n = Pages
      OBVIOUS
    <3>2. n \in Nat /\ r \in Nat /\ l \in Nat
      BY <1>3, <1>5, <1>6, <3>1
    <3>3. Follows(events, l, h, r)
      BY <1>5, <2>6, <3>1 DEF Follows
    <3>4. Holds(partial, h, n, r)
      BY <2>5, <3>1 DEF Holds
    <3>5. Replaying(n, partial, events) = Collected(h, n, r + l)
      BY <3>2, <3>3, <3>4, ReplayRebuilds
    <3> QED BY <3>1, <3>5
  <2>8. view = At(trusted)
    BY <1>6, <1>8, <2>7, ReplayIs DEF At
  <2>9. trusted <= Current
    <3>1. CASE l = 0
      BY <1>6, <1>8, <2>3, <3>1
    <3>2. CASE l # 0
      <4>1. l \in 1..l
        BY <1>5, <3>2
      <4>2. r + l \in 1..Current
        BY <1>7, <2>1, <4>1
      <4> QED BY <1>3, <1>8, <4>2
    <3> QED BY <3>1, <3>2
  <2> QED BY <2>8, <2>9
<1>24. LiveInv'
  <2>1. At(store.trusted)' = At(trusted)
    BY <1>1, <1>12 DEF At
  <2> QED BY <1>1, <1>2, <1>12, <1>23, <2>1 DEF LiveInv
<1>25. ShownInv'
  <2>1. shown' = [generation |-> store'.generation, revision |-> store'.trusted]
    BY <1>12, <1>14
  <2>2. shown'.generation = store.generation /\ shown'.revision = trusted
    BY <1>14
  <2>3. shown'.generation = link' => shown'.revision <= Current'
    BY <1>1, <1>2, <1>23, <2>2
  <2> QED BY <1>20, <2>1, <2>3 DEF ShownInv, Fresh
<1>26. \/ shown'.generation > shown.generation
       \/ shown'.generation = shown.generation /\ shown'.revision >= shown.revision
  <2>1. shown'.generation = store.generation /\ shown'.revision = trusted
    BY <1>14
  <2>2. /\ shown.generation <= store.generation
        /\ shown.generation = store.generation => shown.revision <= r
    BY <1>4 DEF ClientInv, ShownInv
  <2>3. shown.generation \in Nat /\ store.generation \in Nat /\ shown.revision \in Nat
    BY <1>3, <1>16 DEF ClientInv, ShownType
  <2> QED BY <1>6, <1>9, <2>1, <2>2, <2>3
<1> QED BY <1>17, <1>18, <1>19, <1>21, <1>22, <1>24, <1>25, <1>26 DEF ClientInv

------------------------------------------------------------
(* The turns of the store, one after the other. *)

ShownAdvances ==
  \/ shown' = shown
  \/ shown'.generation > shown.generation
  \/ shown'.generation = shown.generation /\ shown'.revision >= shown.revision

LEMMA TurnKeeps ==
  ASSUME StreamInv, Undisturbed, session' = session, abandoned' = abandoned, faults' = faults,
         opening' = {} \/ opening' = opening,
         opening' # {} => /\ fetch'.pc = fetch.pc /\ fetch'.page = fetch.page
                          /\ fetch'.start = fetch.start /\ shown' = shown,
         MailInv', ClientInv'
  PROVE  StreamInv'
BY UndisturbedServer, OpeningKept DEF StreamInv, Undisturbed

LEMMA MailRests ==
  ASSUME StreamInv, Undisturbed, inbox' = inbox, boot' = boot
  PROVE  MailInv'
BY UndisturbedKeeps, MailStays DEF StreamInv

(* Messages are taken from the front; what initialize knows is genuine. *)
LEMMA MailMoves ==
  ASSUME StreamInv, Undisturbed, inbox' = inbox \/ (inbox # <<>> /\ inbox' = Tail(inbox)),
         NEW stage \in {"Reading", "Read", "Done"}, NEW state \in 0..connections,
         NEW moved \in BOOLEAN, NEW overflow \in BOOLEAN,
         NEW early \in Seq(GenuineEvents), Len(early) <= BufferCapacity,
         boot' = [stage |-> stage, state |-> state, moved |-> moved, early |-> early,
                  overflow |-> overflow]
  PROVE  MailInv'
<1>1. /\ GenuineMessages' = GenuineMessages /\ GenuineEvents' = GenuineEvents
      /\ BufferCapacity' = BufferCapacity /\ connections' = connections
  BY UndisturbedKeeps DEF StreamInv, Undisturbed
<1>2. inbox \in Seq(GenuineMessages)
  BY DEF StreamInv, MailInv
<1>3. inbox' \in Seq(GenuineMessages)
  BY <1>2
<1>4. /\ boot'.stage = stage /\ boot'.state = state /\ boot'.moved = moved
      /\ boot'.early = early /\ boot'.overflow = overflow
  OBVIOUS
<1> QED BY <1>1, <1>3, <1>4 DEF MailInv

LEMMA BootIs ==
  ASSUME StreamInv
  PROVE  /\ boot = [stage |-> boot.stage, state |-> boot.state, moved |-> boot.moved,
                    early |-> boot.early, overflow |-> boot.overflow]
         /\ boot.stage \in {"Reading", "Read", "Done"} /\ boot.state \in 0..connections
         /\ boot.moved \in BOOLEAN /\ boot.overflow \in BOOLEAN
         /\ boot.early \in Seq(GenuineEvents) /\ Len(boot.early) <= BufferCapacity
         /\ <<>> \in Seq(GenuineEvents) /\ Len(<<>>) <= BufferCapacity
         /\ 0 \in 0..connections /\ link \in 0..connections
BY NatFacts DEF StreamInv, Bounds, MailInv

LEMMA StoreRests ==
  ASSUME StreamInv, Undisturbed, session' = session, store' = store, fetch' = fetch,
         Show \/ shown' = shown
  PROVE  ClientInv' /\ shown' = shown
<1>1. shown' = shown
  BY DEF StreamInv, ClientInv, ShownInv, Show, Live
<1>2. Extends
  BY UndisturbedKeeps DEF StreamInv
<1> QED BY <1>1, <1>2, ClientStays DEF StreamInv

(* A state of the connection invalidates, begins anew or changes nothing. *)
LEMMA HandleStateKeeps ==
  ASSUME StreamInv, Undisturbed, session' = session, Show,
         NEW g \in 0..connections,
         NEW f, f = fetch \/ (f = Idle /\ g # store.generation),
         HandleState(f, g)
  PROVE  /\ ClientInv' /\ shown' = shown
         /\ f = fetch /\ fetch.pc # "Idle" =>
              /\ fetch'.pc = fetch.pc /\ fetch'.page = fetch.page /\ fetch'.start = fetch.start
<1>1. ServerInv /\ ClientInv /\ connections \in Nat /\ Current \in Nat
  BY NatFacts DEF StreamInv
<1>2. CASE g = 0
  BY <1>1, <1>2, InvalidateKeeps DEF HandleState
<1>3. CASE g # 0 /\ g = store.generation
  BY <1>3, StoreRests DEF HandleState
<1>4. CASE g # 0 /\ g # store.generation
  <2>1. PICK at : at = {i \in DOMAIN boot.early : boot.early[i].generation = g}
    OBVIOUS
  <2>2. PICK seed : seed = Filtered(boot.early, at)
    OBVIOUS
  <2>3. BeginSync(f, g, 0, seed)
    BY <1>4, <2>1, <2>2 DEF HandleState
  <2>4. seed \in Seq(GenuineEvents)
    BY <2>1, <2>2, BootIs, FilteredKeeps
  <2>5. g \in 1..connections /\ 0 \in Revision /\ 0 <= Current
    BY <1>1, <1>4, NothingIsThere DEF ServerInv
  <2> QED BY <1>1, <2>3, <2>4, <2>5, BeginSyncKeeps
<1> QED BY <1>2, <1>3, <1>4

(* Requests are asked again, given up, or confirmed. *)
LEMMA RefuseSessionKeeps ==
  ASSUME StreamInv, RefuseSession, scenario' = scenario
  PROVE  StreamInv' /\ shown' = shown
<1>1. /\ history' = history /\ entities' = entities /\ opening' = {} /\ session' = session
      /\ abandoned' = abandoned /\ link' = link /\ connections' = connections
      /\ sent' = sent /\ inbox' = inbox /\ boot' = boot /\ faults' = faults
      /\ RetryLater /\ Show
  BY DEF RefuseSession, bridge
<1>2. Undisturbed
  BY <1>1 DEF Undisturbed
<1>3. ClientInv' /\ shown' = shown
  BY <1>1, <1>2, RetryKeeps DEF StreamInv
<1> QED BY <1>1, <1>2, <1>3, MailRests, TurnKeeps

LEMMA NothingOpens ==
  ASSUME StreamInv, opening # {}
  PROVE  fetch.pc = "Asking" /\ fetch.page = 1 /\ store.phase # "Live"
BY DEF StreamInv, OpeningInv, ClientInv, PhaseInv

(* A turn that only concerns the store and its request. *)
Calm ==
  /\ history' = history /\ entities' = entities /\ opening' = opening /\ session' = session
  /\ abandoned' = abandoned /\ link' = link /\ connections' = connections
  /\ sent' = sent /\ faults' = faults

LEMMA CalmIsUndisturbed ==
  ASSUME Calm, scenario' = scenario
  PROVE  Undisturbed
BY DEF Calm, Undisturbed

LEMMA CalmKeeps ==
  ASSUME StreamInv, Calm, scenario' = scenario, opening = {}, inbox' = inbox, boot' = boot,
         ClientInv'
  PROVE  StreamInv'
BY CalmIsUndisturbed, MailRests, TurnKeeps DEF Calm

LEMMA RefusePageKeeps ==
  ASSUME StreamInv, RefusePage, scenario' = scenario
  PROVE  StreamInv' /\ shown' = shown
<1>1. Calm /\ inbox' = inbox /\ boot' = boot /\ RetryLater /\ Show /\ fetch.page > 1
  BY DEF RefusePage, server, bridge, Calm
<1>2. opening = {}
  <2>1. fetch.page # 1
    BY <1>1, NatFacts DEF StreamInv, ClientInv, FetchType, Bounds
  <2> QED BY <2>1, NothingOpens
<1>3. ClientInv' /\ shown' = shown
  BY <1>1, CalmIsUndisturbed, RetryKeeps DEF StreamInv, Calm
<1> QED BY <1>1, <1>2, <1>3, CalmKeeps

LEMMA RefuseStartKeeps ==
  ASSUME StreamInv, RefuseStart, scenario' = scenario
  PROVE  StreamInv' /\ shown' = shown
<1>1. Calm /\ inbox' = inbox /\ boot' = boot /\ Show /\ opening = {}
  BY DEF RefuseStart, server, bridge, Calm
<1>2. Undisturbed /\ session' = session
  BY <1>1, CalmIsUndisturbed DEF Calm
<1>3. ClientInv' /\ shown' = shown
  <2>1. CASE fetch.current
    BY <1>1, <1>2, <2>1, InvalidateKeeps DEF RefuseStart, StreamInv
  <2>2. CASE ~ fetch.current
    BY <1>1, <1>2, <2>2, PumpKeeps DEF RefuseStart, StreamInv
  <2> QED BY <2>1, <2>2
<1> QED BY <1>1, <1>3, CalmKeeps

LEMMA RetryTimerKeeps ==
  ASSUME StreamInv, RetryTimer, scenario' = scenario
  PROVE  StreamInv' /\ shown' = shown
<1>1. Calm /\ inbox' = inbox /\ boot' = boot /\ Show /\ fetch.pc = "Idle" /\ Pump(store.queued)
  BY DEF RetryTimer, server, bridge, Calm
<1>2. opening = {} /\ ~ fetch.current
  BY <1>1, NothingOpens DEF StreamInv, ClientInv, PhaseInv
<1>3. ClientInv' /\ shown' = shown
  BY <1>1, <1>2, CalmIsUndisturbed, PumpKeeps DEF StreamInv, Calm
<1> QED BY <1>1, <1>2, <1>3, CalmKeeps

LEMMA GiveUpKeeps ==
  ASSUME StreamInv, GiveUp, scenario' = scenario
  PROVE  StreamInv' /\ shown' = shown
BY CalmIsUndisturbed, PumpKeeps, CalmKeeps DEF GiveUp, server, bridge, Calm, StreamInv

LEMMA ConfirmKeeps ==
  ASSUME StreamInv, Confirm, scenario' = scenario
  PROVE  StreamInv' /\ shown' = shown
<1>1. /\ Calm /\ inbox' = inbox /\ boot' = boot /\ store' = store /\ shown' = shown
      /\ fetch.pc = "Reading" /\ fetch' = [fetch EXCEPT !.pc = "Resuming", !.state = link]
  BY DEF Confirm, server, bridge, Calm
<1>2. opening = {}
  BY <1>1, NothingOpens
<1>3. Undisturbed /\ session' = session
  BY <1>1, CalmIsUndisturbed DEF Calm
<1>4. ClientInv'
  BY <1>1, <1>3, ConfirmedKeeps DEF StreamInv
<1> QED BY <1>1, <1>2, <1>4, CalmKeeps

(* A complete snapshot is accepted, or fetched anew. *)
LEMMA AcceptSnapshotKeeps ==
  ASSUME StreamInv, Undisturbed, session' = session, Show,
         fetch.pc = "Resuming", fetch.current, fetch.complete, fetch.state = store.generation,
         AcceptSnapshot
  PROVE  ClientInv' /\ ShownAdvances
<1>1. ServerInv /\ ClientInv /\ connections \in Nat /\ Current \in Nat /\ 0 \in Revision
  BY NatFacts, NothingIsThere DEF StreamInv, ServerInv
<1>2. store.generation \in 1..connections
  BY <1>1 DEF ClientInv, PhaseInv, StoreType
<1>3. PICK f, g : f = Idle /\ g = store.generation
  OBVIOUS
<1>4. <<>> \in Seq(GenuineEvents)
  BY BootIs
<1> DEFINE mixed == \E i \in DOMAIN store.buffered :
                      store.buffered[i].generation # store.generation
           gap == \E i \in DOMAIN Replayed : Replayed[i].revision # fetch.revision + i
<1>5. CASE mixed
  <2>1. BeginSync(f, g, 0, <<>>)
    BY <1>3, <1>5 DEF AcceptSnapshot
  <2>2. g \in 1..connections /\ 0 <= Current
    BY <1>1, <1>2, <1>3
  <2>3. ClientInv' /\ shown' = shown
    BY <1>1, <1>3, <1>4, <2>1, <2>2, BeginSyncKeeps
  <2> QED BY <2>3 DEF ShownAdvances
<1>6. CASE ~ mixed /\ gap
  <2>1. PICK start : start = fetch.revision
    OBVIOUS
  <2>2. BeginSync(f, g, start, <<>>)
    BY <1>3, <1>6, <2>1 DEF AcceptSnapshot
  <2>3. start \in Revision /\ g \in 1..connections
    BY <1>1, <1>2, <1>3, <2>1 DEF ClientInv, FetchType
  <2>4. g = link => start <= Current
    BY <1>1, <1>3, <2>1 DEF Fresh, HasRevision, Answered, ClientInv, FetchInv
  <2>5. ClientInv' /\ shown' = shown
    BY <1>1, <1>3, <1>4, <2>2, <2>3, <2>4, BeginSyncKeeps
  <2> QED BY <2>5 DEF ShownAdvances
<1>7. CASE ~ mixed /\ ~ gap
  <2>1. \A i \in DOMAIN store.buffered : store.buffered[i].generation = store.generation
    BY <1>7
  <2>2. \A i \in DOMAIN Replayed : Replayed[i].revision = fetch.revision + i
    BY <1>7
  <2>3. /\ store' = [store EXCEPT
              !.phase = "Live", !.buffered = <<>>, !.trusted = fetch.revision + Len(Replayed),
              !.view = Replay(fetch.partial, Replayed)]
        /\ fetch' = Idle
    BY <1>7 DEF AcceptSnapshot
  <2> QED BY <1>1, <2>1, <2>2, <2>3, SnapshotKeeps DEF ShownAdvances
<1> QED BY <1>5, <1>6, <1>7

LEMMA ResumeKeeps ==
  ASSUME StreamInv, Resume, scenario' = scenario
  PROVE  StreamInv' /\ ShownAdvances
<1>1. Calm /\ inbox' = inbox /\ boot' = boot /\ Show /\ fetch.pc = "Resuming"
  BY DEF Resume, server, bridge, Calm
<1>2. opening = {}
  BY <1>1, NothingOpens
<1>3. Undisturbed /\ session' = session /\ ServerInv /\ ClientInv
  BY <1>1, CalmIsUndisturbed DEF Calm, StreamInv
<1>4. CASE ~ fetch.current
  <2>1. Pump(store.queued)
    BY <1>4 DEF Resume
  <2>2. ClientInv' /\ shown' = shown
    BY <1>1, <1>3, <1>4, <2>1, PumpKeeps
  <2> QED BY <1>1, <1>2, <2>2, CalmKeeps DEF ShownAdvances
<1>5. CASE fetch.current /\ fetch.state # store.generation
  <2>1. PICK f, g : f = Idle /\ g = fetch.state
    OBVIOUS
  <2>2. HandleState(f, g)
    BY <1>5, <2>1 DEF Resume
  <2>3. g \in 0..connections
    BY <1>3, <2>1 DEF ClientInv, FetchType
  <2>4. ClientInv' /\ shown' = shown
    BY <1>1, <1>3, <1>5, <2>1, <2>2, <2>3, HandleStateKeeps
  <2> QED BY <1>1, <1>2, <2>4, CalmKeeps DEF ShownAdvances
<1>6. CASE fetch.current /\ fetch.state = store.generation /\ fetch.complete
  <2>1. AcceptSnapshot
    BY <1>6 DEF Resume
  <2>2. ClientInv' /\ ShownAdvances
    BY <1>1, <1>3, <1>6, <2>1, AcceptSnapshotKeeps
  <2> QED BY <1>1, <1>2, <2>2, CalmKeeps
<1>7. CASE fetch.current /\ fetch.state = store.generation /\ ~ fetch.complete
  <2>1. AcceptedPage /\ store' = store
    BY <1>7 DEF Resume
  <2>2. ClientInv' /\ shown' = shown
    BY <1>1, <1>3, <1>7, <2>1, AcceptedPageKeeps
  <2> QED BY <1>1, <1>2, <2>2, CalmKeeps DEF ShownAdvances
<1> QED BY <1>4, <1>5, <1>6, <1>7

(* What the store learns while it starts. *)
LEMMA ReadInitialStateKeeps ==
  ASSUME StreamInv, ReadInitialState, scenario' = scenario
  PROVE  StreamInv' /\ shown' = shown
<1>1. /\ Calm /\ inbox' = inbox /\ store' = store /\ fetch' = fetch /\ shown' = shown
      /\ boot' = [boot EXCEPT !.stage = "Read", !.state = link]
  BY DEF ReadInitialState, server, bridge, Calm
<1>2. Undisturbed /\ session' = session
  BY <1>1, CalmIsUndisturbed DEF Calm
<1>3. MailInv'
  <2>1. PICK stage, state : stage = "Read" /\ state = link
    OBVIOUS
  <2>2. boot' = [stage |-> stage, state |-> state, moved |-> boot.moved,
                 early |-> boot.early, overflow |-> boot.overflow]
    BY <1>1, <2>1, BootIs
  <2>3. PICK moved, early, overflow :
          moved = boot.moved /\ early = boot.early /\ overflow = boot.overflow
    OBVIOUS
  <2> QED BY <1>1, <1>2, <2>1, <2>2, <2>3, BootIs, MailMoves
<1>4. ClientInv'
  BY <1>1, <1>2, StoreRests
<1> QED BY <1>1, <1>2, <1>3, <1>4, TurnKeeps DEF Calm

LEMMA ResolveInitialStateKeeps ==
  ASSUME StreamInv, ResolveInitialState, scenario' = scenario
  PROVE  StreamInv' /\ shown' = shown
<1>1. Calm /\ inbox' = inbox /\ Show /\ boot' = Booted
  BY DEF ResolveInitialState, server, bridge, Calm
<1>2. Undisturbed /\ session' = session /\ abandoned' = abandoned /\ faults' = faults
      /\ opening' = opening
  BY <1>1, CalmIsUndisturbed DEF Calm
<1>3. MailInv'
  BY <1>1, <1>2, BootIs, MailMoves DEF Booted
<1>4. /\ ClientInv' /\ shown' = shown
      /\ fetch.pc # "Idle" =>
           fetch'.pc = fetch.pc /\ fetch'.page = fetch.page /\ fetch'.start = fetch.start
  <2>1. CASE boot.moved
    BY <1>1, <1>2, <2>1, StoreRests DEF ResolveInitialState
  <2>2. CASE ~ boot.moved
    <3>1. PICK f, g : f = fetch /\ g = boot.state
      OBVIOUS
    <3>2. HandleState(f, g)
      BY <2>2, <3>1 DEF ResolveInitialState
    <3>3. g \in 0..connections
      BY <3>1, BootIs
    <3> QED BY <1>1, <1>2, <3>1, <3>2, <3>3, HandleStateKeeps
  <2> QED BY <2>1, <2>2
<1>5. opening' # {} => fetch.pc # "Idle"
  BY <1>2, NothingOpens
<1> QED BY <1>2, <1>3, <1>4, <1>5, TurnKeeps

(* Messages. *)
LEMMA ReceiveStateKeeps ==
  ASSUME StreamInv, ReceiveState, scenario' = scenario
  PROVE  StreamInv' /\ shown' = shown
<1>1. /\ Calm /\ inbox # <<>> /\ inbox' = Tail(inbox) /\ Show
      /\ HandleState(fetch, Head(inbox).generation)
      /\ boot' = IF boot.stage = "Done" THEN boot
                 ELSE [boot EXCEPT !.moved = TRUE, !.early = <<>>, !.overflow = FALSE]
  BY DEF ReceiveState, server, bridge, Calm
<1>2. Undisturbed /\ session' = session /\ abandoned' = abandoned /\ faults' = faults
      /\ opening' = opening
  BY <1>1, CalmIsUndisturbed DEF Calm
<1>3. MailInv'
  <2>1. CASE boot.stage = "Done"
    <3>1. PICK stage, state, moved, early, overflow :
            /\ stage = boot.stage /\ state = boot.state /\ moved = boot.moved
            /\ early = boot.early /\ overflow = boot.overflow
      OBVIOUS
    <3>2. boot' = [stage |-> stage, state |-> state, moved |-> moved, early |-> early,
                   overflow |-> overflow]
      BY <1>1, <2>1, <3>1, BootIs
    <3> QED BY <1>1, <1>2, <3>1, <3>2, BootIs, MailMoves
  <2>2. CASE boot.stage # "Done"
    <3>1. PICK stage, state : stage = boot.stage /\ state = boot.state
      OBVIOUS
    <3>2. boot' = [boot EXCEPT !.moved = TRUE, !.early = <<>>, !.overflow = FALSE]
      BY <1>1, <2>2
    <3>3. boot' = [stage |-> stage, state |-> state, moved |-> TRUE, early |-> <<>>,
                   overflow |-> FALSE]
      BY <3>1, <3>2, BootIs
    <3> QED BY <1>1, <1>2, <3>1, <3>3, BootIs, MailMoves
  <2> QED BY <2>1, <2>2
<1>4. /\ ClientInv' /\ shown' = shown
      /\ fetch.pc # "Idle" =>
           fetch'.pc = fetch.pc /\ fetch'.page = fetch.page /\ fetch'.start = fetch.start
  <2>1. PICK f, m : f = fetch /\ m = Head(inbox)
    OBVIOUS
  <2>2. PICK g : g = m.generation
    OBVIOUS
  <2>3. HandleState(f, g)
    BY <1>1, <2>1, <2>2
  <2>4. m \in GenuineMessages
    BY <1>1, <2>1 DEF StreamInv, MailInv
  <2>5. g \in 0..connections
    BY <2>2, <2>4, NatFacts DEF GenuineMessages, Genuine, Message, StreamInv, Bounds
  <2> QED BY <1>1, <1>2, <2>1, <2>3, <2>5, HandleStateKeeps
<1>5. opening' # {} => fetch.pc # "Idle"
  BY <1>2, NothingOpens
<1> QED BY <1>2, <1>3, <1>4, <1>5, TurnKeeps

LEMMA EarlyIsKept ==
  ASSUME StreamInv, Undisturbed, inbox # <<>>, inbox' = Tail(inbox),
         NEW e \in GenuineEvents, boot' = boot \/ BufferEarly(e)
  PROVE  MailInv'
<1>1. PICK stage, state, moved, early, overflow :
        /\ stage = boot.stage /\ state = boot.state /\ moved = boot.moved
        /\ early = boot.early /\ overflow = boot.overflow
  OBVIOUS
<1>2. /\ boot = [stage |-> stage, state |-> state, moved |-> moved, early |-> early,
                 overflow |-> overflow]
      /\ stage \in {"Reading", "Read", "Done"} /\ state \in 0..connections
      /\ moved \in BOOLEAN /\ overflow \in BOOLEAN
      /\ early \in Seq(GenuineEvents) /\ Len(early) <= BufferCapacity
  BY <1>1, BootIs
<1>3. CASE boot' = boot
  BY <1>2, <1>3, MailMoves
<1>4. CASE boot' = [boot EXCEPT !.early = <<>>, !.overflow = TRUE]
  BY <1>2, <1>4, BootIs, MailMoves
<1>5. CASE boot' = [boot EXCEPT !.early = Append(@, e)] /\ ~ (Len(early) >= BufferCapacity)
  <2>1. PICK longer : longer = Append(early, e)
    OBVIOUS
  <2>2. longer \in Seq(GenuineEvents) /\ Len(longer) <= BufferCapacity
    <3>1. Len(early) \in Nat /\ BufferCapacity \in Nat
      BY <1>2, NatFacts DEF StreamInv, Bounds
    <3>2. longer \in Seq(GenuineEvents) /\ Len(longer) = Len(early) + 1
      BY <1>2, <2>1
    <3> QED BY <1>5, <3>1, <3>2
  <2>3. boot' = [stage |-> stage, state |-> state, moved |-> moved, early |-> longer,
                 overflow |-> overflow]
    BY <1>2, <1>5, <2>1
  <2> QED BY <1>2, <2>2, <2>3, MailMoves
<1> QED BY <1>1, <1>3, <1>4, <1>5 DEF BufferEarly

LEMMA ReceiveEventKeeps ==
  ASSUME StreamInv, ReceiveEvent, scenario' = scenario
  PROVE  StreamInv' /\ ShownAdvances
<1>1. /\ Calm /\ inbox # <<>> /\ inbox' = Tail(inbox) /\ Show /\ Head(inbox).kind = "Event"
  BY DEF ReceiveEvent, server, bridge, Calm
<1>2. /\ Undisturbed /\ session' = session /\ abandoned' = abandoned /\ faults' = faults
      /\ opening' = opening /\ ServerInv /\ ClientInv
  BY <1>1, CalmIsUndisturbed DEF Calm, StreamInv
<1>3. PICK e \in GenuineEvents : e = Head(inbox)
  BY <1>1 DEF StreamInv, MailInv, GenuineEvents
<1>4. PICK f, g : f = fetch /\ g = store.generation
  OBVIOUS
<1>5. /\ store.generation = 0 =>
           \/ boot' = boot /\ store' = store /\ fetch' = fetch
           \/ BufferEarly(e)
      /\ store.generation # 0 =>
           /\ boot' = boot
           /\ e.generation # store.generation => BeginSync(f, g, 0, <<>>)
           /\ e.generation = store.generation /\ store.phase = "Syncing" => Buffer(e)
           /\ e.generation = store.generation /\ store.phase # "Syncing" => Follow(e)
  BY <1>3, <1>4 DEF ReceiveEvent
<1>6. MailInv'
  BY <1>1, <1>2, <1>5, EarlyIsKept
<1>7. /\ 0 \in Revision /\ 0 <= Current /\ Current \in Nat /\ Bounds
      /\ store.generation # 0 => g \in 1..connections
      /\ <<>> \in Seq(GenuineEvents) /\ <<e>> \in Seq(GenuineEvents)
  BY <1>2, <1>4, NatFacts, NothingIsThere DEF ClientInv, StoreType, ServerInv
<1> DEFINE Steady == /\ ClientInv' /\ shown' = shown
                     /\ fetch.pc # "Idle" =>
                          /\ fetch'.pc = fetch.pc /\ fetch'.page = fetch.page
                          /\ fetch'.start = fetch.start
<1>8. CASE store.generation = 0
  <2>1. store' = store /\ fetch' = fetch
    BY <1>5, <1>8 DEF BufferEarly
  <2> QED BY <1>1, <1>2, <1>6, <2>1, StoreRests, TurnKeeps DEF ShownAdvances
<1>9. ASSUME Steady PROVE StreamInv' /\ ShownAdvances
  <2>1. opening' # {} => fetch.pc # "Idle"
    BY <1>2, NothingOpens
  <2> QED BY <1>2, <1>6, <1>9, <2>1, TurnKeeps DEF ShownAdvances
<1>10. CASE store.generation # 0 /\ e.generation # store.generation
  <2>1. BeginSync(f, g, 0, <<>>)
    BY <1>5, <1>10
  <2>2. Steady
    BY <1>1, <1>2, <1>4, <1>7, <1>10, <2>1, BeginSyncKeeps
  <2> QED BY <1>9, <2>2
<1>11. CASE store.generation # 0 /\ e.generation = store.generation /\ store.phase = "Syncing"
  <2>1. Buffer(e)
    BY <1>5, <1>11
  <2>2. CASE Len(store.buffered) >= BufferCapacity
    <3>1. BeginSync(f, g, 0, <<>>)
      BY <1>4, <2>1, <2>2 DEF Buffer
    <3>2. Steady
      BY <1>1, <1>2, <1>4, <1>7, <1>11, <3>1, BeginSyncKeeps
    <3> QED BY <1>9, <3>2
  <2>3. CASE ~ (Len(store.buffered) >= BufferCapacity)
    <3>1. store' = [store EXCEPT !.buffered = Append(@, e)] /\ fetch' = fetch
      BY <2>1, <2>3 DEF Buffer
    <3>2. Len(store.buffered) < BufferCapacity
      BY <1>2, <1>7, <2>3 DEF ClientInv, StoreType, Bounds
    <3>3. ClientInv' /\ shown' = shown
      BY <1>1, <1>2, <1>11, <3>1, <3>2, BufferKeeps
    <3> QED BY <1>9, <3>1, <3>3
  <2> QED BY <2>2, <2>3
<1>12. CASE store.generation # 0 /\ e.generation = store.generation /\ store.phase # "Syncing"
  <2>1. Follow(e)
    BY <1>5, <1>12
  <2>2. Live
    BY <1>2, <1>12 DEF ClientInv, StoreType, PhaseInv, Live
  <2>3. CASE e.revision = store.trusted + 1
    <3>1. /\ store' = [store EXCEPT !.view = Apply(@, e.change, e.revision),
                                    !.trusted = e.revision]
          /\ fetch' = fetch
      BY <2>1, <2>3 DEF Follow
    <3>2. /\ ClientInv'
          /\ shown'.generation = shown.generation /\ shown'.revision = shown.revision + 1
      BY <1>1, <1>2, <1>12, <2>2, <2>3, <3>1, FollowKeeps
    <3>3. opening' = {}
      BY <1>2, <2>2, NothingOpens DEF Live
    <3>4. ShownAdvances
      <4>1. shown.revision \in Nat
        BY <1>2, <1>7, NatFacts DEF ClientInv, ShownType, Bounds
      <4> QED BY <3>2, <4>1 DEF ShownAdvances
    <3> QED BY <1>2, <1>6, <3>2, <3>3, <3>4, TurnKeeps
  <2>4. CASE e.revision # store.trusted + 1
    <3>1. PICK start : start = store.trusted
      OBVIOUS
    <3>2. BeginSync(f, g, start, <<e>>)
      BY <1>4, <2>1, <2>4, <3>1 DEF Follow
    <3>3. start \in Revision /\ (g = link => start <= Current)
      BY <1>2, <1>4, <2>2, <3>1 DEF ClientInv, StoreType, LiveInv
    <3>4. Steady
      BY <1>1, <1>2, <1>4, <1>7, <1>12, <3>2, <3>3, BeginSyncKeeps
    <3> QED BY <1>9, <3>4
  <2> QED BY <2>3, <2>4
<1> QED BY <1>8, <1>10, <1>11, <1>12

------------------------------------------------------------
(* Every step. *)

LEMMA NextKeeps ==
  ASSUME StreamInv, Next
  PROVE  StreamInv' /\ ShownAdvances
<1>1. scenario' = scenario
  BY DEF Next
<1>2. CASE ApplyDelta
  BY <1>1, <1>2, ApplyDeltaKeeps DEF ApplyDelta, Publish, client, ShownAdvances
<1>3. CASE PublishLog
  BY <1>1, <1>3, PublishLogKeeps DEF PublishLog, Publish, client, ShownAdvances
<1>4. CASE Connect
  BY <1>1, <1>4, ConnectKeeps DEF Connect, client, ShownAdvances
<1>5. CASE Disconnect
  BY <1>1, <1>5, DisconnectKeeps DEF Disconnect, client, ShownAdvances
<1>6. CASE Restart
  BY <1>1, <1>6, RestartKeeps DEF Restart, client, ShownAdvances
<1>7. CASE Forward
  BY <1>1, <1>7, ForwardKeeps DEF Forward, client, ShownAdvances
<1>8. CASE Serve
  <2>1. CASE FixRevision
    BY <1>1, <2>1, FixRevisionKeeps DEF FixRevision, client, ShownAdvances
  <2>2. CASE FirstPage
    BY <1>1, <2>2, FirstPageKeeps DEF FirstPage, ShownAdvances
  <2>3. CASE NextPage
    BY <1>1, <2>3, NextPageKeeps DEF NextPage, ShownAdvances
  <2>4. CASE RefuseSession
    BY <1>1, <2>4, RefuseSessionKeeps DEF ShownAdvances
  <2>5. CASE RefusePage
    BY <1>1, <2>5, RefusePageKeeps DEF ShownAdvances
  <2>6. CASE RefuseStart
    BY <1>1, <2>6, RefuseStartKeeps DEF ShownAdvances
  <2> QED BY <1>8, <2>1, <2>2, <2>3, <2>4, <2>5, <2>6 DEF Serve
<1>9. CASE LoseAnswer
  BY <1>1, <1>9, LoseAnswerKeeps DEF LoseAnswer, client, ShownAdvances
<1>10. CASE ExpireSession \/ ExpireUnused
  BY <1>1, <1>10, ExpireKeeps DEF ExpireSession, ExpireUnused, client, ShownAdvances
<1>11. CASE ReadInitialState
  BY <1>1, <1>11, ReadInitialStateKeeps DEF ShownAdvances
<1>12. CASE ResolveInitialState
  BY <1>1, <1>12, ResolveInitialStateKeeps DEF ShownAdvances
<1>13. CASE Receive
  BY <1>1, <1>13, ReceiveStateKeeps, ReceiveEventKeeps DEF ShownAdvances, Receive
<1>14. CASE Sync
  <2>1. CASE RetryTimer
    BY <1>1, <2>1, RetryTimerKeeps DEF ShownAdvances
  <2>2. CASE GiveUp
    BY <1>1, <2>2, GiveUpKeeps DEF ShownAdvances
  <2>3. CASE Confirm
    BY <1>1, <2>3, ConfirmKeeps DEF ShownAdvances
  <2>4. CASE Resume
    BY <1>1, <2>4, ResumeKeeps
  <2> QED BY <1>14, <2>1, <2>2, <2>3, <2>4 DEF Sync
<1> QED BY <1>2, <1>3, <1>4, <1>5, <1>6, <1>7, <1>8, <1>9, <1>10, <1>11, <1>12, <1>13, <1>14
       DEF Next

LEMMA StutterKeeps ==
  ASSUME StreamInv, UNCHANGED vars
  PROVE  StreamInv' /\ shown' = shown
<1>1. /\ Calm /\ inbox' = inbox /\ boot' = boot /\ store' = store /\ fetch' = fetch
      /\ shown' = shown /\ scenario' = scenario
  BY DEF vars, server, bridge, client, Calm
<1>2. /\ Undisturbed /\ session' = session /\ abandoned' = abandoned /\ faults' = faults
      /\ opening' = opening
  BY <1>1, CalmIsUndisturbed DEF Calm
<1>3. MailInv' /\ ClientInv'
  BY <1>1, <1>2, MailRests, StoreRests
<1> QED BY <1>1, <1>2, <1>3, TurnKeeps

(* What one actor knows of another is true: sessions are frozen            *)
(* collections, messages of the present connection are of its history, the *)
(* pages of a request are of one revision, and what is shown is not ahead. *)
THEOREM StreamInvHolds == Spec => []StreamInv
<1>1. StreamInv /\ [Next]_vars => StreamInv'
  BY NextKeeps, StutterKeeps
<1> QED BY InitStream, <1>1, PTL DEF Spec

(* For every number of entities, bounds and schedule: a synchronized store *)
(* of the present connection shows exactly the Supervisor's collections of *)
(* the revision it shows, and no request of it asks beyond that revision   *)
(* (LiveViewIsServerState).                                                *)
THEOREM ViewsAreServerState == Spec => []LiveViewIsServerState
BY StreamInvHolds, InvIsTrustworthy, PTL

(* No late answer, repeated event or reconnect makes the user see an *)
(* earlier revision of the same connection, or an earlier connection *)
(* (ShownNeverGoesBack).                                             *)
THEOREM ShownOnlyAdvances == Spec => ShownNeverGoesBack
<1>1. StreamInv /\ [Next]_vars =>
        [\/ shown'.generation > shown.generation
         \/ shown'.generation = shown.generation /\ shown'.revision >= shown.revision]_shown
  BY NextKeeps, StutterKeeps DEF ShownAdvances
<1> QED BY StreamInvHolds, <1>1, PTL DEF Spec, ShownNeverGoesBack

------------------------------------------------------------
(* The feed of discovery: what a desk, a view and what is pending are. *)

(* A desk, a view and what is pending are records with these fields. *)
IsDesk(a) ==
  a = [records |-> a.records, runs |-> a.runs, ports |-> a.ports, results |-> a.results,
       availability |-> a.availability, oldRecords |-> a.oldRecords, oldScan |-> a.oldScan,
       oldResults |-> a.oldResults, oldAvailability |-> a.oldAvailability,
       pending |-> a.pending, refused |-> a.refused, view |-> a.view]
IsView(v) ==
  v = [records |-> v.records, ports |-> v.ports, availability |-> v.availability, sees |-> v.sees]
IsPending(q) ==
  q = [processes |-> q.processes, ports |-> q.ports, availability |-> q.availability]
IsFeeding(a) == IsDesk(a) /\ IsView(a.view) /\ IsPending(a.pending)

(* What the updates of a desk say, those still accumulating included. *)
SaysOf(view, pending, p) ==
  IF p \in DOMAIN pending.processes THEN pending.processes[p] ELSE view.records[p]
SaysAt(view, pending, k) == IF k \in DOMAIN pending.ports THEN pending.ports[k] ELSE view.ports[k]
SaysOn(view, pending) ==
  IF pending.availability = <<>> THEN view.availability ELSE pending.availability["All"]
SaidOf(a, p) == SaysOf(a.view, a.pending, p)
SaidAt(a, k) == SaysAt(a.view, a.pending, k)
SaidOn(a) == SaysOn(a.view, a.pending)

SameCaches(a, b) ==
  /\ b.records = a.records /\ b.runs = a.runs /\ b.ports = a.ports /\ b.results = a.results
  /\ b.availability = a.availability /\ b.oldRecords = a.oldRecords /\ b.oldScan = a.oldScan
  /\ b.oldResults = a.oldResults /\ b.oldAvailability = a.oldAvailability

LEMMA AppliedSays ==
  ASSUME NEW v, NEW q, IsView(v), IsPending(q)
  PROVE  /\ IsView(Applied(v, q)) /\ Applied(v, q).sees = v.sees
         /\ \A p \in Owners : Applied(v, q).records[p] = SaysOf(v, q, p)
         /\ \A k \in Keys : Applied(v, q).ports[k] = SaysAt(v, q, k)
         /\ Applied(v, q).availability = SaysOn(v, q)
<1> DEFINE rs == [p \in Owners |-> SaysOf(v, q, p)]
           ps == [k \in Keys |-> SaysAt(v, q, k)]
<1>1. Applied(v, q) = [records |-> rs, ports |-> ps, availability |-> SaysOn(v, q), sees |-> v.sees]
  <2>1. Applied(v, q) = [v EXCEPT !.records = rs, !.ports = ps, !.availability = SaysOn(v, q)]
    BY DEF Applied, SaysOf, SaysAt, SaysOn
  <2> HIDE DEF rs, ps
  <2> QED BY <2>1 DEF IsView
<1> QED BY <1>1 DEF IsView

(* A flush changes nothing of what is said. *)
LEMMA FlushSaysTheSame ==
  ASSUME NEW a, IsFeeding(a)
  PROVE  /\ IsFeeding(Flushed(a)) /\ SameCaches(a, Flushed(a)) /\ Flushed(a).refused = a.refused
         /\ Flushed(a).view = Applied(a.view, a.pending) /\ Flushed(a).pending = NoChange
         /\ Flushed(a).view.sees = a.view.sees
         /\ \A p \in Owners : SaidOf(Flushed(a), p) = SaidOf(a, p)
         /\ \A k \in Keys : SaidAt(Flushed(a), k) = SaidAt(a, k)
         /\ SaidOn(Flushed(a)) = SaidOn(a)
<1> DEFINE b == Flushed(a)  w == Applied(a.view, a.pending)
<1>1. b = [a EXCEPT !.view = w, !.pending = NoChange]
  BY DEF Flushed, IsFeeding, IsDesk
<1>2. IsDesk(b) /\ SameCaches(a, b) /\ b.refused = a.refused /\ b.view = w /\ b.pending = NoChange
  <2> HIDE DEF b, w
  <2> QED BY <1>1 DEF IsFeeding, IsDesk, SameCaches
<1>3. IsPending(NoChange) /\ NoChange.availability = <<>> /\ DOMAIN NoChange.processes = {}
      /\ DOMAIN NoChange.ports = {}
  BY DEF IsPending, NoChange
<1>4. IsView(w) /\ w.sees = a.view.sees
      /\ (\A p \in Owners : w.records[p] = SaysOf(a.view, a.pending, p))
      /\ (\A k \in Keys : w.ports[k] = SaysAt(a.view, a.pending, k))
      /\ w.availability = SaysOn(a.view, a.pending)
  BY AppliedSays DEF IsFeeding
<1> HIDE DEF b, w
<1>5. (\A p \in Owners : SaidOf(b, p) = SaidOf(a, p)) /\ (\A k \in Keys : SaidAt(b, k) = SaidAt(a, k))
      /\ SaidOn(b) = SaidOn(a)
  BY <1>2, <1>3, <1>4 DEF SaidOf, SaidAt, SaidOn, SaysOf, SaysAt, SaysOn
<1>6. IsFeeding(b) /\ b.view.sees = a.view.sees
  BY <1>2, <1>3, <1>4 DEF IsFeeding
<1> QED BY <1>2, <1>4, <1>5, <1>6 DEF b, w

(* From a to y, changes of some processes and of some ports were taken, a *)
(* process of which none was taken is refused only if it was before, and  *)
(* the availability is said to be v.                                      *)
Takes(a, y, processes, ports, v) ==
  /\ IsFeeding(y) /\ SameCaches(a, y) /\ y.view.sees = a.view.sees
  /\ \A p \in Owners \ y.refused :
       IF p \in DOMAIN processes THEN SaidOf(y, p) = processes[p]
       ELSE p \notin a.refused /\ SaidOf(y, p) = SaidOf(a, p)
  /\ \A k \in Keys : SaidAt(y, k) = IF k \in DOMAIN ports THEN ports[k] ELSE SaidAt(a, k)
  /\ SaidOn(y) = v

Empty == [x \in {} |-> x]

LEMMA FlushTakesNothing ==
  ASSUME NEW a, NEW b, NEW R, NEW P, NEW v, IsFeeding(a), Takes(b, a, R, P, v)
  PROVE  Takes(b, Flushed(a), R, P, v)
BY FlushSaysTheSame DEF Takes, SameCaches

LEMMA FullFlushTakesNothing ==
  ASSUME NEW a, NEW b, NEW R, NEW P, NEW v, IsFeeding(a), Takes(b, a, R, P, v)
  PROVE  Takes(b, FlushedIfFull(a), R, P, v)
BY FlushTakesNothing DEF FlushedIfFull

LEMMA PutTakesIt ==
  ASSUME NEW a, NEW b, NEW q, NEW kind, NEW k, NEW c, NEW R, NEW P, NEW v, IsFeeding(a), IsPending(q),
         b = [a EXCEPT !.pending = [q EXCEPT ![kind] = Latest(@, k, c)]],
         q = a.pending,
         \/ kind = "processes" /\ k \notin a.refused /\ R = [x \in {k} |-> c] /\ P = Empty
            /\ v = SaidOn(a)
         \/ kind = "ports" /\ R = Empty /\ P = [x \in {k} |-> c] /\ v = SaidOn(a)
         \/ kind = "availability" /\ k = "All" /\ v = c /\ R = Empty /\ P = Empty
  PROVE  Takes(a, b, R, P, v)
<1> DEFINE n == [q EXCEPT ![kind] = Latest(@, k, c)]
<1>1. IsDesk(b) /\ SameCaches(a, b) /\ b.view = a.view /\ b.refused = a.refused /\ b.pending = n
  BY DEF IsFeeding, IsDesk, SameCaches
<1>2. CASE kind = "processes"
  <2>1. n = [processes |-> Latest(q.processes, k, c), ports |-> q.ports,
        availability |-> q.availability]
    BY <1>2 DEF IsPending
  <2>2. IsPending(n)
    BY <2>1 DEF IsPending
  <2>3. ASSUME NEW p PROVE SaidOf(b, p) = IF p = k THEN c ELSE SaidOf(a, p)
    <3> HIDE DEF n
    <3> QED BY <1>1, <2>1 DEF SaidOf, SaysOf, Latest
  <2>4. (\A x : SaidAt(b, x) = SaidAt(a, x)) /\ SaidOn(b) = SaidOn(a)
    <3> HIDE DEF n
    <3> QED BY <1>1, <2>1 DEF SaidAt, SaysAt, SaidOn, SaysOn
  <2> HIDE DEF n
  <2>5. \A x : x \in DOMAIN R <=> x = k
    BY <1>2
  <2>6. R[k] = c /\ DOMAIN P = {} /\ v = SaidOn(a)
    BY <1>2 DEF Empty
  <2> QED BY <1>1, <1>2, <2>2, <2>3, <2>4, <2>5, <2>6 DEF Takes, IsFeeding
<1>3. CASE kind = "ports"
  <2>1. n = [processes |-> q.processes, ports |-> Latest(q.ports, k, c),
        availability |-> q.availability]
    BY <1>3 DEF IsPending
  <2>2. IsPending(n)
    BY <2>1 DEF IsPending
  <2>3. ASSUME NEW p PROVE SaidAt(b, p) = IF p = k THEN c ELSE SaidAt(a, p)
    <3> HIDE DEF n
    <3> QED BY <1>1, <2>1 DEF SaidAt, SaysAt, Latest
  <2>4. (\A x : SaidOf(b, x) = SaidOf(a, x)) /\ SaidOn(b) = SaidOn(a)
    <3> HIDE DEF n
    <3> QED BY <1>1, <2>1 DEF SaidOf, SaysOf, SaidOn, SaysOn
  <2> HIDE DEF n
  <2>5. \A x : x \in DOMAIN P <=> x = k
    BY <1>3
  <2>6. P[k] = c /\ DOMAIN R = {} /\ v = SaidOn(a)
    BY <1>3 DEF Empty
  <2> QED BY <1>1, <1>3, <2>2, <2>3, <2>4, <2>5, <2>6 DEF Takes, IsFeeding
<1>4. CASE kind = "availability"
  <2>1. n = [processes |-> q.processes, ports |-> q.ports, availability |-> Latest(q.availability, k,
        c)]
    BY <1>4 DEF IsPending
  <2>2. IsPending(n)
    BY <2>1 DEF IsPending
  <2>3. Latest(q.availability, "All", c) # <<>> /\ Latest(q.availability, "All", c)["All"] = c
    <3>1. DOMAIN <<>> = {}
      OBVIOUS
    <3>2. "All" \in DOMAIN Latest(q.availability, "All", c)
      BY DEF Latest
    <3>3. Latest(q.availability, "All", c)["All"] = c
      BY DEF Latest
    <3> QED BY <3>1, <3>2, <3>3
  <2>4. (\A x : SaidOf(b, x) = SaidOf(a, x)) /\ (\A x : SaidAt(b, x) = SaidAt(a, x)) /\ SaidOn(b) = c
    <3> HIDE DEF n
    <3> QED BY <1>1, <1>4, <2>1, <2>3 DEF SaidOf, SaysOf, SaidAt, SaysAt, SaidOn, SaysOn
  <2> HIDE DEF n
  <2>6. DOMAIN P = {} /\ DOMAIN R = {} /\ v = c
    BY <1>4 DEF Empty
  <2> QED BY <1>1, <2>2, <2>4, <2>6 DEF Takes, IsFeeding
<1> QED BY <1>2, <1>3, <1>4

(* Changes of one kind, as Takes has them. *)
OfProcesses(kind, changes) == IF kind = "processes" THEN changes ELSE Empty
OfPorts(kind, changes) == IF kind = "ports" THEN changes ELSE Empty

(* A change is taken; of a process it may be refused. *)
LEMMA AccumulatedTakesIt ==
  ASSUME NEW a, NEW kind, NEW k, NEW c, NEW v, IsFeeding(a), feedCase.bytes \in Nat \ (0..1),
         \/ kind = "processes" /\ k \in Owners /\ v = SaidOn(a)
         \/ kind = "ports" /\ v = SaidOn(a)
         \/ kind = "availability" /\ k = "All" /\ v = c
  PROVE  Takes(a, Accumulated(a, kind, k, c), OfProcesses(kind, [x \in {k} |-> c]),
               OfPorts(kind, [x \in {k} |-> c]), v)
<1> DEFINE R == OfProcesses(kind, [x \in {k} |-> c])
           P == OfPorts(kind, [x \in {k} |-> c])
           processes == IF kind = "processes" THEN {k} ELSE {}
           y == Accumulated(a, kind, k, c)
<1>1. CASE Weight(kind, c) + 1 > feedCase.bytes
  <2>1. kind = "processes"
    BY <1>1 DEF Weight
  <2>2. y = [Flushed(a) EXCEPT !.refused = @ \cup {k}]
    BY <1>1, <2>1 DEF Accumulated
  <2> DEFINE b == Flushed(a)
  <2>3. IsFeeding(b) /\ SameCaches(a, b) /\ b.view.sees = a.view.sees /\ b.refused = a.refused
        /\ (\A p \in Owners : SaidOf(b, p) = SaidOf(a, p))
        /\ (\A x \in Keys : SaidAt(b, x) = SaidAt(a, x)) /\ SaidOn(b) = SaidOn(a)
    BY FlushSaysTheSame
  <2> HIDE DEF b
  <2>4. IsFeeding(y) /\ SameCaches(b, y) /\ y.view = b.view /\ y.pending = b.pending
        /\ y.refused = b.refused \cup {k}
    BY <2>2, <2>3 DEF b, IsFeeding, IsDesk, SameCaches
  <2> HIDE DEF y
  <2>5. (\A p : SaidOf(y, p) = SaidOf(b, p)) /\ (\A x : SaidAt(y, x) = SaidAt(b, x))
        /\ SaidOn(y) = SaidOn(b)
    BY <2>4 DEF SaidOf, SaidAt, SaidOn
  <2>6. DOMAIN R = {k} /\ DOMAIN P = {} /\ v = SaidOn(a)
    BY <2>1 DEF OfProcesses, OfPorts, Empty
  <2>7. Takes(a, y, R, P, v)
    <3> HIDE DEF R, P
    <3> QED BY <2>3, <2>4, <2>5, <2>6 DEF Takes, SameCaches
  <2> QED BY <2>7 DEF y
<1>2. CASE ~ (Weight(kind, c) + 1 > feedCase.bytes)
  <2> DEFINE b == [a EXCEPT !.refused = @ \ processes]
             all == [a.pending EXCEPT ![kind] = Latest(@, k, c)]
             alone == [NoChange EXCEPT ![kind] = Latest(@, k, c)]
             f == [Flushed(b) EXCEPT !.pending = alone]
             g == [b EXCEPT !.pending = all]
             x == Joined(b, all, alone)
  <2>1. y = FlushedIfFull(x)
    BY <1>2 DEF Accumulated
  <2>2. IsFeeding(b) /\ SameCaches(a, b) /\ b.view = a.view /\ b.pending = a.pending
        /\ b.refused = a.refused \ processes
    BY DEF IsFeeding, IsDesk, SameCaches
  <2>3. (\A p : SaidOf(b, p) = SaidOf(a, p)) /\ (\A j : SaidAt(b, j) = SaidAt(a, j))
        /\ SaidOn(b) = SaidOn(a)
    <3> HIDE DEF b
    <3> QED BY <2>2 DEF SaidOf, SaidAt, SaidOn
  <2>4. \/ kind = "processes" /\ k \notin b.refused /\ R = [j \in {k} |-> c] /\ P = Empty
           /\ v = SaidOn(b)
        \/ kind = "ports" /\ R = Empty /\ P = [j \in {k} |-> c] /\ v = SaidOn(b)
        \/ kind = "availability" /\ k = "All" /\ v = c /\ R = Empty /\ P = Empty
    <3> HIDE DEF b
    <3> QED BY <2>2, <2>3 DEF OfProcesses, OfPorts
  <2>5. ASSUME NEW z, Takes(b, z, R, P, v) PROVE Takes(a, z, R, P, v)
    <3>1. \A p : p \notin DOMAIN R /\ p \notin b.refused => p \notin a.refused
      BY <2>2 DEF OfProcesses
    <3> HIDE DEF b, R, P
    <3> QED BY <2>2, <2>3, <2>5, <3>1 DEF Takes, SameCaches
  <2>6. Takes(b, g, R, P, v)
    BY <2>2, <2>4, PutTakesIt DEF IsFeeding
  <2>7. Takes(b, f, R, P, v)
    <3> DEFINE e == Flushed(b)
    <3>1. IsFeeding(e) /\ SameCaches(b, e) /\ e.view.sees = b.view.sees /\ e.refused = b.refused
          /\ e.pending = NoChange
          /\ (\A p \in Owners : SaidOf(e, p) = SaidOf(b, p))
          /\ (\A j \in Keys : SaidAt(e, j) = SaidAt(b, j)) /\ SaidOn(e) = SaidOn(b)
      <4> HIDE DEF b
      <4> QED BY <2>2, FlushSaysTheSame
    <3>2. f = [e EXCEPT !.pending = [NoChange EXCEPT ![kind] = Latest(@, k, c)]] /\ IsPending(NoChange)
      BY DEF IsPending, NoChange
    <3> HIDE DEF b, R, P, e, f
    <3>3. \/ kind = "processes" /\ k \notin e.refused /\ R = [j \in {k} |-> c] /\ P = Empty
             /\ v = SaidOn(e)
          \/ kind = "ports" /\ R = Empty /\ P = [j \in {k} |-> c] /\ v = SaidOn(e)
          \/ kind = "availability" /\ k = "All" /\ v = c /\ R = Empty /\ P = Empty
      BY <2>4, <3>1
    <3>4. Takes(e, f, R, P, v)
      BY <3>1, <3>2, <3>3, PutTakesIt, Zenon
    <3> QED BY <3>1, <3>4 DEF Takes, SameCaches
  <2>8. Takes(b, x, R, P, v)
    <3> HIDE DEF b, R, P
    <3> QED BY <2>6, <2>7 DEF Joined
  <2>9. Takes(b, y, R, P, v)
    <3> HIDE DEF b, R, P, x
    <3>1. IsFeeding(x)
      BY <2>8 DEF Takes
    <3> QED BY <2>1, <2>8, <3>1, FullFlushTakesNothing, Zenon
  <2> HIDE DEF y, b, R, P
  <2>10. Takes(a, y, R, P, v)
    BY <2>5, <2>9
  <2> QED BY <2>10 DEF y, R, P
<1> QED BY <1>1, <1>2

(* A finite set has an order, and it lists each member. *)
LEMMA OrderLists ==
  ASSUME NEW S, IsFiniteSet(S)
  PROVE  \E n \in Nat :
           /\ n = Len(SetToSeq(S)) /\ SetToSeq(S) \in [1..n -> S]
           /\ \A x \in S : \E i \in 1..n : SetToSeq(S)[i] = x
<1> DEFINE n == Cardinality(S)
           order == SetToSeq(S)
<1>1. n \in Nat /\ \E f \in [1..n -> S] : IsInjective(f)
  BY FS_CardinalityType DEF ExistsBijection, Bijection, Injection
<1>2. order \in [1..n -> S] /\ IsInjective(order)
  BY <1>1 DEF SetToSeq
<1>3. Len(order) = n
  <2> HIDE DEF order, n
  <2> QED BY <1>1, <1>2
<1>4. IsFiniteSet(1..n) /\ Cardinality(1..n) = n
  <2> HIDE DEF n
  <2> QED BY <1>1, FS_Interval
<1>5. order \in Surjection(1..n, S)
  BY <1>2, <1>4, FS_Injection DEF Injection
<1>6. \A x \in S : \E i \in 1..n : order[i] = x
  BY <1>5 DEF Surjection
<1> HIDE DEF n, order
<1>7. \E m \in Nat : m = Len(order) /\ order \in [1..m -> S]
                     /\ \A x \in S : \E i \in 1..m : order[i] = x
  BY <1>1, <1>2, <1>3, <1>6
<1> QED BY <1>7 DEF order

(* f: what an accumulator becomes after each change. *)
AccumulatesBy(a, kind, changes, n, f) ==
  LET order == SetToSeq(DOMAIN changes)
  IN /\ f[0] = a /\ AccumulatedAll(a, kind, changes) = f[n]
     /\ \A i \in 1..n : f[i] = Accumulated(f[i - 1], kind, order[i], changes[order[i]])

(* The changes are accumulated one after the other. *)
LEMMA AccumulatedInOrder ==
  ASSUME NEW a, NEW kind, NEW changes, NEW n \in Nat, n = Len(SetToSeq(DOMAIN changes))
  PROVE  \E f : AccumulatesBy(a, kind, changes, n, f)
<1> DEFINE order == SetToSeq(DOMAIN changes)
           next(x, i) == Accumulated(x, kind, order[i], changes[order[i]])
           Begins(f, k) == f = [i \in 0..k |-> IF i = 0 THEN a ELSE next(f[i - 1], i)]
           good == {k \in 0..n : \E f : Begins(f, k)}
<1> HIDE DEF next, Begins
<1>1. 0 \in good
  <2> DEFINE f == [i \in 0..0 |-> a]
  <2>1. f = [i \in 0..0 |-> IF i = 0 THEN a ELSE next(f[i - 1], i)]
    OBVIOUS
  <2>2. Begins(f, 0)
    BY <2>1, Zenon DEF Begins
  <2> QED  BY <2>2
<1>2. ASSUME NEW k \in good, k < n PROVE k + 1 \in good
  <2>1. PICK f : Begins(f, k)
    OBVIOUS
  <2> DEFINE g == [i \in 0..k + 1 |-> IF i <= k THEN f[i] ELSE next(f[k], k + 1)]
  <2>2. k \in Nat /\ k + 1 \in 0..n
    BY <1>2
  <2>3. \A i \in 0..k : f[i] = IF i = 0 THEN a ELSE next(f[i - 1], i)
    <3> DEFINE step(i) == IF i = 0 THEN a ELSE next(f[i - 1], i)
    <3>1. f = [i \in 0..k |-> step(i)]
      BY <2>1, Zenon DEF Begins
    <3> HIDE DEF step
    <3>2. \A i \in 0..k : f[i] = step(i)
      BY <3>1
    <3> QED  BY <3>2 DEF step
  <2>4. ASSUME NEW i \in 0..k + 1 PROVE g[i] = IF i = 0 THEN a ELSE next(g[i - 1], i)
    <3>1. CASE i <= k
      BY <2>2, <2>3, <3>1
    <3>2. CASE ~(i <= k)
      BY <2>2, <3>2
    <3> QED  BY <3>1, <3>2
  <2>5. Begins(g, k + 1)
    <3> DEFINE step(i) == IF i = 0 THEN a ELSE next(g[i - 1], i)
               other(i) == IF i <= k THEN f[i] ELSE next(f[k], k + 1)
    <3>1. \A i \in 0..k + 1 : other(i) = step(i)
      BY <2>4
    <3>2. g = [i \in 0..k + 1 |-> other(i)]
      OBVIOUS
    <3> HIDE DEF g, step, other
    <3>3. g = [i \in 0..k + 1 |-> step(i)]
      BY <3>1, <3>2
    <3> QED  BY <3>3, Zenon DEF Begins, step
  <2> QED  BY <2>2, <2>5, Zenon
<1>3. n \in good
  BY <1>1, <1>2, UpTo
<1> DEFINE all == CHOOSE f : Begins(f, n)
<1>4. AccumulatedAll(a, kind, changes) = all[n]
  BY Zenon DEF AccumulatedAll, Begins, next, order
<1>5. Begins(all, n)
  BY <1>3, Zenon
<1> HIDE DEF all
<1>6. all[0] = a /\ \A i \in 1..n : all[i] = next(all[i - 1], i)
  <2> DEFINE step(i) == IF i = 0 THEN a ELSE next(all[i - 1], i)
  <2>1. all = [i \in 0..n |-> step(i)]
    BY <1>5 DEF Begins
  <2> HIDE DEF step
  <2>2. \A i \in 0..n : all[i] = step(i)
    BY <2>1
  <2>3. 0 \in 0..n /\ \A i \in 1..n : i \in 0..n /\ i # 0
    OBVIOUS
  <2> QED  BY <2>2, <2>3 DEF step
<1>7. AccumulatesBy(a, kind, changes, n, all)
  BY <1>4, <1>6, Zenon DEF next, AccumulatesBy
<1> QED  BY <1>7

Over(later, earlier) ==
  [x \in DOMAIN later \cup DOMAIN earlier |-> IF x \in DOMAIN later THEN later[x] ELSE earlier[x]]

LEMMA TakesOneAfterAnother ==
  ASSUME NEW a, NEW b, NEW c, NEW R, NEW P, NEW v, NEW S, NEW Q, NEW w,
         Takes(a, b, R, P, v), Takes(b, c, S, Q, w)
  PROVE  Takes(a, c, Over(S, R), Over(Q, P), w)
<1>1. SameCaches(a, c) /\ IsFeeding(c) /\ c.view.sees = a.view.sees /\ SaidOn(c) = w
  BY DEF Takes, SameCaches
<1>2. ASSUME NEW p \in Owners \ c.refused
      PROVE  IF p \in DOMAIN Over(S, R) THEN SaidOf(c, p) = Over(S, R)[p]
             ELSE p \notin a.refused /\ SaidOf(c, p) = SaidOf(a, p)
  BY DEF Takes, Over
<1>3. ASSUME NEW k \in Keys
      PROVE  SaidAt(c, k) = IF k \in DOMAIN Over(Q, P) THEN Over(Q, P)[k] ELSE SaidAt(a, k)
  BY DEF Takes, Over
<1> QED BY <1>1, <1>2, <1>3 DEF Takes

LEMMA TakesTheSame ==
  ASSUME NEW a, NEW b, NEW R, NEW P, NEW v, NEW S, NEW Q, Takes(a, b, R, P, v),
         DOMAIN S = DOMAIN R, \A x \in DOMAIN R : S[x] = R[x],
         DOMAIN Q = DOMAIN P, \A x \in DOMAIN P : Q[x] = P[x]
  PROVE  Takes(a, b, S, Q, v)
BY DEF Takes

LEMMA TakesNothing ==
  ASSUME NEW a, IsFeeding(a)
  PROVE  Takes(a, a, Empty, Empty, SaidOn(a))
BY DEF Takes, Empty, SameCaches

(* All changes of one kind are taken. *)
LEMMA AccumulatedAllTakesThem ==
  ASSUME NEW a, NEW kind, NEW changes, IsFeeding(a), feedCase.bytes \in Nat \ (0..1),
         IsFiniteSet(DOMAIN changes),
         \/ kind = "processes" /\ DOMAIN changes \subseteq Owners
         \/ kind = "ports"
  PROVE  Takes(a, AccumulatedAll(a, kind, changes), OfProcesses(kind, changes),
               OfPorts(kind, changes), SaidOn(a))
<1> DEFINE order == SetToSeq(DOMAIN changes)
<1>1. PICK n \in Nat : /\ n = Len(order) /\ order \in [1..n -> DOMAIN changes]
                       /\ \A x \in DOMAIN changes : \E i \in 1..n : order[i] = x
  BY OrderLists
<1>2. PICK f : /\ f[0] = a /\ AccumulatedAll(a, kind, changes) = f[n]
               /\ \A i \in 1..n : f[i] = Accumulated(f[i - 1], kind, order[i], changes[order[i]])
  <2>1. n = Len(SetToSeq(DOMAIN changes))
    BY <1>1
  <2>2. PICK f : AccumulatesBy(a, kind, changes, n, f)
    BY <2>1, AccumulatedInOrder, Zenon
  <2> QED BY <2>2, Zenon DEF AccumulatesBy
<1> HIDE DEF order
<1> DEFINE taken(i) == [x \in {order[j] : j \in 1..i} |-> changes[x]]
           R(i) == OfProcesses(kind, taken(i))
           P(i) == OfPorts(kind, taken(i))
           good == {i \in 0..n : Takes(a, f[i], R(i), P(i), SaidOn(a))}
<1>3. 0 \in good
  <2>1. DOMAIN R(0) = {} /\ DOMAIN P(0) = {}
    BY DEF OfProcesses, OfPorts, Empty
  <2> HIDE DEF R, P
  <2>2. DOMAIN Empty = {}
    BY DEF Empty
  <2> QED BY <1>2, <2>1, <2>2, TakesNothing, TakesTheSame
<1>4. ASSUME NEW i \in good, i < n PROVE i + 1 \in good
  <2> DEFINE k == order[i + 1]
             one == [x \in {k} |-> changes[k]]
             S == OfProcesses(kind, one)
             Q == OfPorts(kind, one)
  <2>1. i \in Nat /\ i + 1 \in 1..n /\ i + 1 \in 0..n /\ i + 1 - 1 = i /\ k \in DOMAIN changes
    BY <1>1, <1>4
  <2>2. Takes(a, f[i], R(i), P(i), SaidOn(a))
    BY <1>4
  <2>3. IsFeeding(f[i]) /\ SaidOn(f[i]) = SaidOn(a)
    <3> HIDE DEF R, P
    <3> QED BY <2>2 DEF Takes
  <2>4. f[i + 1] = Accumulated(f[i], kind, k, changes[k])
    BY <1>2, <2>1
  <2>5. Takes(f[i], f[i + 1], S, Q, SaidOn(a))
    <3>1. kind = "processes" => k \in Owners
      BY <2>1
    <3> DEFINE b == f[i]  c == changes[k]  v == SaidOn(a)
    <3>2. \/ kind = "processes" /\ k \in Owners /\ v = SaidOn(b)
          \/ kind = "ports" /\ v = SaidOn(b)
          \/ kind = "availability" /\ k = "All" /\ v = c
      BY <2>3, <3>1
    <3>3. Takes(b, Accumulated(b, kind, k, c), S, Q, v)
      <4> HIDE DEF k, b, v
      <4> QED BY <2>3, <3>2, AccumulatedTakesIt, Zenon DEF b
    <3> HIDE DEF S, Q
    <3> QED BY <2>4, <3>3
  <2>6. Takes(a, f[i + 1], Over(S, R(i)), Over(Q, P(i)), SaidOn(a))
    BY <2>2, <2>5, TakesOneAfterAnother
  <2>7. {order[j] : j \in 1..i + 1} = {order[j] : j \in 1..i} \cup {k}
    BY <2>1
  <2>8. DOMAIN taken(i + 1) = DOMAIN one \cup DOMAIN taken(i)
    BY <2>7
  <2>9. \A x \in DOMAIN taken(i + 1) :
          taken(i + 1)[x] = IF x \in DOMAIN one THEN one[x] ELSE taken(i)[x]
    BY <2>7
  <2> HIDE DEF taken, one
  <2>10. /\ DOMAIN R(i + 1) = DOMAIN Over(S, R(i))
         /\ \A x \in DOMAIN Over(S, R(i)) : R(i + 1)[x] = Over(S, R(i))[x]
    BY <2>8, <2>9 DEF OfProcesses, Over, Empty
  <2>11. /\ DOMAIN P(i + 1) = DOMAIN Over(Q, P(i))
         /\ \A x \in DOMAIN Over(Q, P(i)) : P(i + 1)[x] = Over(Q, P(i))[x]
    BY <2>8, <2>9 DEF OfPorts, Over, Empty
  <2>12. Takes(a, f[i + 1], R(i + 1), P(i + 1), SaidOn(a))
    <3> HIDE DEF R, P, S, Q
    <3> QED BY <2>6, <2>10, <2>11, TakesTheSame
  <2> HIDE DEF R, P
  <2> QED BY <2>1, <2>12
<1>5. n \in good
  BY <1>3, <1>4, UpTo
<1>6. Takes(a, f[n], R(n), P(n), SaidOn(a))
  <2> HIDE DEF R, P
  <2> QED BY <1>5
<1>7. DOMAIN taken(n) = DOMAIN changes /\ \A x \in DOMAIN changes : taken(n)[x] = changes[x]
  <2>1. \A j \in 1..n : order[j] \in DOMAIN changes
    BY <1>1
  <2>2. \A x \in DOMAIN changes : \E j \in 1..n : order[j] = x
    BY <1>1
  <2>3. DOMAIN taken(n) = {order[j] : j \in 1..n}
    OBVIOUS
  <2>4. {order[j] : j \in 1..n} = DOMAIN changes
    BY <2>1, <2>2, Zenon
  <2> QED BY <2>3, <2>4
<1> DEFINE S == OfProcesses(kind, changes)
           Q == OfPorts(kind, changes)
<1>8. /\ DOMAIN S = DOMAIN R(n) /\ \A x \in DOMAIN R(n) : S[x] = R(n)[x]
      /\ DOMAIN Q = DOMAIN P(n) /\ \A x \in DOMAIN P(n) : Q[x] = P(n)[x]
  <2> HIDE DEF taken
  <2> QED BY <1>7 DEF OfProcesses, OfPorts, Empty
<1>9. Takes(a, f[n], S, Q, SaidOn(a))
  <2> HIDE DEF R, P, S, Q
  <2> QED BY <1>6, <1>8, TakesTheSame
<1> QED BY <1>2, <1>9

LEMMA KeysAreFinite == IsFiniteSet(Keys) /\ \A S \in SUBSET Keys : IsFiniteSet(S)
<1>1. IsFiniteSet(Owners \cup {Nothing}) /\ IsFiniteSet(Endpoints)
  BY HostIsFinite, FS_AddElement, FS_Singleton, FS_Union
<1>2. IsFiniteSet(Endpoints \X (Owners \cup {Nothing}))
  BY <1>1, FS_Product
<1> DEFINE pairs == Endpoints \X (Owners \cup {Nothing})
           key(e) == [at |-> e[1], owner |-> e[2]]
           keys == [e \in pairs |-> key(e)]
<1>3. keys \in Surjection(pairs, Keys)
  <2>1. \A e \in pairs : key(e) \in Keys
    BY DEF Keys
  <2>2. \A k \in Keys : <<k.at, k.owner>> \in pairs /\ key(<<k.at, k.owner>>) = k
    BY DEF Keys
  <2>3. keys \in [pairs -> Keys]
    BY <2>1
  <2>4. \A k \in Keys : \E e \in pairs : keys[e] = k
    <3> HIDE DEF key, pairs
    <3> QED BY <2>2
  <2> HIDE DEF keys, pairs
  <2> QED BY <2>3, <2>4 DEF Surjection
<1>4. IsFiniteSet(Keys)
  <2> HIDE DEF keys
  <2> QED BY <1>2, <1>3, FS_Surjection
<1> QED BY <1>4, FS_Subset

LEMMA DeltaTakesThem ==
  ASSUME NEW a, NEW kind, NEW upserted, NEW removed, IsFeeding(a), feedCase.bytes \in Nat \ (0..1),
         IsFiniteSet(DOMAIN upserted), IsFiniteSet(removed),
         \/ kind = "processes" /\ DOMAIN upserted \subseteq Owners /\ removed \subseteq Owners
         \/ kind = "ports"
  PROVE  Takes(a, Delta(a, kind, upserted, removed),
               Over(OfProcesses(kind, [k \in removed |-> Nothing]), OfProcesses(kind, upserted)),
               Over(OfPorts(kind, [k \in removed |-> Nothing]), OfPorts(kind, upserted)), SaidOn(a))
<1> DEFINE gone == [k \in removed |-> Nothing]
           b == AccumulatedAll(a, kind, upserted)
           c == AccumulatedAll(b, kind, gone)
<1>1. Takes(a, b, OfProcesses(kind, upserted), OfPorts(kind, upserted), SaidOn(a))
  BY AccumulatedAllTakesThem
<1>2. IsFeeding(b) /\ SaidOn(b) = SaidOn(a)
  <2> HIDE DEF b
  <2> QED BY <1>1 DEF Takes
<1>3. DOMAIN gone = removed
  OBVIOUS
<1>4. Takes(b, c, OfProcesses(kind, gone), OfPorts(kind, gone), SaidOn(a))
  BY <1>2, <1>3, AccumulatedAllTakesThem
<1>5. Delta(a, kind, upserted, removed) = c
  BY DEF Delta
<1> HIDE DEF b, c, gone
<1>6. Takes(a, c, Over(OfProcesses(kind, gone), OfProcesses(kind, upserted)),
            Over(OfPorts(kind, gone), OfPorts(kind, upserted)), SaidOn(a))
  BY <1>1, <1>4, TakesOneAfterAnother, Zenon
<1> QED BY <1>5, <1>6, Zenon DEF gone

(* What the updates say is: of processes r, of ports f, and v of whether *)
(* the ports are known.                                                  *)
Agrees(a, r, f, v) ==
  /\ IsFeeding(a)
  /\ \A p \in Owners \ a.refused : SaidOf(a, p) = r[p]
  /\ a.view.sees => \A k \in Keys : SaidAt(a, k) = f[k]
  /\ SaidOn(a) = v

Shown(ports) == [k \in Keys |-> IF ports[k] = Nothing THEN Nothing ELSE ports[k].confidence]

LEMMA TakenAgrees ==
  ASSUME NEW a, NEW b, NEW R, NEW P, NEW w, NEW r, NEW f, NEW v, NEW s, NEW g,
         Agrees(a, r, f, v), Takes(a, b, R, P, w),
         \A p \in Owners : s[p] = IF p \in DOMAIN R THEN R[p] ELSE r[p],
         \A k \in Keys : g[k] = IF k \in DOMAIN P THEN P[k] ELSE f[k]
  PROVE  Agrees(b, s, g, w)
BY DEF Agrees, Takes

LEMMA ProcessesPublished ==
  ASSUME NEW a, NEW b, NEW f, NEW v, Agrees(b, a.records, f, v), feedCase.bytes \in Nat \ (0..1)
  PROVE  Agrees(ProcessDelta(a, b), b.records, f, v) /\ SameCaches(b, ProcessDelta(a, b))
<1> DEFINE changed == {p \in Owners : b.records[p] # Nothing /\ a.records[p] # b.records[p]}
           removed == {p \in Owners : a.records[p] # Nothing /\ b.records[p] = Nothing}
           upserted == [p \in changed |-> b.records[p]]
           gone == [k \in removed |-> Nothing]
           y == Delta(b, "processes", upserted, removed)
           R == Over(OfProcesses("processes", gone), OfProcesses("processes", upserted))
           P == Over(OfPorts("processes", gone), OfPorts("processes", upserted))
<1>1. ProcessDelta(a, b) = y
  BY DEF ProcessDelta
<1>2. IsFiniteSet(changed) /\ IsFiniteSet(removed) /\ DOMAIN upserted = changed
  <2>1. changed \subseteq Owners /\ removed \subseteq Owners
    OBVIOUS
  <2>2. DOMAIN upserted = changed
    OBVIOUS
  <2> HIDE DEF changed, removed, upserted
  <2> QED BY <2>1, <2>2, HostIsFinite, FS_Subset
<1>3. changed \subseteq Owners /\ removed \subseteq Owners
  OBVIOUS
<1>4. Takes(b, y, R, P, v)
  <2>1. IsFeeding(b) /\ SaidOn(b) = v
    BY DEF Agrees
  <2> HIDE DEF changed, removed, upserted
  <2>2. Takes(b, y, R, P, SaidOn(b))
    BY <1>2, <1>3, <2>1, DeltaTakesThem
  <2> HIDE DEF y, R, P
  <2> QED BY <2>1, <2>2
<1>5. ASSUME NEW p \in Owners
      PROVE  b.records[p] = IF p \in DOMAIN R THEN R[p] ELSE a.records[p]
  <2>1. DOMAIN R = changed \cup removed
    BY DEF Over, OfProcesses
  <2>2. p \in DOMAIN R => R[p] = IF p \in removed THEN Nothing ELSE b.records[p]
    BY DEF Over, OfProcesses
  <2> HIDE DEF R
  <2> QED BY <2>1, <2>2
<1>6. \A k \in Keys : f[k] = IF k \in DOMAIN P THEN P[k] ELSE f[k]
  BY DEF Over, OfPorts, Empty
<1> HIDE DEF y, R, P
<1>7. Agrees(y, b.records, f, v) /\ SameCaches(b, y)
  BY <1>4, <1>5, <1>6, TakenAgrees DEF Takes
<1> QED BY <1>1, <1>7

LEMMA PortsPublished ==
  ASSUME NEW a, NEW b, NEW ends, NEW r, NEW v, Agrees(b, r, Shown(a.ports), v),
         feedCase.bytes \in Nat \ (0..1), \A k \in Keys \ AtAny(ends) : b.ports[k] = a.ports[k]
  PROVE  Agrees(PortDelta(a, b, ends), r, Shown(b.ports), v) /\ SameCaches(b, PortDelta(a, b, ends))
<1> DEFINE now(k) == b.ports[k].confidence
           changed == {k \in Held(b.ports) \cap AtAny(ends) :
                         k \in Held(a.ports) => a.ports[k].confidence # now(k)}
           removed == (Held(a.ports) \ Held(b.ports)) \cap AtAny(ends)
           upserted == [k \in changed |-> now(k)]
           gone == [k \in removed |-> Nothing]
           y == Delta(b, "ports", upserted, removed)
           R == Over(OfProcesses("ports", gone), OfProcesses("ports", upserted))
           P == Over(OfPorts("ports", gone), OfPorts("ports", upserted))
<1>1. PortDelta(a, b, ends) = y
  BY DEF PortDelta
<1>2. IsFiniteSet(changed) /\ IsFiniteSet(removed) /\ DOMAIN upserted = changed
  <2>1. changed \subseteq Keys /\ removed \subseteq Keys
    BY DEF AtAny
  <2>2. DOMAIN upserted = changed
    OBVIOUS
  <2> HIDE DEF changed, removed, upserted
  <2> QED BY <2>1, <2>2, KeysAreFinite
<1>4. Takes(b, y, R, P, v)
  <2>1. IsFeeding(b) /\ SaidOn(b) = v
    BY DEF Agrees
  <2> HIDE DEF changed, removed, upserted
  <2>2. Takes(b, y, R, P, SaidOn(b))
    BY <1>2, <2>1, DeltaTakesThem
  <2> HIDE DEF y, R, P
  <2> QED BY <2>1, <2>2
<1>5. ASSUME NEW k \in Keys
      PROVE  Shown(b.ports)[k] = IF k \in DOMAIN P THEN P[k] ELSE Shown(a.ports)[k]
  <2>1. DOMAIN P = changed \cup removed
    BY DEF Over, OfPorts
  <2>2. k \in DOMAIN P => P[k] = IF k \in removed THEN Nothing ELSE now(k)
    BY DEF Over, OfPorts
  <2>3. k \notin AtAny(ends) => b.ports[k] = a.ports[k]
    OBVIOUS
  <2> HIDE DEF P
  <2> QED BY <2>1, <2>2, <2>3 DEF Held, Shown
<1>6. \A p \in Owners : r[p] = IF p \in DOMAIN R THEN R[p] ELSE r[p]
  BY DEF Over, OfProcesses, Empty
<1> HIDE DEF y, R, P
<1>7. Agrees(y, r, Shown(b.ports), v) /\ SameCaches(b, y)
  BY <1>4, <1>5, <1>6, TakenAgrees DEF Takes
<1> QED BY <1>1, <1>7

LEMMA AvailabilityIsPublished ==
  ASSUME NEW a, NEW r, NEW f, NEW v, Agrees(a, r, f, v), feedCase.bytes \in Nat \ (0..1)
  PROVE  /\ Agrees(AvailabilityChanged(a), r, f, a.availability)
         /\ SameCaches(a, AvailabilityChanged(a))
<1> DEFINE c == a.availability
           y == Accumulated(a, "availability", "All", c)
           R == OfProcesses("availability", [x \in {"All"} |-> c])
           P == OfPorts("availability", [x \in {"All"} |-> c])
<1>1. Takes(a, y, R, P, c)
  BY AccumulatedTakesIt DEF Agrees
<1>2. DOMAIN R = {} /\ DOMAIN P = {}
  BY DEF OfProcesses, OfPorts, Empty
<1> HIDE DEF y, R, P
<1>3. Agrees(y, r, f, c) /\ SameCaches(a, y)
  BY <1>1, <1>2, TakenAgrees DEF Takes
<1> QED BY <1>3 DEF y, AvailabilityChanged

LEMMA FlushAgrees ==
  ASSUME NEW a, NEW r, NEW f, NEW v, Agrees(a, r, f, v)
  PROVE  Agrees(Flushed(a), r, f, v) /\ SameCaches(a, Flushed(a))
BY FlushSaysTheSame DEF Agrees

CacheTypes(a) ==
  /\ a.records \in [Owners -> ProcessRecords \cup {Nothing}]
  /\ a.runs \in [Owners -> ManagedRuns \cup {Nothing}]
  /\ a.ports \in [Keys -> CachedPorts \cup {Nothing}]
  /\ a.results \in [Owners -> PortAnswers \cup {Nothing}]
  /\ a.availability \in Answers

(* The record of p belongs to its run and was classified as it is. *)
IsJudged(a, p) ==
  a.records[p] # Nothing => a.records[p].run = a.runs[p] /\ a.records[p] = Judged(a.records[p])

(* The record of p shows the ports of p. *)
ShowsPorts(a, p) ==
  a.records[p] # Nothing =>
    a.records[p].ports \in {PortsOf(a, p, a.oldResults), PortsOf(a, p, a.oldResults \ {p})}

Balanced(ports) == \A k \in Held(ports) : ports[k].confidence = Confidence(Held(ports), k)

Room(ports) == Cardinality(Held(ports)) <= PortCapacity

(* The ports of p, as far as PortsOf goes *)
SamePorts(a, b, p) ==
  /\ b.results[p] = a.results[p] /\ b.availability = a.availability
  /\ Bindings(b.ports, p) = Bindings(a.ports, p)

LEMMA PortsOfTheSame ==
  ASSUME NEW a, NEW b, NEW p, NEW X, NEW Y, SamePorts(a, b, p),
         a.results[p] # Nothing => (p \in X <=> p \in Y)
  PROVE  PortsOf(b, p, Y) = PortsOf(a, p, X)
BY DEF SamePorts, PortsOf

LEMMA BindingsTyped ==
  ASSUME NEW ports \in [Keys -> CachedPorts \cup {Nothing}], NEW p
  PROVE  Bindings(ports, p) \subseteq [at : Endpoints, confidence : Confidences]
<1>1. \A k \in Held(ports) : k.at \in Endpoints /\ ports[k].confidence \in Confidences
  BY DEF Held, Keys, CachedPorts
<1> QED BY <1>1 DEF Bindings

LEMMA PortsOfTyped ==
  ASSUME NEW a, CacheTypes(a), NEW p \in Owners, NEW X
  PROVE  PortsOf(a, p, X) \in PortAnswers
<1>1. a.results[p] # Nothing => a.results[p] \in PortAnswers
  BY DEF CacheTypes
<1>2. PortAnswer("Known", Bindings(a.ports, p)) \in PortAnswers
  BY BindingsTyped DEF CacheTypes, PortAnswer, PortAnswers, Answers
<1>3. PortAnswer(a.availability, {}) \in PortAnswers
  BY DEF CacheTypes, PortAnswer, PortAnswers
<1> QED BY <1>1, <1>2, <1>3 DEF PortsOf

(* Judged once more is judged. *)
LEMMA JudgedIs ==
  ASSUME NEW r, NEW ports \in PortAnswers, NEW run \in ManagedRuns \cup {Nothing}, NEW class,
         r = [ports |-> ports, run |-> run, class |-> class]
  PROVE  /\ Judged(r) \in ProcessRecords /\ Judged(r) # Nothing
         /\ Judged(r).ports = ports /\ Judged(r).run = run /\ Judged(Judged(r)) = Judged(r)
<1> DEFINE j == [ports |-> ports, run |-> run]
<1>1. r.ports = ports /\ r.run = run
  OBVIOUS
<1>2. Judged(r) = [ports |-> ports, run |-> run, class |-> j]
  BY <1>1 DEF Judged
<1>3. j \in Judgements
  BY DEF Judgements
<1> HIDE DEF j
<1>4. Judged(r) \in ProcessRecords
  BY <1>2, <1>3 DEF ProcessRecords
<1>5. Judged(r) # Nothing
  BY <1>4, NothingIsNeither
<1> DEFINE s == Judged(r)
<1>6. s.ports = ports /\ s.run = run /\ s = [ports |-> ports, run |-> run, class |-> j]
  BY <1>2
<1> HIDE DEF s
<1>7. Judged(s) = s
  BY <1>6 DEF Judged, j
<1> QED BY <1>4, <1>5, <1>6, <1>7 DEF s

LEMMA RecordIs ==
  ASSUME NEW r \in ProcessRecords
  PROVE  /\ r.ports \in PortAnswers /\ r.run \in ManagedRuns \cup {Nothing}
         /\ r = [ports |-> r.ports, run |-> r.run, class |-> r.class]
BY DEF ProcessRecords

(* y is a, but some of its records have taken the ports of their processes, *)
(* as the updates say.                                                     *)
TookPorts(a, y, processes, f, v) ==
  /\ Agrees(y, y.records, f, v) /\ CacheTypes(y)
  /\ y.ports = a.ports /\ y.results = a.results /\ y.availability = a.availability
  /\ y.oldResults = a.oldResults /\ y.runs = a.runs
  /\ \A p \in Owners : IsJudged(y, p)
  /\ \A p \in processes \cap Owners : ShowsPorts(y, p)
  /\ \A p \in Owners \ processes : y.records[p] = a.records[p]

LEMMA WithPortsTakesThem ==
  ASSUME NEW a, NEW processes, NEW f, NEW v, CacheTypes(a), Agrees(a, a.records, f, v),
         feedCase.bytes \in Nat \ (0..1), \A p \in Owners : IsJudged(a, p)
  PROVE  TookPorts(a, WithPorts(a, processes), processes, f, v)
<1> DEFINE y == WithPorts(a, processes)
           now(p) == Judged([a.records[p] EXCEPT !.ports = PortsOf(a, p, a.oldResults)])
           rs == [p \in Owners |-> IF p \in processes /\ a.records[p] # Nothing
                                   THEN now(p) ELSE a.records[p]]
           b == [a EXCEPT !.records = rs]
<1>1. y = ProcessDelta(a, b)
  BY DEF WithPorts
<1>2. /\ b.records = rs /\ b.ports = a.ports /\ b.results = a.results /\ b.availability = a.availability
      /\ b.oldResults = a.oldResults /\ b.runs = a.runs /\ b.view = a.view
      /\ b.pending = a.pending /\ b.refused = a.refused /\ IsFeeding(b)
  <2>1. IsFeeding(a)
    BY DEF Agrees
  <2> HIDE DEF rs
  <2> QED BY <2>1 DEF IsFeeding, IsDesk
<1>3. ASSUME NEW p \in Owners, a.records[p] # Nothing
      PROVE  now(p) \in ProcessRecords /\ now(p) # Nothing /\ now(p).run = a.records[p].run
             /\ now(p).ports = PortsOf(a, p, a.oldResults) /\ Judged(now(p)) = now(p)
  <2> DEFINE r == a.records[p]  q == PortsOf(a, p, a.oldResults)
  <2>1. r \in ProcessRecords
    BY <1>3 DEF CacheTypes
  <2>2. q \in PortAnswers
    BY PortsOfTyped
  <2> HIDE DEF r, q
  <2>3. [r EXCEPT !.ports = q] = [ports |-> q, run |-> r.run, class |-> r.class]
    BY <2>1, RecordIs
  <2> DEFINE s == [r EXCEPT !.ports = q]
  <2>4. r.run \in ManagedRuns \cup {Nothing}
    BY <2>1, RecordIs
  <2>5. now(p) = Judged(s)
    BY DEF r, q
  <2> HIDE DEF s, now
  <2>6. Judged(s) \in ProcessRecords /\ Judged(s) # Nothing
        /\ Judged(s).ports = q /\ Judged(s).run = r.run /\ Judged(Judged(s)) = Judged(s)
    <3> DEFINE run == r.run  class == r.class
    <3>1. s = [ports |-> q, run |-> run, class |-> class] /\ run \in ManagedRuns \cup {Nothing}
      BY <2>3, <2>4 DEF s
    <3> HIDE DEF run, class
    <3>2. Judged(s) \in ProcessRecords /\ Judged(s) # Nothing
          /\ Judged(s).ports = q /\ Judged(s).run = run /\ Judged(Judged(s)) = Judged(s)
      BY <2>2, <3>1, JudgedIs
    <3> QED BY <3>2 DEF run
  <2> QED BY <2>5, <2>6 DEF r, q
<1> HIDE DEF now, y
<1>4. rs \in [Owners -> ProcessRecords \cup {Nothing}]
  BY <1>3 DEF CacheTypes
<1>5. ASSUME NEW p \in Owners
      PROVE  rs[p] = IF p \in processes /\ a.records[p] # Nothing THEN now(p) ELSE a.records[p]
  OBVIOUS
<1> HIDE DEF b, rs
<1>6. Agrees(b, a.records, f, v)
  BY <1>2 DEF Agrees, SaidOf, SaidAt, SaidOn
<1>7. Agrees(y, b.records, f, v) /\ SameCaches(b, y)
  BY <1>1, <1>6, ProcessesPublished
<1>8. y.records = rs
  BY <1>2, <1>7 DEF SameCaches
<1>9. CacheTypes(y)
  BY <1>2, <1>4, <1>7 DEF CacheTypes, SameCaches
<1>10. ASSUME NEW p \in Owners PROVE IsJudged(y, p)
  <2>1. IsJudged(a, p)
    OBVIOUS
  <2>2. y.runs = a.runs
    BY <1>2, <1>7 DEF SameCaches
  <2>3. CASE p \in processes /\ a.records[p] # Nothing
    BY <1>3, <1>5, <1>8, <2>1, <2>2, <2>3 DEF IsJudged
  <2>4. CASE ~(p \in processes /\ a.records[p] # Nothing)
    BY <1>5, <1>8, <2>1, <2>2, <2>4 DEF IsJudged
  <2> QED BY <2>3, <2>4
<1>11. ASSUME NEW p \in processes \cap Owners PROVE ShowsPorts(y, p)
  <2>1. SamePorts(a, y, p)
    BY <1>2, <1>7 DEF SamePorts, SameCaches
  <2>2. PortsOf(y, p, y.oldResults) = PortsOf(a, p, a.oldResults)
    BY <1>2, <1>7, <2>1, PortsOfTheSame DEF SameCaches
  <2> QED BY <1>3, <1>5, <1>8, <2>2 DEF ShowsPorts
<1>12. TookPorts(a, y, processes, f, v)
  BY <1>2, <1>5, <1>7, <1>8, <1>9, <1>10, <1>11 DEF SameCaches, TookPorts
<1> QED BY <1>12 DEF y

(* What holds between turns, of a desk. *)
FeedInv(a) ==
  /\ Agrees(a, a.records, Shown(a.ports), a.availability)
  /\ CacheTypes(a)
  /\ \A p \in Owners : IsJudged(a, p) /\ ShowsPorts(a, p)
  /\ Balanced(a.ports) /\ Room(a.ports)

LEMMA ConfidenceIs ==
  ASSUME NEW keys, NEW k
  PROVE  Confidence(keys, k) \in Confidences
BY DEF Confidence, Confidences

(* Rebalancing some endpoints keeps who is there and what is elsewhere. *)
LEMMA RebalancedIs ==
  ASSUME NEW ports \in [Keys -> CachedPorts \cup {Nothing}], NEW ends,
         NEW new, new = Rebalanced(ports, ends)
  PROVE  /\ new \in [Keys -> CachedPorts \cup {Nothing}] /\ Held(new) = Held(ports)
         /\ \A k \in Keys \ AtAny(ends) : new[k] = ports[k]
         /\ \A k \in Held(ports) \cap AtAny(ends) : new[k].confidence = Confidence(Held(ports), k)
<1>1. ASSUME NEW k \in Keys
      PROVE  new[k] = IF k \in Held(ports) \cap AtAny(ends)
                      THEN [ports[k] EXCEPT !.confidence = Confidence(Held(ports), k)] ELSE ports[k]
  BY DEF Rebalanced
<1>2. ASSUME NEW k \in Held(ports)
      PROVE  /\ [ports[k] EXCEPT !.confidence = Confidence(Held(ports), k)] \in CachedPorts
             /\ [ports[k] EXCEPT !.confidence = Confidence(Held(ports), k)].confidence
                = Confidence(Held(ports), k)
  <2>1. ports[k] \in CachedPorts
    BY DEF Held
  <2> DEFINE c == Confidence(Held(ports), k)  e == ports[k]
  <2>2. c \in Confidences
    BY ConfidenceIs
  <2> HIDE DEF c, e
  <2>3. [e EXCEPT !.confidence = c] \in CachedPorts /\ [e EXCEPT !.confidence = c].confidence = c
    BY <2>1, <2>2 DEF CachedPorts, e
  <2> QED BY <2>3 DEF c, e
<1>3. ASSUME NEW k \in Keys PROVE new[k] \in CachedPorts \cup {Nothing}
  BY <1>1, <1>2
<1>4. new \in [Keys -> CachedPorts \cup {Nothing}]
  <2> DEFINE e(k) == IF k \in Held(ports) \cap AtAny(ends)
                     THEN [ports[k] EXCEPT !.confidence = Confidence(Held(ports), k)] ELSE ports[k]
  <2>1. new = [k \in Keys |-> e(k)]
    BY DEF Rebalanced
  <2> HIDE DEF e
  <2>2. \A k \in Keys : e(k) \in CachedPorts \cup {Nothing}
    BY <1>3, <2>1
  <2>3. [k \in Keys |-> e(k)] \in [Keys -> CachedPorts \cup {Nothing}]
    BY <2>2
  <2> QED BY <2>1, <2>3, Zenon
<1>5. \A k \in Keys : new[k] # Nothing <=> ports[k] # Nothing
  <2> SUFFICES ASSUME NEW k \in Keys PROVE new[k] # Nothing <=> ports[k] # Nothing
    OBVIOUS
  <2>1. CASE k \in Held(ports) \cap AtAny(ends)
    <3>1. new[k] = [ports[k] EXCEPT !.confidence = Confidence(Held(ports), k)]
      BY <1>1, <2>1
    <3>2. new[k] \in CachedPorts
      BY <1>2, <2>1, <3>1
    <3>3. ports[k] # Nothing
      BY <2>1 DEF Held
    <3> QED BY <3>2, <3>3, NothingIsNeither
  <2>2. CASE k \notin Held(ports) \cap AtAny(ends)
    BY <1>1, <2>2
  <2> QED BY <2>1, <2>2
<1>6. Held(new) = Held(ports)
  BY <1>5 DEF Held
<1>7. \A k \in Held(ports) : k \in Keys
  BY DEF Held
<1> QED BY <1>1, <1>2, <1>4, <1>6, <1>7

LEMMA RefreshedIs ==
  ASSUME NEW results \in [Owners -> PortAnswers \cup {Nothing}], NEW processes,
         NEW ports \in [Keys -> CachedPorts \cup {Nothing}], NEW new,
           new = Refreshed(results, ports, processes)
  PROVE  /\ new \in [Owners -> PortAnswers \cup {Nothing}]
         /\ \A p \in Owners \ processes : new[p] = results[p]
BY BindingsTyped DEF PortAnswer, PortAnswers, Answers, Refreshed

(* Who has no port at the endpoints keeps its bindings when only those change. *)
LEMMA OthersKeepBindings ==
  ASSUME NEW old, NEW new, NEW ends, NEW p,
         \A k \in Keys \ AtAny(ends) : new[k] = old[k],
         \A k \in (Held(old) \cup Held(new)) \cap AtAny(ends) : k.owner # p
  PROVE  Bindings(new, p) = Bindings(old, p)
<1>1. \A k \in Keys : k.owner = p => (k \in Held(old) <=> k \in Held(new))
  BY DEF Held
<1>2. \A k \in Keys : k.owner = p /\ k \in Held(old) => new[k] = old[k]
  BY DEF Held
<1>3. Held(new) \cap Of(p) = Held(old) \cap Of(p)
  BY <1>1 DEF Held, Of
<1>4. \A k \in Held(old) \cap Of(p) : new[k] = old[k]
  BY <1>2 DEF Held, Of
<1> QED BY <1>3, <1>4 DEF Bindings

(* Whatever is at other endpoints stays balanced. *)
LEMMA OthersStayBalanced ==
  ASSUME NEW old, NEW new, NEW ends, Balanced(old), \A k \in Keys \ AtAny(ends) : new[k] = old[k],
         \A k \in Held(new) \cap AtAny(ends) : new[k].confidence = Confidence(Held(new), k)
  PROVE  Balanced(new)
<1> SUFFICES ASSUME NEW k \in Held(new), k \notin AtAny(ends)
             PROVE  new[k].confidence = Confidence(Held(new), k)
  BY DEF Balanced
<1>1. k \in Keys /\ k \in Held(old) /\ new[k] = old[k]
  BY DEF Held
<1>2. \A j \in Keys : j.at = k.at => (j \in Held(new) <=> j \in Held(old))
  BY <1>1 DEF AtAny, Held
<1>3. Confidence(Held(new), k) = Confidence(Held(old), k)
  BY <1>2 DEF Held, Confidence
<1> QED BY <1>1, <1>3 DEF Balanced

LEMMA SmallerFits ==
  ASSUME NEW old, NEW new, Room(old), Held(new) \subseteq Held(old)
  PROVE  Room(new)
<1>1. IsFiniteSet(Held(old))
  BY KeysAreFinite DEF Held
<1>2. Cardinality(Held(new)) <= Cardinality(Held(old)) /\ IsFiniteSet(Held(new))
  BY <1>1, FS_Subset
<1>3. Cardinality(Held(new)) \in Nat /\ Cardinality(Held(old)) \in Nat /\ PortCapacity \in Nat
  BY <1>1, <1>2, FS_CardinalityType, PortsAreBounded
<1> QED BY <1>2, <1>3 DEF Room

(* Ports that go, with everything that speaks of them. *)
LEMMA DropPortsKeepsTheFeed ==
  ASSUME NEW a, NEW gone, NEW ends, NEW others, NEW away,
         Agrees(a, a.records, Shown(a.ports), a.availability), CacheTypes(a),
         feedCase.bytes \in Nat \ (0..1), \A p \in Owners : IsJudged(a, p),
         \A p \in Owners \ others : ShowsPorts(a, p),
         \A p \in away \cap Owners : a.records[p] = Nothing,
         Balanced(a.ports), Room(a.ports), \A k \in gone : k \in AtAny(ends)
  PROVE  FeedInv(DropPorts(a, gone, ends, others, away))
<1> DEFINE left == [k \in Keys |-> IF k \in gone THEN Nothing ELSE a.ports[k]]
           ports == Rebalanced(left, ends)
           kept == [a EXCEPT !.ports = ports]
           touched == (others \cup AffectedOwners(a, kept, ends)) \ away
           results == Refreshed(a.results, kept.ports, touched)
           b == [kept EXCEPT !.results = results]
           z == PortDelta(a, b, ends)
           told == IF touched = {} THEN {} ELSE Owners
           y == WithPorts(z, told)
<1>1. DropPorts(a, gone, ends, others, away) = y
  <2>1. IsDesk(a)
    BY DEF Agrees, IsFeeding
  <2>2. kept = [a EXCEPT !.ports = Rebalanced([k \in Keys |-> IF k \in gone THEN Nothing ELSE @[k]],
        ends)]
    OBVIOUS
  <2>3. kept.results = a.results
    <3> HIDE DEF ports
    <3> QED BY <2>1 DEF IsDesk
  <2>4. b = [kept EXCEPT !.results = Refreshed(@, kept.ports, touched)]
    <3> HIDE DEF kept, touched
    <3> QED BY <2>3
  <2> QED BY <2>2, <2>4, Zenon DEF DropPorts
<1>2. left \in [Keys -> CachedPorts \cup {Nothing}]
  BY DEF CacheTypes
<1>3. Held(left) \subseteq Held(a.ports)
  BY DEF Held
<1>4. \A k \in Keys \ AtAny(ends) : left[k] = a.ports[k]
  OBVIOUS
<1>5. /\ ports \in [Keys -> CachedPorts \cup {Nothing}] /\ Held(ports) = Held(left)
      /\ \A k \in Keys \ AtAny(ends) : ports[k] = left[k]
      /\ \A k \in Held(left) \cap AtAny(ends) : ports[k].confidence = Confidence(Held(left), k)
  <2> HIDE DEF left
  <2> QED BY <1>2, RebalancedIs
<1> HIDE DEF left, ports
<1>6. /\ kept.ports = ports /\ b.ports = ports /\ b.results = results /\ b.records = a.records
      /\ b.runs = a.runs /\ b.availability = a.availability /\ b.oldResults = a.oldResults
      /\ b.view = a.view /\ b.pending = a.pending /\ b.refused = a.refused /\ IsFeeding(b)
  <2>1. IsFeeding(a)
    BY DEF Agrees
  <2> DEFINE k == kept
  <2>2. IsDesk(k) /\ k.ports = ports /\ k.results = a.results /\ k.records = a.records
        /\ k.runs = a.runs /\ k.availability = a.availability /\ k.oldResults = a.oldResults
        /\ k.view = a.view /\ k.pending = a.pending /\ k.refused = a.refused
    BY <2>1 DEF IsFeeding, IsDesk
  <2> HIDE DEF kept, results
  <2> QED BY <2>1, <2>2 DEF IsFeeding, IsDesk
<1>7. results \in [Owners -> PortAnswers \cup {Nothing}]
      /\ \A p \in Owners \ touched : results[p] = a.results[p]
  BY <1>5, <1>6, RefreshedIs DEF CacheTypes
<1>8. AffectedOwners(a, kept, ends) =
        {k.owner : k \in (Held(a.ports) \cup Held(ports)) \cap AtAny(ends)} \ {Nothing}
  BY <1>6 DEF AffectedOwners
<1> DEFINE affected == AffectedOwners(a, kept, ends)
<1>9. touched = (others \cup affected) \ away
  OBVIOUS
<1> HIDE DEF kept, touched, results, b, affected
<1>10. Agrees(b, a.records, Shown(a.ports), a.availability)
  BY <1>6 DEF Agrees, SaidOf, SaidAt, SaidOn
<1>11. Agrees(z, a.records, Shown(ports), a.availability) /\ SameCaches(b, z)
  <2>1. \A k \in Keys \ AtAny(ends) : b.ports[k] = a.ports[k]
    BY <1>4, <1>5, <1>6
  <2>2. Agrees(z, a.records, Shown(b.ports), a.availability) /\ SameCaches(b, z)
    BY <1>10, <2>1, PortsPublished
  <2> HIDE DEF z
  <2> QED BY <1>6, <2>2
<1> HIDE DEF z
<1>12. /\ z.records = a.records /\ z.runs = a.runs /\ z.ports = ports /\ z.results = results
       /\ z.availability = a.availability /\ z.oldResults = a.oldResults
  BY <1>6, <1>11 DEF SameCaches
<1>13. CacheTypes(z) /\ \A p \in Owners : IsJudged(z, p)
  BY <1>5, <1>7, <1>12 DEF CacheTypes, IsJudged
<1>14. /\ Agrees(y, y.records, Shown(ports), a.availability) /\ CacheTypes(y)
       /\ y.ports = ports /\ y.results = results /\ y.availability = a.availability
       /\ y.oldResults = a.oldResults
       /\ \A p \in Owners : IsJudged(y, p)
       /\ \A p \in told \cap Owners : ShowsPorts(y, p)
       /\ \A p \in Owners \ told : y.records[p] = a.records[p]
  <2>1. Agrees(z, z.records, Shown(ports), a.availability)
    BY <1>11, <1>12
  <2> HIDE DEF told
  <2> DEFINE f == Shown(ports)  v == a.availability
  <2> HIDE DEF f, v
  <2>2. TookPorts(z, y, told, f, v)
    BY <1>13, <2>1, WithPortsTakesThem DEF f, v
  <2> HIDE DEF y
  <2> QED BY <1>12, <2>2 DEF TookPorts, f, v
<1> HIDE DEF y
<1>15. ASSUME NEW p \in Owners PROVE ShowsPorts(y, p)
  <2>1. CASE touched # {}
    BY <1>14, <2>1
  <2>2. CASE touched = {}
    <3>1. y.records[p] = a.records[p]
      BY <1>14, <2>2
    <3>2. CASE p \in away
      BY <3>1, <3>2 DEF ShowsPorts
    <3>3. CASE p \notin away
      <4>1. p \notin others /\ p \notin affected
        BY <1>9, <2>2, <3>3
      <4>2. \A k \in (Held(a.ports) \cup Held(ports)) \cap AtAny(ends) : k.owner # p
        BY <1>8, <4>1, NothingIsNeither DEF affected
      <4>3. Bindings(ports, p) = Bindings(a.ports, p)
        BY <1>4, <1>5, <4>2, OthersKeepBindings
      <4>4. results[p] = a.results[p]
        BY <1>7, <2>2
      <4>5. SamePorts(a, y, p)
        BY <1>14, <4>3, <4>4 DEF SamePorts
      <4>6. \A X : PortsOf(y, p, X) = PortsOf(a, p, X)
        BY <4>5, PortsOfTheSame
      <4>7. ShowsPorts(a, p)
        BY <4>1
      <4> QED BY <1>14, <3>1, <4>6, <4>7 DEF ShowsPorts
    <3> QED BY <3>2, <3>3
  <2> QED BY <2>1, <2>2
<1>16. Balanced(ports)
  BY <1>4, <1>5, OthersStayBalanced
<1>17. Room(ports)
  BY <1>3, <1>5, SmallerFits
<1>18. FeedInv(y)
  BY <1>14, <1>15, <1>16, <1>17 DEF FeedInv
<1> QED BY <1>1, <1>18

LEMMA EndsOfCover ==
  ASSUME NEW keys \in SUBSET Keys
  PROVE  \A k \in keys : k \in AtAny(EndsOf(keys))
BY DEF AtAny, EndsOf

(* Processes that are gone take their ports along. *)
LEMMA RemovePortsKeepsTheFeed ==
  ASSUME NEW a, NEW removed, FeedInv(a), feedCase.bytes \in Nat \ (0..1),
         \A p \in removed \cap Owners : a.records[p] = Nothing
  PROVE  FeedInv(RemovePorts(a, removed))
<1> DEFINE results == [p \in Owners |-> IF p \in removed THEN Nothing ELSE a.results[p]]
           old == a.oldResults \ removed
           b == [a EXCEPT !.results = results, !.oldResults = old]
           gone == {k \in Held(a.ports) : k.owner \in removed}
<1>1. RemovePorts(a, removed) = IF gone = {} THEN b ELSE DropPorts(b, gone, EndsOf(gone), {}, removed)
  BY DEF RemovePorts
<1>2. /\ b.results = results /\ b.oldResults = old /\ b.records = a.records /\ b.runs = a.runs
      /\ b.ports = a.ports /\ b.availability = a.availability
      /\ b.view = a.view /\ b.pending = a.pending /\ b.refused = a.refused /\ IsFeeding(b)
  <2>1. IsFeeding(a)
    BY DEF FeedInv, Agrees
  <2>2. b = [a EXCEPT !.results = results, !.oldResults = old]
    OBVIOUS
  <2> HIDE DEF b, results, old
  <2>3. b = [records |-> a.records, runs |-> a.runs, ports |-> a.ports, results |-> results,
             availability |-> a.availability, oldRecords |-> a.oldRecords, oldScan |-> a.oldScan,
             oldResults |-> old, oldAvailability |-> a.oldAvailability,
             pending |-> a.pending, refused |-> a.refused, view |-> a.view]
    BY <2>1, <2>2 DEF IsFeeding, IsDesk
  <2> QED BY <2>1, <2>3 DEF IsFeeding, IsDesk
<1>3. results \in [Owners -> PortAnswers \cup {Nothing}]
      /\ \A p \in Owners \ removed : results[p] = a.results[p]
  BY DEF FeedInv, CacheTypes
<1>4. gone \in SUBSET Keys
  BY DEF Held
<1>5. \A p : p \notin removed => (p \in old <=> p \in a.oldResults)
  OBVIOUS
<1> HIDE DEF b, results, old, gone
<1>6. Agrees(b, b.records, Shown(b.ports), b.availability)
  BY <1>2 DEF FeedInv, Agrees, SaidOf, SaidAt, SaidOn
<1>7. CacheTypes(b) /\ \A p \in Owners : IsJudged(b, p)
  BY <1>2, <1>3 DEF FeedInv, CacheTypes, IsJudged
<1>8. ASSUME NEW p \in Owners PROVE ShowsPorts(b, p)
  <2>1. CASE p \in removed
    BY <1>2, <2>1 DEF ShowsPorts
  <2>2. CASE p \notin removed
    <3>1. SamePorts(a, b, p)
      BY <1>2, <1>3, <2>2 DEF SamePorts
    <3>2. PortsOf(b, p, b.oldResults) = PortsOf(a, p, a.oldResults)
      BY <1>2, <1>5, <2>2, <3>1, PortsOfTheSame
    <3>3. PortsOf(b, p, b.oldResults \ {p}) = PortsOf(a, p, a.oldResults \ {p})
      BY <3>1, PortsOfTheSame
    <3>4. ShowsPorts(a, p)
      BY DEF FeedInv
    <3> QED BY <1>2, <3>2, <3>3, <3>4 DEF ShowsPorts
  <2> QED BY <2>1, <2>2
<1>9. Balanced(b.ports) /\ Room(b.ports)
  BY <1>2 DEF FeedInv
<1>10. FeedInv(b)
  BY <1>6, <1>7, <1>8, <1>9 DEF FeedInv
<1>11. FeedInv(DropPorts(b, gone, EndsOf(gone), {}, removed))
  <2>1. \A k \in gone : k \in AtAny(EndsOf(gone))
    BY <1>4, EndsOfCover
  <2>2. \A p \in removed \cap Owners : b.records[p] = Nothing
    BY <1>2
  <2>3. \A p \in Owners \ {} : ShowsPorts(b, p)
    BY <1>8
  <2> DEFINE ends == EndsOf(gone)  none == {}
  <2> HIDE DEF ends, none
  <2>4. FeedInv(DropPorts(b, gone, ends, none, removed))
    BY <1>6, <1>7, <1>9, <2>1, <2>2, <2>3, DropPortsKeepsTheFeed DEF ends, none
  <2> QED BY <2>4 DEF ends, none
<1> QED BY <1>1, <1>10, <1>11

(* Other records are published. *)
LEMMA RecordsPublished ==
  ASSUME NEW a, NEW b, FeedInv(a), feedCase.bytes \in Nat \ (0..1), IsFeeding(b),
         b.view = a.view, b.pending = a.pending, b.refused = a.refused,
         b.ports = a.ports, b.results = a.results, b.availability = a.availability,
         b.oldResults = a.oldResults, CacheTypes(b),
         \A p \in Owners : IsJudged(b, p) /\ ShowsPorts(b, p)
  PROVE  FeedInv(ProcessDelta(a, b)) /\ ProcessDelta(a, b).records = b.records
<1> DEFINE y == ProcessDelta(a, b)  f == Shown(a.ports)  v == a.availability
<1>1. Agrees(b, a.records, f, v)
  BY DEF FeedInv, Agrees, SaidOf, SaidAt, SaidOn
<1>2. Agrees(y, b.records, f, v) /\ SameCaches(b, y)
  <2> HIDE DEF f, v
  <2> QED BY <1>1, ProcessesPublished
<1> HIDE DEF y
<1>3. Agrees(y, y.records, Shown(y.ports), y.availability)
  BY <1>2 DEF SameCaches
<1>4. CacheTypes(y)
  BY <1>2 DEF SameCaches, CacheTypes
<1>5. ASSUME NEW p \in Owners PROVE IsJudged(y, p) /\ ShowsPorts(y, p)
  <2>1. SamePorts(b, y, p)
    BY <1>2 DEF SameCaches, SamePorts
  <2>2. \A X : PortsOf(y, p, X) = PortsOf(b, p, X)
    BY <2>1, PortsOfTheSame
  <2>3. IsJudged(b, p) /\ ShowsPorts(b, p)
    OBVIOUS
  <2> QED BY <1>2, <2>2, <2>3 DEF SameCaches, IsJudged, ShowsPorts
<1>6. Balanced(y.ports) /\ Room(y.ports)
  BY <1>2 DEF SameCaches, FeedInv
<1>7. FeedInv(y) /\ y.records = b.records
  BY <1>2, <1>3, <1>4, <1>5, <1>6 DEF FeedInv, SameCaches
<1> QED BY <1>7 DEF y

LEMMA OverlaidIs ==
  ASSUME NEW a, NEW p, NEW r \in ProcessRecords, NEW run \in ManagedRuns \cup {Nothing},
         a.runs[p] = run,
         NEW s, s = Judged(Overlaid(a, p, r))
  PROVE  s \in ProcessRecords /\ s # Nothing /\ s.ports = r.ports /\ s.run = run /\ Judged(s) = s
<1> DEFINE ports == r.ports  class == r.class  q == [ports |-> ports, run |-> run, class |-> class]
<1>1. ports \in PortAnswers /\ r = [ports |-> ports, run |-> r.run, class |-> class]
  BY RecordIs
<1>2. Overlaid(a, p, r) = q
  BY <1>1 DEF Overlaid
<1> HIDE DEF ports, class
<1>3. q.ports = ports
  OBVIOUS
<1>4. Judged(q) \in ProcessRecords /\ Judged(q) # Nothing /\ Judged(q).ports = ports
      /\ Judged(q).run = run /\ Judged(Judged(q)) = Judged(q)
  BY <1>1, JudgedIs
<1> HIDE DEF q
<1>5. s = Judged(q)
  BY <1>2
<1> QED BY <1>4, <1>5 DEF ports

LEMMA ReplaceBindingsKeepsTheFeed ==
  ASSUME NEW a, NEW runs \in [Owners -> ManagedRuns \cup {Nothing}], FeedInv(a),
         feedCase.bytes \in Nat \ (0..1)
  PROVE  FeedInv(ReplaceBindings(a, runs))
<1> DEFINE b == [a EXCEPT !.runs = runs]
           now(p) == Judged(Overlaid(b, p, a.records[p]))
           rs == [p \in Owners |-> IF a.records[p] = Nothing THEN Nothing ELSE now(p)]
           c == [b EXCEPT !.records = rs]
<1>1. IsFeeding(a)
  BY DEF FeedInv, Agrees
<1>2. b.records = a.records /\ b.runs = runs
  BY <1>1 DEF IsFeeding, IsDesk
<1>3. ReplaceBindings(a, runs) = ProcessDelta(a, c)
  <2>1. rs = [p \in Owners |-> IF b.records[p] = Nothing THEN Nothing ELSE Judged(Overlaid(b, p,
        b.records[p]))]
    <3> HIDE DEF b
    <3> QED BY <1>2
  <2>2. c = [b EXCEPT !.records = [p \in Owners |->
               IF @[p] = Nothing THEN Nothing ELSE Judged(Overlaid(b, p, @[p]))]]
    <3> HIDE DEF b, rs
    <3> QED BY <2>1
  <2> HIDE DEF c, rs
  <2> QED BY <2>2 DEF ReplaceBindings
<1>4. /\ c.records = rs /\ c.runs = runs /\ c.ports = a.ports /\ c.results = a.results
      /\ c.availability = a.availability /\ c.oldResults = a.oldResults
      /\ c.view = a.view /\ c.pending = a.pending /\ c.refused = a.refused /\ IsFeeding(c)
  <2>1. c = [[a EXCEPT !.runs = runs] EXCEPT !.records = rs]
    OBVIOUS
  <2> HIDE DEF rs, c
  <2>2. c = [records |-> rs, runs |-> runs, ports |-> a.ports, results |-> a.results,
             availability |-> a.availability, oldRecords |-> a.oldRecords, oldScan |-> a.oldScan,
             oldResults |-> a.oldResults, oldAvailability |-> a.oldAvailability,
             pending |-> a.pending, refused |-> a.refused, view |-> a.view]
    BY <1>1, <2>1 DEF IsFeeding, IsDesk
  <2> QED BY <1>1, <2>2 DEF IsFeeding, IsDesk
<1>5. ASSUME NEW p \in Owners, a.records[p] # Nothing
      PROVE  now(p) \in ProcessRecords /\ now(p) # Nothing /\ now(p).ports = a.records[p].ports
             /\ now(p).run = runs[p] /\ Judged(now(p)) = now(p)
  <2> DEFINE r == a.records[p]
  <2>1. r \in ProcessRecords
    BY <1>5 DEF FeedInv, CacheTypes
  <2>2. runs[p] \in ManagedRuns \cup {Nothing}
    OBVIOUS
  <2>3. b.runs[p] = runs[p]
    BY <1>2
  <2> DEFINE s == Judged(Overlaid(b, p, r))
  <2>4. s \in ProcessRecords /\ s # Nothing /\ s.ports = r.ports /\ s.run = runs[p] /\ Judged(s) = s
    <3> HIDE DEF b, r
    <3> QED BY <2>1, <2>2, <2>3, OverlaidIs
  <2> QED BY <2>4
<1> HIDE DEF now
<1>6. rs \in [Owners -> ProcessRecords \cup {Nothing}]
  BY <1>5
<1>7. \A p \in Owners : rs[p] = IF a.records[p] = Nothing THEN Nothing ELSE now(p)
  OBVIOUS
<1> HIDE DEF c, rs, b
<1>8. CacheTypes(c)
  BY <1>4, <1>6 DEF FeedInv, CacheTypes
<1>9. ASSUME NEW p \in Owners PROVE IsJudged(c, p) /\ ShowsPorts(c, p)
  <2>1. SamePorts(a, c, p)
    BY <1>4 DEF SamePorts
  <2>2. \A X : PortsOf(c, p, X) = PortsOf(a, p, X)
    BY <2>1, PortsOfTheSame
  <2>3. ShowsPorts(a, p)
    BY DEF FeedInv
  <2>4. c.records[p] # Nothing => a.records[p] # Nothing /\ c.records[p] = now(p)
    BY <1>4, <1>7
  <2>5. IsJudged(c, p)
    BY <1>4, <1>5, <2>4 DEF IsJudged
  <2>6. ShowsPorts(c, p)
    BY <1>4, <1>5, <2>2, <2>3, <2>4 DEF ShowsPorts
  <2> QED BY <2>5, <2>6
<1>10. FeedInv(ProcessDelta(a, c))
  BY <1>4, <1>8, <1>9, RecordsPublished
<1> QED BY <1>3, <1>10

LEMMA ApplyProcessesKeepsTheFeed ==
  ASSUME NEW a, NEW seen, FeedInv(a), feedCase.bytes \in Nat \ (0..1)
  PROVE  FeedInv(ApplyProcesses(a, seen))
<1> DEFINE new(p) == [ports |-> PortsOf(a, p, a.oldResults), run |-> a.runs[p], class |-> Nothing]
           record(p) == Judged(IF a.records[p] = Nothing THEN new(p) ELSE Overlaid(a, p, a.records[p]))
           rs == [p \in Owners |-> IF p \in seen THEN record(p) ELSE Nothing]
           b == [a EXCEPT !.records = rs, !.oldRecords = FALSE]
           d == ProcessDelta(a, b)
           removed == {p \in Owners : a.records[p] # Nothing} \ seen
<1>1. ApplyProcesses(a, seen) = RemovePorts(d, removed)
  BY DEF ApplyProcesses
<1>2. /\ b.records = rs /\ b.runs = a.runs /\ b.ports = a.ports /\ b.results = a.results
      /\ b.availability = a.availability /\ b.oldResults = a.oldResults
      /\ b.view = a.view /\ b.pending = a.pending /\ b.refused = a.refused /\ IsFeeding(b)
  <2>1. IsFeeding(a)
    BY DEF FeedInv, Agrees
  <2>3. b = [a EXCEPT !.records = rs, !.oldRecords = FALSE]
    OBVIOUS
  <2> HIDE DEF rs, b
  <2>2. b = [records |-> rs, runs |-> a.runs, ports |-> a.ports, results |-> a.results,
             availability |-> a.availability, oldRecords |-> FALSE, oldScan |-> a.oldScan,
             oldResults |-> a.oldResults, oldAvailability |-> a.oldAvailability,
             pending |-> a.pending, refused |-> a.refused, view |-> a.view]
    BY <2>1, <2>3 DEF IsFeeding, IsDesk
  <2> QED BY <2>1, <2>2 DEF IsFeeding, IsDesk
<1>3. ASSUME NEW p \in Owners
      PROVE  /\ record(p) \in ProcessRecords /\ record(p) # Nothing /\ record(p).run = a.runs[p]
             /\ Judged(record(p)) = record(p)
             /\ record(p).ports = IF a.records[p] = Nothing THEN PortsOf(a, p, a.oldResults)
                                  ELSE a.records[p].ports
  <2> DEFINE run == a.runs[p]
  <2>1. run \in ManagedRuns \cup {Nothing}
    BY DEF FeedInv, CacheTypes
  <2>2. CASE a.records[p] = Nothing
    <3> DEFINE q == PortsOf(a, p, a.oldResults)  none == Nothing
                n == [ports |-> q, run |-> run, class |-> none]
    <3>1. q \in PortAnswers
      BY PortsOfTyped DEF FeedInv
    <3>2. record(p) = Judged(n)
      BY <2>2
    <3>3. n = [ports |-> q, run |-> run, class |-> none]
      OBVIOUS
    <3>4. Judged(n) \in ProcessRecords /\ Judged(n) # Nothing /\ Judged(n).ports = q
          /\ Judged(n).run = run /\ Judged(Judged(n)) = Judged(n)
      BY <2>1, <3>1, <3>3, JudgedIs
    <3> HIDE DEF record, n
    <3> QED BY <2>2, <3>2, <3>4
  <2>3. CASE a.records[p] # Nothing
    <3> DEFINE r == a.records[p]  s == Judged(Overlaid(a, p, r))
    <3>1. r \in ProcessRecords
      BY <2>3 DEF FeedInv, CacheTypes
    <3>2. record(p) = s
      BY <2>3
    <3>3. s \in ProcessRecords /\ s # Nothing /\ s.ports = r.ports /\ s.run = run /\ Judged(s) = s
      <4> HIDE DEF r
      <4> QED BY <2>1, <3>1, OverlaidIs
    <3> HIDE DEF record, s
    <3> QED BY <2>3, <3>2, <3>3
  <2> QED BY <2>2, <2>3
<1> HIDE DEF record
<1>4. rs \in [Owners -> ProcessRecords \cup {Nothing}]
  BY <1>3
<1>5. \A p \in Owners : rs[p] = IF p \in seen THEN record(p) ELSE Nothing
  OBVIOUS
<1> HIDE DEF rs, b
<1>6. CacheTypes(b)
  BY <1>2, <1>4 DEF FeedInv, CacheTypes
<1>7. ASSUME NEW p \in Owners PROVE IsJudged(b, p) /\ ShowsPorts(b, p)
  <2>1. SamePorts(a, b, p)
    BY <1>2 DEF SamePorts
  <2>2. \A X : PortsOf(b, p, X) = PortsOf(a, p, X)
    BY <2>1, PortsOfTheSame
  <2>3. ShowsPorts(a, p)
    BY DEF FeedInv
  <2>4. b.records[p] # Nothing => b.records[p] = record(p)
    BY <1>2, <1>5
  <2>5. IsJudged(b, p)
    BY <1>2, <1>3, <2>4 DEF IsJudged
  <2>6. ShowsPorts(b, p)
    BY <1>2, <1>3, <2>2, <2>3, <2>4 DEF ShowsPorts
  <2> QED BY <2>5, <2>6
<1>8. FeedInv(d) /\ d.records = b.records
  BY <1>2, <1>6, <1>7, RecordsPublished
<1>9. \A p \in removed \cap Owners : d.records[p] = Nothing
  <2> HIDE DEF d
  <2> QED BY <1>2, <1>5, <1>8
<1> HIDE DEF d, removed
<1>10. FeedInv(RemovePorts(d, removed))
  BY <1>8, <1>9, RemovePortsKeepsTheFeed
<1> QED BY <1>1, <1>10

LEMMA RecordsSweptKeepsTheFeed ==
  ASSUME NEW a, FeedInv(a), feedCase.bytes \in Nat \ (0..1)
  PROVE  FeedInv(RecordsSwept(a))
<1> DEFINE removed == IF a.oldRecords THEN {p \in Owners : a.records[p] # Nothing} ELSE {}
           rs == [p \in Owners |-> IF p \in removed THEN Nothing ELSE a.records[p]]
           b == [a EXCEPT !.oldRecords = FALSE, !.records = rs]
           d == ProcessDelta(a, b)
<1>1. RecordsSwept(a) = RemovePorts(d, removed)
  BY DEF FeedInv, Agrees, IsFeeding, IsDesk, RecordsSwept
<1>2. /\ b.records = rs /\ b.runs = a.runs /\ b.ports = a.ports /\ b.results = a.results
      /\ b.availability = a.availability /\ b.oldResults = a.oldResults
      /\ b.view = a.view /\ b.pending = a.pending /\ b.refused = a.refused /\ IsFeeding(b)
  <2>1. IsFeeding(a)
    BY DEF FeedInv, Agrees
  <2>3. b = [a EXCEPT !.oldRecords = FALSE, !.records = rs]
    OBVIOUS
  <2> HIDE DEF rs, b
  <2>2. b = [records |-> rs, runs |-> a.runs, ports |-> a.ports, results |-> a.results,
             availability |-> a.availability, oldRecords |-> FALSE, oldScan |-> a.oldScan,
             oldResults |-> a.oldResults, oldAvailability |-> a.oldAvailability,
             pending |-> a.pending, refused |-> a.refused, view |-> a.view]
    BY <2>1, <2>3 DEF IsFeeding, IsDesk
  <2> QED BY <2>1, <2>2 DEF IsFeeding, IsDesk
<1>3. \A p \in Owners : rs[p] = IF p \in removed THEN Nothing ELSE a.records[p]
  OBVIOUS
<1>4. rs \in [Owners -> ProcessRecords \cup {Nothing}]
  BY DEF FeedInv, CacheTypes
<1> HIDE DEF rs, b, removed
<1>6. CacheTypes(b)
  BY <1>2, <1>4 DEF FeedInv, CacheTypes
<1>7. ASSUME NEW p \in Owners PROVE IsJudged(b, p) /\ ShowsPorts(b, p)
  <2>1. SamePorts(a, b, p)
    BY <1>2 DEF SamePorts
  <2>2. \A X : PortsOf(b, p, X) = PortsOf(a, p, X)
    BY <2>1, PortsOfTheSame
  <2>3. ShowsPorts(a, p) /\ IsJudged(a, p)
    BY DEF FeedInv
  <2>4. b.records[p] # Nothing => b.records[p] = a.records[p]
    BY <1>2, <1>3
  <2>5. IsJudged(b, p)
    BY <1>2, <2>3, <2>4 DEF IsJudged
  <2>6. ShowsPorts(b, p)
    BY <1>2, <2>2, <2>3, <2>4 DEF ShowsPorts
  <2> QED BY <2>5, <2>6
<1>8. FeedInv(d) /\ d.records = b.records
  BY <1>2, <1>6, <1>7, RecordsPublished
<1>9. \A p \in removed \cap Owners : d.records[p] = Nothing
  <2> HIDE DEF d
  <2> QED BY <1>2, <1>3, <1>8
<1> HIDE DEF d
<1>10. FeedInv(RemovePorts(d, removed))
  BY <1>8, <1>9, RemovePortsKeepsTheFeed
<1> QED BY <1>1, <1>10

LEMMA PortsSweptKeepsTheFeed ==
  ASSUME NEW a, FeedInv(a), feedCase.bytes \in Nat \ (0..1)
  PROVE  FeedInv(PortsSwept(a))
<1> DEFINE results == {p \in a.oldResults : a.results[p] # Nothing}
           gone == {k \in Held(a.ports) : IF a.ports[k].from = "Scan" THEN a.oldScan
                                          ELSE k.owner \in a.oldResults}
           rs == [p \in Owners |-> IF p \in results THEN Nothing ELSE a.results[p]]
           none == {}
           b == [a EXCEPT !.results = rs, !.oldResults = none, !.oldScan = FALSE]
           ends == EndsOf(gone)
<1>1. PortsSwept(a) = DropPorts(b, gone, ends, results, none)
  BY DEF FeedInv, Agrees, IsFeeding, IsDesk, PortsSwept
<1>2. /\ b.results = rs /\ b.oldResults = {} /\ b.records = a.records /\ b.runs = a.runs
      /\ b.ports = a.ports /\ b.availability = a.availability
      /\ b.view = a.view /\ b.pending = a.pending /\ b.refused = a.refused /\ IsFeeding(b)
  <2>1. IsFeeding(a)
    BY DEF FeedInv, Agrees
  <2>2. b = [a EXCEPT !.results = rs, !.oldResults = none, !.oldScan = FALSE]
    OBVIOUS
  <2> HIDE DEF rs, b, none
  <2>3. b = [records |-> a.records, runs |-> a.runs, ports |-> a.ports, results |-> rs,
             availability |-> a.availability, oldRecords |-> a.oldRecords, oldScan |-> FALSE,
             oldResults |-> none, oldAvailability |-> a.oldAvailability,
             pending |-> a.pending, refused |-> a.refused, view |-> a.view]
    BY <2>1, <2>2 DEF IsFeeding, IsDesk
  <2> QED BY <2>1, <2>3 DEF IsFeeding, IsDesk, none
<1>3. rs \in [Owners -> PortAnswers \cup {Nothing}]
  BY DEF FeedInv, CacheTypes
<1>4. \A p \in Owners \ results : rs[p] = a.results[p]
      /\ (a.results[p] # Nothing => p \notin a.oldResults)
  OBVIOUS
<1>5. gone \in SUBSET Keys
  BY DEF Held
<1> HIDE DEF b, rs, gone, results, ends, none
<1>6. Agrees(b, b.records, Shown(b.ports), b.availability)
  BY <1>2 DEF FeedInv, Agrees, SaidOf, SaidAt, SaidOn
<1>7. CacheTypes(b) /\ (\A p \in Owners : IsJudged(b, p)) /\ Balanced(b.ports) /\ Room(b.ports)
  BY <1>2, <1>3 DEF FeedInv, CacheTypes, IsJudged
<1>8. ASSUME NEW p \in Owners \ results PROVE ShowsPorts(b, p)
  <2>1. SamePorts(a, b, p)
    BY <1>2, <1>4 DEF SamePorts
  <2>2. PortsOf(b, p, b.oldResults) = PortsOf(a, p, a.oldResults)
    BY <1>2, <1>4, <2>1, PortsOfTheSame
  <2>3. PortsOf(b, p, b.oldResults) = PortsOf(a, p, a.oldResults \ {p})
    BY <1>2, <2>1, PortsOfTheSame
  <2>4. ShowsPorts(a, p)
    BY DEF FeedInv
  <2> QED BY <1>2, <2>2, <2>3, <2>4 DEF ShowsPorts
<1>9. \A k \in gone : k \in AtAny(ends)
  BY <1>5, EndsOfCover DEF ends
<1>10. \A p \in none \cap Owners : b.records[p] = Nothing
  BY DEF none
<1>11. FeedInv(DropPorts(b, gone, ends, results, none))
  BY <1>6, <1>7, <1>8, <1>9, <1>10, DropPortsKeepsTheFeed
<1> QED BY <1>1, <1>11

(* What a subscriber is told about the availability is what the cache says. *)
LEMMA ProcessPortsPublished ==
  ASSUME NEW a, NEW v, Agrees(a, a.records, Shown(a.ports), v), CacheTypes(a),
         feedCase.bytes \in Nat \ (0..1), \A p \in Owners : IsJudged(a, p),
         Balanced(a.ports), Room(a.ports)
  PROVE  /\ FeedInv(AvailabilityPublished(ProcessPortChanges(a), v))
         /\ FeedInv(AvailabilityChanged(ProcessPortChanges(a)))
<1> DEFINE y == ProcessPortChanges(a)  f == Shown(a.ports)  z == AvailabilityChanged(y)
<1>1. TookPorts(a, y, Owners, f, v)
  <2> HIDE DEF f
  <2> QED BY WithPortsTakesThem DEF f, ProcessPortChanges
<1> HIDE DEF y
<1>2. Agrees(y, y.records, f, v) /\ y.ports = a.ports /\ CacheTypes(y)
      /\ \A p \in Owners : IsJudged(y, p) /\ ShowsPorts(y, p)
  BY <1>1 DEF TookPorts
<1>3. y.availability = v => FeedInv(y)
  BY <1>2 DEF FeedInv
<1>4. Agrees(z, y.records, f, y.availability) /\ SameCaches(y, z)
  <2> HIDE DEF f
  <2> QED BY <1>2, AvailabilityIsPublished
<1> HIDE DEF z
<1>5. \A p \in Owners : IsJudged(z, p) /\ ShowsPorts(z, p)
  <2> SUFFICES ASSUME NEW p \in Owners PROVE IsJudged(z, p) /\ ShowsPorts(z, p)
    OBVIOUS
  <2>1. SamePorts(y, z, p)
    BY <1>4 DEF SameCaches, SamePorts
  <2>2. \A X : PortsOf(z, p, X) = PortsOf(y, p, X)
    BY <2>1, PortsOfTheSame
  <2>3. IsJudged(y, p) /\ ShowsPorts(y, p)
    BY <1>2
  <2> QED BY <1>4, <2>2, <2>3 DEF SameCaches, IsJudged, ShowsPorts
<1>6. CacheTypes(z)
  BY <1>2, <1>4 DEF SameCaches, CacheTypes
<1>7. Agrees(z, z.records, Shown(z.ports), z.availability) /\ Balanced(z.ports) /\ Room(z.ports)
  BY <1>2, <1>4 DEF SameCaches
<1>8. FeedInv(z)
  BY <1>5, <1>6, <1>7 DEF FeedInv
<1> QED BY <1>3, <1>8 DEF AvailabilityPublished, y, z

LEMMA AvailabilitySweptKeepsTheFeed ==
  ASSUME NEW a, FeedInv(a), feedCase.bytes \in Nat \ (0..1)
  PROVE  FeedInv(AvailabilitySwept(a))
<1> DEFINE b == [a EXCEPT !.availability = "Unknown", !.oldAvailability = FALSE]
           v == a.availability
<1>1. AvailabilitySwept(a) = IF a.oldAvailability THEN AvailabilityChanged(ProcessPortChanges(b)) ELSE a
  BY DEF AvailabilitySwept, AvailabilityExpired
<1>2. /\ b.records = a.records /\ b.runs = a.runs /\ b.ports = a.ports /\ b.results = a.results
      /\ b.availability = "Unknown"
      /\ b.view = a.view /\ b.pending = a.pending /\ b.refused = a.refused /\ IsFeeding(b)
  <2>1. IsFeeding(a)
    BY DEF FeedInv, Agrees
  <2>3. b = [a EXCEPT !.availability = "Unknown", !.oldAvailability = FALSE]
    OBVIOUS
  <2> HIDE DEF b
  <2>2. b = [records |-> a.records, runs |-> a.runs, ports |-> a.ports, results |-> a.results,
             availability |-> "Unknown", oldRecords |-> a.oldRecords, oldScan |-> a.oldScan,
             oldResults |-> a.oldResults, oldAvailability |-> FALSE,
             pending |-> a.pending, refused |-> a.refused, view |-> a.view]
    BY <2>1, <2>3 DEF IsFeeding, IsDesk
  <2> QED BY <2>1, <2>2 DEF IsFeeding, IsDesk
<1> HIDE DEF b
<1>3. Agrees(b, b.records, Shown(b.ports), v)
  BY <1>2 DEF FeedInv, Agrees, SaidOf, SaidAt, SaidOn
<1>4. CacheTypes(b) /\ (\A p \in Owners : IsJudged(b, p)) /\ Balanced(b.ports) /\ Room(b.ports)
  BY <1>2 DEF FeedInv, CacheTypes, IsJudged, Answers
<1>5. FeedInv(AvailabilityChanged(ProcessPortChanges(b)))
  <2> HIDE DEF v
  <2> QED BY <1>3, <1>4, ProcessPortsPublished
<1> QED BY <1>1, <1>5

LEMMA SweptKeepsTheFeed ==
  ASSUME NEW a, FeedInv(a), feedCase.bytes \in Nat \ (0..1)
  PROVE  FeedInv(Swept(a))
BY RecordsSweptKeepsTheFeed, PortsSweptKeepsTheFeed, AvailabilitySweptKeepsTheFeed DEF Swept

LEMMA FlushKeepsTheFeed ==
  ASSUME NEW a, FeedInv(a), feedCase.bytes \in Nat \ (0..1)
  PROVE  FeedInv(Flushed(a)) /\ Flushed(a).pending = NoChange /\ SameCaches(a, Flushed(a))
<1>2. FeedInv(Flushed(a))
  <2> DEFINE f == Shown(a.ports)  v == a.availability  z == Flushed(a)
  <2>1. Agrees(z, a.records, f, v) /\ SameCaches(a, z)
    <3> HIDE DEF f, v
    <3> QED BY FlushAgrees DEF FeedInv, f, v
  <2> HIDE DEF z
  <2>2. \A p \in Owners : IsJudged(z, p) /\ ShowsPorts(z, p)
    <3> SUFFICES ASSUME NEW p \in Owners PROVE IsJudged(z, p) /\ ShowsPorts(z, p)
      OBVIOUS
    <3>1. SamePorts(a, z, p)
      BY <2>1 DEF SameCaches, SamePorts
    <3>2. \A X : PortsOf(z, p, X) = PortsOf(a, p, X)
      BY <3>1, PortsOfTheSame
    <3>3. IsJudged(a, p) /\ ShowsPorts(a, p)
      BY DEF FeedInv
    <3> QED BY <2>1, <3>2, <3>3 DEF SameCaches, IsJudged, ShowsPorts
  <2>3. CacheTypes(z) /\ Balanced(z.ports) /\ Room(z.ports)
    BY <2>1 DEF SameCaches, CacheTypes, FeedInv
  <2>4. Agrees(z, z.records, Shown(z.ports), z.availability)
    BY <2>1 DEF SameCaches
  <2>5. FeedInv(z)
    BY <2>2, <2>3, <2>4 DEF FeedInv
  <2> QED BY <2>5 DEF z
<1> QED BY <1>2, FlushSaysTheSame DEF FeedInv, Agrees

LEMMA ScannedPortsAre ==
  ASSUME NEW keys \in SUBSET Keys, NEW ports, ports = ScannedPorts(keys)
  PROVE  ports \in [Keys -> CachedPorts \cup {Nothing}] /\ Held(ports) = keys /\ Balanced(ports)
<1> DEFINE e(k) == [confidence |-> Confidence(keys, k), from |-> "Scan"]
<1>1. \A k \in Keys : e(k) \in CachedPorts /\ e(k).confidence = Confidence(keys, k)
  BY ConfidenceIs DEF CachedPorts
<1>2. ports = [k \in Keys |-> IF k \notin keys THEN Nothing ELSE e(k)]
  BY DEF ScannedPorts
<1> HIDE DEF e
<1>3. ports \in [Keys -> CachedPorts \cup {Nothing}]
  BY <1>1, <1>2
<1>4. \A k \in Keys : ports[k] = IF k \notin keys THEN Nothing ELSE e(k)
  BY <1>2
<1>5. Held(ports) = keys
  BY <1>1, <1>4, NothingIsNeither DEF Held
<1>6. \A k \in keys : ports[k].confidence = Confidence(keys, k)
  BY <1>1, <1>4
<1> QED BY <1>3, <1>5, <1>6 DEF Balanced

LEMMA ApplyPortScanKeepsTheFeed ==
  ASSUME NEW a, NEW is \in Answers, NEW keys \in SUBSET Keys, FeedInv(a),
         feedCase.bytes \in Nat \ (0..1)
  PROVE  FeedInv(ApplyPortScan(a, is, keys))
<1> DEFINE ports == ScannedPorts(keys)
           rs == [p \in Owners |-> Nothing]
           none == {}
           found == [a EXCEPT !.ports = ports, !.oldScan = FALSE, !.results = rs, !.oldResults = none]
           d == PortDelta(a, found, Endpoints)
           e == IF is = "Known" THEN d ELSE a
           b == [e EXCEPT !.availability = is, !.oldAvailability = FALSE]
           y == AvailabilityPublished(ProcessPortChanges(b), a.availability)
<1>1. ApplyPortScan(a, is, keys) =
        IF is = "Known" /\ Cardinality(keys) > PortCapacity THEN Flushed(a) ELSE y
  BY DEF ApplyPortScan, Failed
<1>2. FeedInv(Flushed(a))
  BY FlushKeepsTheFeed
<1>3. ASSUME ~(is = "Known" /\ Cardinality(keys) > PortCapacity) PROVE FeedInv(y)
  <2>1. ports \in [Keys -> CachedPorts \cup {Nothing}] /\ Held(ports) = keys /\ Balanced(ports)
    <3> HIDE DEF ports
    <3> QED BY ScannedPortsAre DEF ports
  <2> HIDE DEF ports
  <2>2. IsFeeding(a)
    BY DEF FeedInv, Agrees
  <2>3. /\ found.records = a.records /\ found.runs = a.runs /\ found.ports = ports /\ found.results = rs
        /\ found.view = a.view /\ found.pending = a.pending /\ found.refused = a.refused
        /\ IsFeeding(found)
    <3>1. found = [a EXCEPT !.ports = ports, !.oldScan = FALSE, !.results = rs, !.oldResults = none]
      OBVIOUS
    <3> HIDE DEF found, rs, none
    <3>2. found = [records |-> a.records, runs |-> a.runs, ports |-> ports, results |-> rs,
             availability |-> a.availability, oldRecords |-> a.oldRecords, oldScan |-> FALSE,
             oldResults |-> none, oldAvailability |-> a.oldAvailability,
             pending |-> a.pending, refused |-> a.refused, view |-> a.view]
      BY <2>2, <3>1 DEF IsFeeding, IsDesk
    <3> QED BY <2>2, <3>2 DEF IsFeeding, IsDesk
  <2>4. rs \in [Owners -> PortAnswers \cup {Nothing}]
    OBVIOUS
  <2> HIDE DEF found, rs
  <2> DEFINE v == a.availability
  <2>5. Agrees(found, a.records, Shown(a.ports), v)
    BY <2>3 DEF FeedInv, Agrees, SaidOf, SaidAt, SaidOn
  <2>6. Agrees(d, a.records, Shown(ports), v) /\ SameCaches(found, d)
    <3>1. \A k \in Keys \ AtAny(Endpoints) : found.ports[k] = a.ports[k]
      BY DEF AtAny, Keys
    <3> DEFINE f == Shown(found.ports)  r == a.records
    <3> HIDE DEF v, f, r
    <3>2. Agrees(d, r, f, v) /\ SameCaches(found, d)
      BY <2>5, <3>1, PortsPublished DEF f, r
    <3> HIDE DEF d
    <3> QED BY <2>3, <3>2 DEF f, r
  <2> HIDE DEF d
  <2>7. /\ Agrees(e, e.records, Shown(e.ports), v) /\ CacheTypes(e)
        /\ (\A p \in Owners : IsJudged(e, p)) /\ Balanced(e.ports) /\ Room(e.ports)
    <3>1. CASE is = "Known"
      <4>1. e = d /\ d.records = a.records /\ d.ports = ports /\ d.runs = a.runs /\ d.results = rs
        BY <2>3, <2>6, <3>1 DEF SameCaches
      <4>2. CacheTypes(d)
        <5>1. d.availability \in Answers
          BY <2>2, <2>6 DEF SameCaches, found, IsFeeding, IsDesk, FeedInv, CacheTypes
        <5> QED BY <2>1, <2>4, <4>1, <5>1 DEF FeedInv, CacheTypes
      <4>3. \A p \in Owners : IsJudged(d, p)
        BY <4>1 DEF FeedInv, IsJudged
      <4>4. Room(ports)
        <5>1. IsFiniteSet(keys)
          BY KeysAreFinite
        <5>2. Cardinality(keys) \in Nat /\ PortCapacity \in Nat
          BY <5>1, FS_CardinalityType, PortsAreBounded
        <5> QED BY <1>3, <2>1, <3>1, <5>2 DEF Room
      <4>5. Agrees(d, d.records, Shown(d.ports), v)
        BY <2>6, <4>1
      <4>6. Balanced(d.ports) /\ Room(d.ports)
        BY <2>1, <4>1, <4>4
      <4> HIDE DEF e, v
      <4> QED BY <4>1, <4>2, <4>3, <4>5, <4>6
    <3>2. CASE is # "Known"
      BY <3>2 DEF FeedInv
    <3> QED BY <3>1, <3>2
  <2> HIDE DEF e
  <2>8. IsFeeding(e)
    BY <2>7 DEF Agrees
  <2>9. /\ b.records = e.records /\ b.runs = e.runs /\ b.ports = e.ports /\ b.results = e.results
        /\ b.availability = is
        /\ b.view = e.view /\ b.pending = e.pending /\ b.refused = e.refused /\ IsFeeding(b)
    <3>2. b = [e EXCEPT !.availability = is, !.oldAvailability = FALSE]
      OBVIOUS
    <3> HIDE DEF b
    <3>1. b = [records |-> e.records, runs |-> e.runs, ports |-> e.ports, results |-> e.results,
               availability |-> is, oldRecords |-> e.oldRecords, oldScan |-> e.oldScan,
               oldResults |-> e.oldResults, oldAvailability |-> FALSE,
               pending |-> e.pending, refused |-> e.refused, view |-> e.view]
      BY <2>8, <3>2 DEF IsFeeding, IsDesk
    <3> QED BY <2>8, <3>1 DEF IsFeeding, IsDesk
  <2> HIDE DEF b
  <2>10. Agrees(b, b.records, Shown(b.ports), v)
    BY <2>7, <2>9 DEF Agrees, SaidOf, SaidAt, SaidOn
  <2>11. CacheTypes(b) /\ (\A p \in Owners : IsJudged(b, p)) /\ Balanced(b.ports) /\ Room(b.ports)
    BY <2>7, <2>9 DEF CacheTypes, IsJudged
  <2> HIDE DEF v
  <2>12. FeedInv(AvailabilityPublished(ProcessPortChanges(b), v))
    BY <2>10, <2>11, ProcessPortsPublished
  <2> QED BY <2>12 DEF v
<1> QED BY <1>1, <1>2, <1>3

LEMMA ApplyEnrichedPortsKeepsTheFeed ==
  ASSUME NEW a, NEW p \in Owners, NEW is \in Answers, NEW keys \in SUBSET Keys, FeedInv(a),
         feedCase.bytes \in Nat \ (0..1)
  PROVE  FeedInv(ApplyEnrichedPorts(a, p, is, keys))
<1> DEFINE retained == Held(a.ports) \ Of(p)
           ends == EndsOf((Held(a.ports) \cap Of(p)) \cup keys)
           put == [k \in Keys |-> IF k.owner # p THEN a.ports[k] ELSE IF k \notin keys THEN Nothing
                                  ELSE [confidence |-> "Exact", from |-> "Result"]]
           ports == Rebalanced(put, ends)
           first == [a.results EXCEPT ![p] = PortAnswer(is, Bindings(put, p))]
           old == a.oldResults \ {p}
           b == [a EXCEPT !.ports = ports, !.results = first, !.oldResults = old]
           touched == {p} \cup AffectedOwners(a, b, ends)
           results == Refreshed(first, ports, touched)
           c == [b EXCEPT !.results = results]
           z == PortDelta(a, c, ends)
           y == WithPorts(z, touched)
           refused == ListsForeignPorts(p, keys)
             \/ Cardinality(retained) + Cardinality(keys) > PortCapacity
<1>1. IsFeeding(a)
  BY DEF FeedInv, Agrees
<1>2. b = [records |-> a.records, runs |-> a.runs, ports |-> ports, results |-> first,
           availability |-> a.availability, oldRecords |-> a.oldRecords, oldScan |-> a.oldScan,
           oldResults |-> old, oldAvailability |-> a.oldAvailability,
           pending |-> a.pending, refused |-> a.refused, view |-> a.view]
  <2>1. b = [a EXCEPT !.ports = ports, !.results = first, !.oldResults = old]
    OBVIOUS
  <2> HIDE DEF b, ports, first, old
  <2> QED BY <1>1, <2>1 DEF IsFeeding, IsDesk
<1>3. b.results = first /\ b.ports = ports
  BY <1>2
<1>4. ApplyEnrichedPorts(a, p, is, keys) = IF refused THEN Flushed(a) ELSE y
  <2>1. b = [a EXCEPT !.ports = Rebalanced(put, ends),
                      !.results[p] = PortAnswer(is, Bindings(put, p)), !.oldResults = @ \ {p}]
    <3> HIDE DEF put, ends
    <3> QED BY <1>1 DEF IsFeeding, IsDesk
  <2>2. c = [b EXCEPT !.results = Refreshed(@, b.ports, touched)]
    BY <1>3
  <2> HIDE DEF c, b
  <2> QED BY <2>1, <2>2 DEF ApplyEnrichedPorts, Failed
<1>5. /\ c.records = a.records /\ c.runs = a.runs /\ c.ports = ports /\ c.results = results
      /\ c.availability = a.availability /\ c.oldResults = old
      /\ c.view = a.view /\ c.pending = a.pending /\ c.refused = a.refused /\ IsFeeding(c)
  <2>1. c = [b EXCEPT !.results = results]
    OBVIOUS
  <2> HIDE DEF c, b, results, ports, first, old
  <2>2. c = [records |-> a.records, runs |-> a.runs, ports |-> ports, results |-> results,
             availability |-> a.availability, oldRecords |-> a.oldRecords, oldScan |-> a.oldScan,
             oldResults |-> old, oldAvailability |-> a.oldAvailability,
             pending |-> a.pending, refused |-> a.refused, view |-> a.view]
    BY <1>2, <2>1
  <2> QED BY <1>1, <2>2 DEF IsFeeding, IsDesk
<1>6. CASE refused
  BY <1>4, <1>6, FlushKeepsTheFeed
<1>7. CASE ~refused
  <2>1. \A k \in keys : k.owner = p
    BY <1>7 DEF ListsForeignPorts
  <2>2. put \in [Keys -> CachedPorts \cup {Nothing}]
    BY DEF FeedInv, CacheTypes, CachedPorts, Confidences
  <2>3. \A k \in Keys : put[k] # Nothing <=> k \in retained \cup keys
    BY <2>1, NothingIsNeither DEF CachedPorts, Confidences, Held, Of
  <2>4. Held(put) = retained \cup keys
    <3> HIDE DEF put
    <3> QED BY <2>3 DEF Held
  <2>5. \A k \in Keys : k \in keys \/ (k \in Held(a.ports) /\ k.owner = p) => k \in AtAny(ends)
    <3> DEFINE mine == (Held(a.ports) \cap Of(p)) \cup keys
    <3>1. mine \in SUBSET Keys
      BY DEF Held
    <3>2. \A k \in mine : k \in AtAny(ends)
      <4> HIDE DEF mine
      <4> QED BY <3>1, EndsOfCover DEF mine
    <3> QED BY <3>2 DEF Of
  <2> HIDE DEF ends
  <2>6. \A k \in Keys \ AtAny(ends) : put[k] = a.ports[k]
    BY <2>5 DEF Held
  <2> HIDE DEF put, retained
  <2>7. /\ ports \in [Keys -> CachedPorts \cup {Nothing}] /\ Held(ports) = Held(put)
        /\ \A k \in Keys \ AtAny(ends) : ports[k] = put[k]
        /\ \A k \in Held(put) \cap AtAny(ends) : ports[k].confidence = Confidence(Held(put), k)
    BY <2>2, RebalancedIs
  <2> HIDE DEF ports
  <2>8. first \in [Owners -> PortAnswers \cup {Nothing}]
        /\ \A q \in Owners \ {p} : first[q] = a.results[q]
    BY <2>2, BindingsTyped DEF PortAnswer, PortAnswers, FeedInv, CacheTypes
  <2> HIDE DEF first
  <2>9. AffectedOwners(a, b,
        ends) = {k.owner : k \in (Held(a.ports) \cup Held(ports)) \cap AtAny(ends)} \ {Nothing}
    <3> HIDE DEF b
    <3> QED BY <1>3 DEF AffectedOwners
  <2> DEFINE affected == AffectedOwners(a, b, ends)
  <2>10. p \in touched /\ affected \subseteq touched
    OBVIOUS
  <2> HIDE DEF b, touched, affected
  <2>11. results \in [Owners -> PortAnswers \cup {Nothing}]
         /\ \A q \in Owners \ touched : results[q] = first[q]
    BY <2>7, <2>8, RefreshedIs
  <2> HIDE DEF c, results
  <2>12. Agrees(c, a.records, Shown(a.ports), a.availability)
    BY <1>5 DEF FeedInv, Agrees, SaidOf, SaidAt, SaidOn
  <2>13. Agrees(z, a.records, Shown(ports), a.availability) /\ SameCaches(c, z)
    <3>1. \A k \in Keys \ AtAny(ends) : c.ports[k] = a.ports[k]
      BY <1>5, <2>6, <2>7
    <3>2. Agrees(z, a.records, Shown(c.ports), a.availability) /\ SameCaches(c, z)
      BY <2>12, <3>1, PortsPublished
    <3> HIDE DEF z
    <3> QED BY <1>5, <3>2
  <2> HIDE DEF z
  <2>14. /\ z.records = a.records /\ z.runs = a.runs /\ z.ports = ports /\ z.results = results
         /\ z.availability = a.availability /\ z.oldResults = old
    BY <1>5, <2>13 DEF SameCaches
  <2>15. CacheTypes(z) /\ \A q \in Owners : IsJudged(z, q)
    BY <2>7, <2>11, <2>14 DEF FeedInv, CacheTypes, IsJudged
  <2>16. TookPorts(z, y, touched, Shown(ports), a.availability)
    <3> DEFINE f == Shown(ports)  v == a.availability
    <3>1. Agrees(z, z.records, f, v)
      BY <2>13, <2>14
    <3> HIDE DEF f, v
    <3>2. TookPorts(z, y, touched, f, v)
      BY <2>15, <3>1, WithPortsTakesThem
    <3> QED BY <3>2 DEF f, v
  <2> HIDE DEF y, old
  <2>17. /\ Agrees(y, y.records, Shown(ports), a.availability) /\ CacheTypes(y)
         /\ y.ports = ports /\ y.results = results /\ y.availability = a.availability
         /\ y.oldResults = old
         /\ \A q \in Owners : IsJudged(y, q)
         /\ \A q \in touched \cap Owners : ShowsPorts(y, q)
         /\ \A q \in Owners \ touched : y.records[q] = a.records[q]
    BY <2>14, <2>16 DEF TookPorts
  <2>18. ASSUME NEW q \in Owners PROVE ShowsPorts(y, q)
    <3>1. CASE q \in touched
      BY <2>17, <3>1
    <3>2. CASE q \notin touched
      <4>1. q # p /\ q \notin affected
        BY <2>10, <3>2
      <4>2. \A k \in (Held(a.ports) \cup Held(ports)) \cap AtAny(ends) : k.owner # q
        BY <2>9, <4>1, NothingIsNeither DEF affected
      <4>3. \A k \in Keys \ AtAny(ends) : ports[k] = a.ports[k]
        BY <2>6, <2>7
      <4>4. Bindings(ports, q) = Bindings(a.ports, q)
        BY <4>2, <4>3, OthersKeepBindings
      <4>5. results[q] = a.results[q]
        BY <2>8, <2>11, <3>2, <4>1
      <4>6. SamePorts(a, y, q)
        BY <2>17, <4>4, <4>5 DEF SamePorts
      <4>7. PortsOf(y, q, y.oldResults) = PortsOf(a, q, a.oldResults)
        BY <2>17, <4>1, <4>6, PortsOfTheSame DEF old
      <4>8. PortsOf(y, q, y.oldResults \ {q}) = PortsOf(a, q, a.oldResults \ {q})
        BY <4>6, PortsOfTheSame
      <4>9. ShowsPorts(a, q)
        BY DEF FeedInv
      <4> QED BY <2>17, <3>2, <4>7, <4>8, <4>9 DEF ShowsPorts
    <3> QED BY <3>1, <3>2
  <2>19. Balanced(ports)
    BY <2>6, <2>7, OthersStayBalanced DEF FeedInv
  <2>20. Room(ports)
    <3>1. IsFiniteSet(retained) /\ IsFiniteSet(keys)
      BY KeysAreFinite DEF retained, Held
    <3>2. Cardinality(retained \cup keys) = Cardinality(retained) + Cardinality(keys)
            - Cardinality(retained \cap keys)
      BY <3>1, FS_Union
    <3>3. IsFiniteSet(retained \cap keys)
      BY <3>1, FS_Intersection
    <3>4. Cardinality(retained) \in Nat /\ Cardinality(keys) \in Nat
          /\ Cardinality(retained \cap keys) \in Nat
          /\ PortCapacity \in Nat
      BY <3>1, <3>3, FS_CardinalityType, PortsAreBounded
    <3>5. Cardinality(retained) + Cardinality(keys) <= PortCapacity
      BY <1>7, <3>4
    <3>6. Cardinality(retained \cup keys) <= PortCapacity
      BY <3>2, <3>4, <3>5
    <3> QED BY <2>4, <2>7, <3>6 DEF Room
  <2>21. FeedInv(y)
    BY <2>17, <2>18, <2>19, <2>20 DEF FeedInv
  <2> QED BY <1>4, <1>7, <2>21
<1> QED BY <1>6, <1>7

LEMMA ResynchronisedKeepsTheFeed ==
  ASSUME NEW a, FeedInv(a), a.pending = NoChange
  PROVE  FeedInv(Resynchronised(a))
<1> DEFINE view == SnapshotOf(a)
           none == {}
           b == [a EXCEPT !.view = view, !.refused = none]
           listed == [k \in Keys |-> IF a.availability = "Known" /\ a.ports[k] # Nothing
                                    THEN a.ports[k].confidence ELSE Nothing]
<1>1. IsFeeding(a)
  BY DEF FeedInv, Agrees
<1>2. b = [records |-> a.records, runs |-> a.runs, ports |-> a.ports, results |-> a.results,
           availability |-> a.availability, oldRecords |-> a.oldRecords, oldScan |-> a.oldScan,
           oldResults |-> a.oldResults, oldAvailability |-> a.oldAvailability,
           pending |-> a.pending, refused |-> none, view |-> view]
  <2>1. b = [a EXCEPT !.view = view, !.refused = none]
    OBVIOUS
  <2> HIDE DEF b, view, none
  <2> QED BY <1>1, <2>1 DEF IsFeeding, IsDesk
<1>3. SameCaches(a, b) /\ b.pending = NoChange /\ b.view = view /\ IsDesk(b)
  <2> HIDE DEF b, view, none
  <2> QED BY <1>2 DEF SameCaches, IsDesk
<1>4. view = [records |-> a.records, availability |-> a.availability,
              sees |-> a.availability = "Known", ports |-> listed]
  BY DEF SnapshotOf
<1>5. view.records = a.records /\ view.availability = a.availability
      /\ (view.sees => a.availability = "Known") /\ view.ports = listed /\ IsView(view)
  <2> HIDE DEF view, listed
  <2> QED BY <1>4 DEF IsView
<1>6. view.sees => \A k \in Keys : view.ports[k] = Shown(a.ports)[k]
  <2> HIDE DEF view
  <2> QED BY <1>5 DEF Shown
<1> HIDE DEF b, view
<1>7. IsPending(NoChange) /\ NoChange.availability = <<>> /\ DOMAIN NoChange.processes = {}
      /\ DOMAIN NoChange.ports = {}
  BY DEF IsPending, NoChange
<1>8. Agrees(b, a.records, Shown(a.ports), a.availability)
  <2>1. \A p : SaidOf(b, p) = view.records[p]
    BY <1>3, <1>7 DEF SaidOf, SaysOf
  <2>2. \A k : SaidAt(b, k) = view.ports[k]
    BY <1>3, <1>7 DEF SaidAt, SaysAt
  <2>3. SaidOn(b) = view.availability
    BY <1>3, <1>7 DEF SaidOn, SaysOn
  <2>4. IsFeeding(b)
    BY <1>3, <1>5, <1>7 DEF IsFeeding
  <2> QED BY <1>3, <1>5, <1>6, <2>1, <2>2, <2>3, <2>4 DEF Agrees
<1>9. FeedInv(b)
  <2>1. ASSUME NEW p \in Owners PROVE IsJudged(b, p) /\ ShowsPorts(b, p)
    <3>1. SamePorts(a, b, p)
      BY <1>3 DEF SameCaches, SamePorts
    <3>2. \A X : PortsOf(b, p, X) = PortsOf(a, p, X)
      BY <3>1, PortsOfTheSame
    <3>3. IsJudged(a, p) /\ ShowsPorts(a, p)
      BY DEF FeedInv
    <3> QED BY <1>3, <3>2, <3>3 DEF SameCaches, IsJudged, ShowsPorts
  <2>2. CacheTypes(b) /\ Balanced(b.ports) /\ Room(b.ports)
    BY <1>3 DEF SameCaches, CacheTypes, FeedInv
  <2>3. Agrees(b, b.records, Shown(b.ports), b.availability)
    BY <1>3, <1>8 DEF SameCaches
  <2> QED BY <2>1, <2>2, <2>3 DEF FeedInv
<1> QED BY <1>9 DEF Resynchronised, b, view

(* Something gets old. *)
LEMMA AgeingKeepsTheFeed ==
  ASSUME NEW a, NEW b, FeedInv(a), IsDesk(b),
         b.records = a.records, b.runs = a.runs, b.ports = a.ports, b.results = a.results,
         b.availability = a.availability, b.pending = a.pending, b.refused = a.refused,
         b.view = a.view,
         \A p \in Owners : p \in a.oldResults => p \in b.oldResults
  PROVE  FeedInv(b)
<1>1. Agrees(b, b.records, Shown(b.ports), b.availability)
  BY DEF FeedInv, Agrees, IsFeeding, SaidOf, SaidAt, SaidOn
<1>2. ASSUME NEW p \in Owners PROVE IsJudged(b, p) /\ ShowsPorts(b, p)
  <2>1. SamePorts(a, b, p)
    BY DEF SamePorts
  <2>2. IsJudged(a, p) /\ ShowsPorts(a, p)
    BY DEF FeedInv
  <2>3. PortsOf(b, p, b.oldResults \ {p}) = PortsOf(a, p, a.oldResults \ {p})
    BY <2>1, PortsOfTheSame
  <2>4. PortsOf(b, p, b.oldResults) = PortsOf(a, p, a.oldResults)
        \/ PortsOf(b, p, b.oldResults \ {p}) = PortsOf(a, p, a.oldResults)
    <3>1. CASE p \in a.oldResults
      BY <2>1, <3>1, PortsOfTheSame
    <3>2. CASE p \notin a.oldResults
      <4>1. p \in b.oldResults \ {p} <=> p \in a.oldResults
        BY <3>2
      <4>2. PortsOf(b, p, b.oldResults \ {p}) = PortsOf(a, p, a.oldResults)
        BY ONLY <2>1, <4>1, PortsOfTheSame
      <4> QED BY <4>2
    <3> QED BY <3>1, <3>2
  <2> QED BY <2>2, <2>3, <2>4 DEF IsJudged, ShowsPorts
<1>3. CacheTypes(b) /\ Balanced(b.ports) /\ Room(b.ports)
  BY DEF CacheTypes, FeedInv
<1> QED BY <1>1, <1>2, <1>3 DEF FeedInv

FeedHolds == FeedInv(desk) /\ feedCase \in FeedCases

LEMMA FeedStarts == FeedInit => FeedHolds
<1> SUFFICES ASSUME FeedInit PROVE FeedHolds
  OBVIOUS
<1> DEFINE rs == [p \in Owners |-> Nothing]
           ps == [k \in Keys |-> Nothing]
           view == [records |-> rs, ports |-> ps, availability |-> "Unknown", sees |-> FALSE]
           none == {}
<1>1. desk = [records |-> rs, runs |-> rs, ports |-> ps, results |-> rs, availability |-> "Unknown",
              oldRecords |-> FALSE, oldScan |-> FALSE, oldResults |-> none, oldAvailability |-> FALSE,
              pending |-> NoChange, refused |-> none, view |-> view]
  BY DEF FeedInit
<1>2. view.records = rs /\ view.ports = ps /\ view.availability = "Unknown" /\ view.sees = FALSE
      /\ IsView(view)
  <2> HIDE DEF rs, ps
  <2> QED BY DEF IsView
<1>3. /\ rs \in [Owners -> ProcessRecords \cup {Nothing}]
      /\ rs \in [Owners -> ManagedRuns \cup {Nothing}]
      /\ rs \in [Owners -> PortAnswers \cup {Nothing}]
      /\ ps \in [Keys -> CachedPorts \cup {Nothing}]
      /\ \A p \in Owners : rs[p] = Nothing
      /\ \A k \in Keys : ps[k] = Nothing
  OBVIOUS
<1> HIDE DEF rs, ps, view, none
<1>4. /\ desk.records = rs /\ desk.runs = rs /\ desk.ports = ps /\ desk.results = rs
      /\ desk.availability = "Unknown" /\ desk.pending = NoChange /\ desk.view = view /\ IsDesk(desk)
  BY <1>1 DEF IsDesk
<1>5. IsPending(NoChange) /\ NoChange.availability = <<>> /\ DOMAIN NoChange.processes = {}
      /\ DOMAIN NoChange.ports = {}
  BY DEF IsPending, NoChange
<1>6. Agrees(desk, desk.records, Shown(desk.ports), desk.availability)
  BY <1>2, <1>3, <1>4, <1>5 DEF Agrees, IsFeeding, SaidOf, SaysOf, SaidAt, SaysAt, SaidOn, SaysOn
<1>7. CacheTypes(desk)
  BY <1>3, <1>4 DEF CacheTypes, Answers
<1>8. \A p \in Owners : IsJudged(desk, p) /\ ShowsPorts(desk, p)
  BY <1>3, <1>4 DEF IsJudged, ShowsPorts
<1>9. Held(desk.ports) = {}
  BY <1>3, <1>4 DEF Held
<1>10. Balanced(desk.ports) /\ Room(desk.ports)
  BY <1>9, FS_EmptySet, PortsAreBounded DEF Balanced, Room
<1> QED BY <1>6, <1>7, <1>8, <1>10 DEF FeedInit, FeedHolds, FeedInv

LEMMA FeedGoesOn == FeedHolds /\ [FeedNext]_feedVars => FeedHolds'
<1> SUFFICES ASSUME FeedHolds, [FeedNext]_feedVars PROVE FeedHolds'
  OBVIOUS
<1>1. /\ feedCase.bytes \in Nat \ (0..1) /\ feedCase.scans \subseteq Answers
      /\ feedCase.results \subseteq Answers /\ feedCase.owners \subseteq Owners
      /\ feedCase.endpoints \subseteq Endpoints /\ feedCase.runs \subseteq ManagedRuns
      /\ FeedInv(desk)
  BY FeedCasesAreInputs DEF FeedHolds
<1>2. KeysHere \in SUBSET Keys
  BY <1>1 DEF KeysHere, Keys
<1>3. ASSUME NEW a, FeedInv(a), Becomes(a) PROVE FeedHolds'
  BY <1>3 DEF Becomes, FeedHolds
<1>4. ASSUME PortScanEnds PROVE FeedHolds'
  <2>1. PICK is \in feedCase.scans :
          \E keys \in IF is = "Known" THEN SUBSET KeysHere ELSE {{}} : Becomes(ApplyPortScan(desk, is,
              keys))
    BY <1>4 DEF PortScanEnds
  <2>2. PICK keys \in IF is = "Known" THEN SUBSET KeysHere ELSE {{}} : Becomes(ApplyPortScan(desk, is,
        keys))
    BY <2>1
  <2>3. is \in Answers /\ keys \in SUBSET Keys
    BY <1>1, <1>2, <2>2
  <2>4. FeedInv(ApplyPortScan(desk, is, keys))
    BY <1>1, <2>3, ApplyPortScanKeepsTheFeed
  <2> QED BY <1>3, <2>2, <2>4
<1>5. ASSUME NEW p \in feedCase.owners, PortsEnriched(p) PROVE FeedHolds'
  <2>1. PICK is \in feedCase.results :
          \E keys \in IF is = "Known" THEN SUBSET KeysHere ELSE {{}} :
            Becomes(ApplyEnrichedPorts(desk, p, is, keys))
    BY <1>5 DEF PortsEnriched
  <2>2. PICK keys \in IF is = "Known" THEN SUBSET KeysHere ELSE {{}} :
          Becomes(ApplyEnrichedPorts(desk, p, is, keys))
    BY <2>1
  <2>3. is \in Answers /\ keys \in SUBSET Keys /\ p \in Owners
    BY <1>1, <1>2, <2>2
  <2>4. FeedInv(ApplyEnrichedPorts(desk, p, is, keys))
    BY <1>1, <2>3, ApplyEnrichedPortsKeepsTheFeed
  <2> QED BY <1>3, <2>2, <2>4
<1>6. ASSUME ProcessesScanned PROVE FeedHolds'
  BY <1>1, <1>3, <1>6, ApplyProcessesKeepsTheFeed DEF ProcessesScanned
<1>7. ASSUME BindingsReplaced PROVE FeedHolds'
  <2>1. PICK runs \in [Owners -> feedCase.runs \cup {Nothing}] : Becomes(ReplaceBindings(desk, runs))
    BY <1>7 DEF BindingsReplaced
  <2>2. runs \in [Owners -> ManagedRuns \cup {Nothing}]
    BY <1>1, <2>1
  <2>3. FeedInv(ReplaceBindings(desk, runs))
    BY <1>1, <2>2, ReplaceBindingsKeepsTheFeed
  <2> QED BY <1>3, <2>1, <2>3
<1>8. ASSUME Expire PROVE FeedHolds'
  <2>1. PICK b : /\ Becomes(b)
                 /\ \/ b = [desk EXCEPT !.oldRecords = TRUE]
                    \/ b = [desk EXCEPT !.oldScan = TRUE, !.oldAvailability = TRUE]
                    \/ b = [desk EXCEPT !.oldScan = TRUE]
                    \/ \E p \in Owners : b = [desk EXCEPT !.oldResults = @ \cup {p}]
    BY <1>8 DEF Expire
  <2>2. IsDesk(desk)
    BY <1>1 DEF FeedInv, Agrees, IsFeeding
  <2>3. /\ IsDesk(b) /\ b.records = desk.records /\ b.runs = desk.runs /\ b.ports = desk.ports
        /\ b.results = desk.results /\ b.availability = desk.availability
        /\ b.pending = desk.pending /\ b.refused = desk.refused /\ b.view = desk.view
        /\ \A p \in Owners : p \in desk.oldResults => p \in b.oldResults
    <3>1. CASE b = [desk EXCEPT !.oldRecords = TRUE]
      BY <2>2, <3>1 DEF IsDesk
    <3>2. CASE b = [desk EXCEPT !.oldScan = TRUE, !.oldAvailability = TRUE]
      BY <2>2, <3>2 DEF IsDesk
    <3>3. CASE b = [desk EXCEPT !.oldScan = TRUE]
      BY <2>2, <3>3 DEF IsDesk
    <3>4. CASE \E p \in Owners : b = [desk EXCEPT !.oldResults = @ \cup {p}]
      <4>1. PICK p \in Owners : b = [desk EXCEPT !.oldResults = desk.oldResults \cup {p}]
        BY <3>4
      <4> DEFINE old == desk.oldResults \cup {p}
      <4>2. b = [desk EXCEPT !.oldResults = old] /\ \A q \in Owners : q \in desk.oldResults => q \in old
        BY <4>1
      <4> HIDE DEF old
      <4> QED BY <2>2, <4>2 DEF IsDesk
    <3> QED BY <2>1, <3>1, <3>2, <3>3, <3>4
  <2>4. FeedInv(b)
    BY <1>1, <2>3, AgeingKeepsTheFeed
  <2> QED BY <1>3, <2>1, <2>4
<1>9. ASSUME FlushTick PROVE FeedHolds'
  BY <1>1, <1>3, <1>9, FlushKeepsTheFeed DEF FlushTick
<1>10. ASSUME SweepTick PROVE FeedHolds'
  BY <1>1, <1>3, <1>10, SweptKeepsTheFeed DEF SweepTick
<1>11. ASSUME Resynchronise PROVE FeedHolds'
  <2> DEFINE a == Flushed(Swept(desk))
  <2>1. FeedInv(a) /\ a.pending = NoChange
    BY <1>1, SweptKeepsTheFeed, FlushKeepsTheFeed
  <2>2. Becomes(Resynchronised(a))
    BY <1>11 DEF Resynchronise
  <2> HIDE DEF a
  <2> QED BY <1>3, <2>1, <2>2, ResynchronisedKeepsTheFeed
<1>12. CASE UNCHANGED feedVars
  BY <1>12 DEF feedVars, FeedHolds
<1> QED BY <1>4, <1>5, <1>6, <1>7, <1>8, <1>9, <1>10, <1>11, <1>12 DEF FeedNext

LEMMA FeedIsWhatItSays == FeedHolds => FeedIsFaithful
<1> SUFFICES ASSUME FeedHolds PROVE FeedIsFaithful
  OBVIOUS
<1> DEFINE said == Applied(desk.view, desk.pending)
<1>1. Agrees(desk, desk.records, Shown(desk.ports), desk.availability)
  BY DEF FeedHolds, FeedInv
<1>2. /\ said.sees = desk.view.sees
      /\ \A p \in Owners : said.records[p] = SaidOf(desk, p)
      /\ \A k \in Keys : said.ports[k] = SaidAt(desk, k)
      /\ said.availability = SaidOn(desk)
  BY <1>1, AppliedSays DEF Agrees, IsFeeding, SaidOf, SaidAt, SaidOn
<1> HIDE DEF said
<1>3. \A p \in Owners \ desk.refused : said.records[p] = desk.records[p]
  BY <1>1, <1>2 DEF Agrees
<1>4. said.availability = desk.availability
  BY <1>1, <1>2 DEF Agrees
<1>5. said.sees => \A k \in Keys : said.ports[k] =
        IF desk.ports[k] = Nothing THEN Nothing ELSE desk.ports[k].confidence
  BY <1>1, <1>2 DEF Agrees, Shown
<1>6. ASSUME NEW p \in Owners, desk.records[p] # Nothing
      PROVE  /\ desk.records[p].ports \in {PortsOf(desk, p, desk.oldResults),
                                           PortsOf(desk, p, desk.oldResults \ {p})}
             /\ desk.records[p].run = desk.runs[p] /\ desk.records[p] = Judged(desk.records[p])
  BY <1>6 DEF FeedHolds, FeedInv, IsJudged, ShowsPorts
<1>7. \A k \in Held(desk.ports) : desk.ports[k].confidence = Confidence(Held(desk.ports), k)
  BY DEF FeedHolds, FeedInv, Balanced
<1>8. Cardinality(Held(desk.ports)) <= PortCapacity
  BY DEF FeedHolds, FeedInv, Room
<1> QED BY <1>3, <1>4, <1>5, <1>6, <1>7, <1>8 DEF FeedIsFaithful, said

(* What a subscriber has been told is what discovery holds, for any finite *)
(* host, any answers and any sizes: the records it has are the desk's but  *)
(* for the processes whose update was refused, it knows whether the ports  *)
(* are, and if it sees ports it sees those.  Each record shows the ports   *)
(* held for its process and is classified by them, no port is held as      *)
(* exact that another process holds too, and no more ports are held than   *)
(* the cache may.  (apply_port_scan, apply_enrichment_port_result,         *)
(* sweep_expired, snapshot and the delta accumulator of scheduler.rs:      *)
(* FeedIsFaithful.)                                                        *)
THEOREM FeedStaysFaithful == FeedSpec => []FeedIsFaithful
<1>1. FeedSpec => []FeedHolds
  BY FeedStarts, FeedGoesOn, PTL DEF FeedSpec
<1> QED BY <1>1, FeedIsWhatItSays, PTL

=============================================================================
