--------------------------- MODULE Logs_proofs ---------------------------
(***************************************************************************)
(* The logs of runs.  No file vanishes under a reader or a writer, every   *)
(* reader that is not active can be dropped, and the log directories stay  *)
(* within the disk budget, for any number of runs, requests, permits and   *)
(* readers.  Who reads a stream reads what the process wrote, whatever the *)
(* sizes of its files, its window and its ranges.                          *)
(***************************************************************************)
EXTENDS LogReaders, LogStream, Integers, Filters_proofs, FiniteSetTheorems, SequenceTheorems, TLAPS

------------------------------------------------------------
(* Lists without repetitions. *)

LEMMA AppendIs ==
  ASSUME NEW S, NEW s \in Seq(S), NEW x \in S
  PROVE  /\ Append(s, x) \in Seq(S) /\ ToSet(Append(s, x)) = ToSet(s) \cup {x}
         /\ IsInjective(s) /\ x \notin ToSet(s) => IsInjective(Append(s, x))
<1> DEFINE t == Append(s, x)
           n == Len(s)
<1>1. /\ n \in Nat /\ DOMAIN s = 1..n /\ DOMAIN t = 1..(n + 1) /\ t \in Seq(S)
      /\ \A i \in 1..n : t[i] = s[i]
      /\ t[n + 1] = x
  OBVIOUS
<1> HIDE DEF t, n
<1>2. DOMAIN t = DOMAIN s \cup {n + 1}
  BY <1>1
<1>3. ToSet(t) = ToSet(s) \cup {x}
  <2>1. \A y \in ToSet(t) : y \in ToSet(s) \cup {x}
    BY <1>1, <1>2 DEF ToSet
  <2>2. \A y \in ToSet(s) : y \in ToSet(t)
    BY <1>1, <1>2 DEF ToSet
  <2>3. x \in ToSet(t)
    BY <1>1, <1>2 DEF ToSet
  <2> QED BY <2>1, <2>2, <2>3
<1>4. ASSUME IsInjective(s), x \notin ToSet(s) PROVE IsInjective(t)
  <2>1. \A i \in 1..n : s[i] # x
    BY <1>1, <1>4 DEF ToSet
  <2>2. \A i, j \in 1..n : t[i] = t[j] => i = j
    BY <1>1, <1>4 DEF IsInjective
  <2>3. \A i \in 1..n : t[i] # t[n + 1]
    BY <1>1, <2>1
  <2>4. \A i, j \in DOMAIN t : t[i] = t[j] => i = j
    BY <1>1, <1>2, <2>2, <2>3
  <2> QED BY <2>4 DEF IsInjective
<1> QED BY <1>1, <1>3, <1>4 DEF t

LEMMA TailIs ==
  ASSUME NEW S, NEW s \in Seq(S), s # <<>>
  PROVE  /\ Head(s) \in S /\ Head(s) \in ToSet(s) /\ Tail(s) \in Seq(S)
         /\ Len(Tail(s)) = Len(s) - 1 /\ Len(s) \in Nat \ {0}
         /\ Head(s) = s[1]
         /\ \A k \in DOMAIN Tail(s) : k + 1 \in DOMAIN s /\ Tail(s)[k] = s[k + 1]
         /\ ToSet(s) = ToSet(Tail(s)) \cup {Head(s)}
         /\ IsInjective(s) => IsInjective(Tail(s)) /\ Head(s) \notin ToSet(Tail(s))
<1> DEFINE t == Tail(s)
           n == Len(s)
<1>1. /\ n \in Nat \ {0} /\ DOMAIN s = 1..n
      /\ t \in Seq(S) /\ Len(t) = n - 1 /\ DOMAIN t = 1..(n - 1)
      /\ \A k \in 1..(n - 1) : t[k] = s[k + 1]
      /\ Head(s) = s[1] /\ s[1] \in S
  OBVIOUS
<1> HIDE DEF t, n
<1>2. \A k \in DOMAIN t : k + 1 \in DOMAIN s /\ t[k] = s[k + 1]
  BY <1>1
<1>3. 1 \in DOMAIN s
  BY <1>1
<1>4. ToSet(s) = ToSet(t) \cup {Head(s)}
  <2>1. ASSUME NEW y \in ToSet(s) PROVE y \in ToSet(t) \cup {Head(s)}
    <3>1. PICK i \in DOMAIN s : y = s[i]
      BY DEF ToSet
    <3>2. CASE i = 1
      BY <1>1, <3>1, <3>2
    <3>3. CASE i # 1
      <4>1. i - 1 \in DOMAIN t /\ (i - 1) + 1 = i
        BY <1>1, <3>1, <3>3
      <4>2. t[i - 1] = y
        BY <1>2, <3>1, <4>1
      <4> QED BY <4>1, <4>2 DEF ToSet
    <3> QED BY <3>2, <3>3
  <2>2. \A y \in ToSet(t) : y \in ToSet(s)
    BY <1>2 DEF ToSet
  <2>3. Head(s) \in ToSet(s)
    BY <1>1, <1>3 DEF ToSet
  <2> QED BY <2>1, <2>2, <2>3
<1>5. ASSUME IsInjective(s) PROVE IsInjective(t) /\ Head(s) \notin ToSet(t)
  <2>1. ASSUME NEW i \in DOMAIN t, NEW j \in DOMAIN t, t[i] = t[j] PROVE i = j
    BY <1>1, <1>2, <1>5, <2>1 DEF IsInjective
  <2>2. ASSUME NEW i \in DOMAIN t PROVE t[i] # Head(s)
    BY <1>1, <1>2, <1>3, <1>5 DEF IsInjective
  <2> QED BY <2>1, <2>2 DEF IsInjective, ToSet
<1> QED BY <1>1, <1>2, <1>4, <1>5 DEF t, n

LEMMA ConcatIs ==
  ASSUME NEW S, NEW s \in Seq(S), NEW t \in Seq(S)
  PROVE  /\ s \o t \in Seq(S) /\ ToSet(s \o t) = ToSet(s) \cup ToSet(t)
         /\ IsInjective(s) /\ IsInjective(t) /\ ToSet(s) \cap ToSet(t) = {} =>
              IsInjective(s \o t)
<1> DEFINE u == s \o t
           n == Len(s)
           m == Len(t)
<1>1. /\ n \in Nat /\ m \in Nat /\ DOMAIN s = 1..n /\ DOMAIN t = 1..m
      /\ u \in Seq(S) /\ DOMAIN u = 1..(n + m)
      /\ \A i \in 1..(n + m) : u[i] = IF i <= n THEN s[i] ELSE t[i - n]
  OBVIOUS
<1> HIDE DEF u, n, m
<1>2. \A i \in 1..n : i \in DOMAIN u /\ u[i] = s[i]
  BY <1>1
<1>3. \A i \in 1..m : i + n \in DOMAIN u /\ u[i + n] = t[i]
  <2>1. ASSUME NEW i \in 1..m PROVE i + n \in DOMAIN u /\ u[i + n] = t[i]
    BY <1>1
  <2> QED BY <2>1
<1>4. ASSUME NEW i \in DOMAIN u
      PROVE  \/ i \in 1..n /\ u[i] = s[i]
             \/ i - n \in 1..m /\ ~(i \in 1..n) /\ u[i] = t[i - n]
  BY <1>1
<1>5. ToSet(u) = ToSet(s) \cup ToSet(t)
  <2>1. \A y \in ToSet(u) : y \in ToSet(s) \cup ToSet(t)
    BY <1>1, <1>4 DEF ToSet
  <2>2. \A y \in ToSet(s) : y \in ToSet(u)
    BY <1>1, <1>2 DEF ToSet
  <2>3. \A y \in ToSet(t) : y \in ToSet(u)
    BY <1>1, <1>3, ZenonT(60) DEF ToSet
  <2> QED BY <2>1, <2>2, <2>3
<1>6. ASSUME IsInjective(s), IsInjective(t), ToSet(s) \cap ToSet(t) = {} PROVE IsInjective(u)
  <2>1. ASSUME NEW i \in DOMAIN u, NEW j \in DOMAIN u, u[i] = u[j] PROVE i = j
    <3>1. CASE i \in 1..n /\ j \in 1..n
      BY <1>1, <1>2, <1>6, <2>1, <3>1 DEF IsInjective
    <3>2. CASE ~(i \in 1..n) /\ ~(j \in 1..n)
      <4>1. i - n = j - n
        BY <1>1, <1>4, <1>6, <2>1, <3>2 DEF IsInjective
      <4> QED BY <1>1, <4>1
    <3>3. \A k, l \in DOMAIN u : k \in 1..n /\ ~(l \in 1..n) => u[k] # u[l]
      BY <1>1, <1>4, <1>6, ZenonT(60) DEF ToSet
    <3> QED BY <2>1, <3>1, <3>2, <3>3
  <2> QED BY <2>1 DEF IsInjective
<1> QED BY <1>1, <1>5, <1>6 DEF u

(* A list is cut in two parts that have nothing in common. *)
LEMMA CutIs ==
  ASSUME NEW S, NEW s \in Seq(S), NEW k \in 0..Len(s)
  PROVE  LET front == SubSeq(s, 1, k)
             back  == SubSeq(s, k + 1, Len(s)) IN
         /\ front \in Seq(S) /\ back \in Seq(S)
         /\ Len(front) = k
         /\ ToSet(s) = ToSet(front) \cup ToSet(back)
         /\ IsInjective(s) => /\ IsInjective(front) /\ IsInjective(back)
                              /\ ToSet(front) \cap ToSet(back) = {}
<1> DEFINE front == SubSeq(s, 1, k)
           back  == SubSeq(s, k + 1, Len(s))
           n == Len(s)
<1>1. n \in Nat /\ DOMAIN s = 1..n /\ k \in Nat /\ k <= n
  OBVIOUS
<1>2. /\ front \in Seq(S) /\ Len(front) = k /\ DOMAIN front = 1..k
      /\ \A i \in 1..k : front[i] = s[i] /\ i \in DOMAIN s
  BY <1>1, SubSeqProperties
<1>3. /\ back \in Seq(S) /\ DOMAIN back = 1..(n - k)
      /\ \A i \in 1..(n - k) : back[i] = s[k + i] /\ k + i \in DOMAIN s
  BY <1>1, SubSeqProperties
<1> HIDE DEF front, back, n
<1>4. ASSUME NEW i \in DOMAIN s
      PROVE  \/ i \in 1..k /\ front[i] = s[i]
             \/ i - k \in 1..(n - k) /\ back[i - k] = s[i]
  <2>1. CASE i <= k
    BY <1>1, <1>2, <2>1
  <2>2. CASE ~(i <= k)
    BY <1>1, <1>3, <2>2
  <2> QED BY <2>1, <2>2
<1>5. ToSet(s) = ToSet(front) \cup ToSet(back)
  <2>1. \A y \in ToSet(s) : y \in ToSet(front) \cup ToSet(back)
    BY <1>2, <1>3, <1>4 DEF ToSet
  <2>2. \A y \in ToSet(front) : y \in ToSet(s)
    BY <1>2 DEF ToSet
  <2>3. \A y \in ToSet(back) : y \in ToSet(s)
    BY <1>3 DEF ToSet
  <2> QED BY <2>1, <2>2, <2>3
<1>6. ASSUME IsInjective(s)
      PROVE  IsInjective(front) /\ IsInjective(back) /\ ToSet(front) \cap ToSet(back) = {}
  <2>1. IsInjective(front)
    BY <1>2, <1>6 DEF IsInjective
  <2>2. ASSUME NEW i \in DOMAIN back, NEW j \in DOMAIN back, back[i] = back[j] PROVE i = j
    <3>1. k + i = k + j
      BY <1>3, <1>6, <2>2 DEF IsInjective
    <3> QED BY <1>1, <1>3, <3>1
  <2>3. ASSUME NEW i \in DOMAIN front, NEW j \in DOMAIN back PROVE front[i] # back[j]
    <3>1. i # k + j
      BY <1>1, <1>2, <1>3
    <3> QED BY <1>2, <1>3, <1>6, <3>1 DEF IsInjective
  <2> QED BY <2>1, <2>2, <2>3 DEF IsInjective, ToSet
<1> QED BY <1>2, <1>3, <1>5, <1>6 DEF front, back, n

(* The orders of a finite set list all of it. *)
LEMMA OrdersAre ==
  ASSUME NEW S, IsFiniteSet(S), NEW s \in SetToSeqs(S)
  PROVE  s \in Seq(S) /\ IsInjective(s) /\ ToSet(s) = S
<1> DEFINE n == Cardinality(S)
<1>1. n \in Nat /\ IsFiniteSet(1..n) /\ Cardinality(1..n) = n
  BY FS_CardinalityType, FS_Interval
<1>2. s \in [1..n -> S] /\ \A i, j \in 1..n : i # j => s[i] # s[j]
  BY DEF SetToSeqs
<1> HIDE DEF n
<1>3. s \in Seq(S) /\ DOMAIN s = 1..n
  BY <1>1, <1>2
<1>4. IsInjective(s) /\ s \in Injection(1..n, S)
  BY <1>2 DEF IsInjective, Injection
<1>5. s \in Surjection(1..n, S)
  BY <1>1, <1>4, FS_Injection DEF n
<1>6. ToSet(s) = S
  BY <1>2, <1>3, <1>5 DEF Surjection, ToSet
<1> QED BY <1>3, <1>4, <1>6

LEMMA ForgetIs ==
  ASSUME NEW s \in Seq(Runs), NEW r \in Runs
  PROVE  /\ Forget(s, r) \in Seq(Runs) /\ ToSet(Forget(s, r)) = ToSet(s) \ {r}
         /\ IsInjective(s) => IsInjective(Forget(s, r))
<1> DEFINE at == {i \in DOMAIN s : s[i] # r}
<1>1. at \in SUBSET DOMAIN s /\ Forget(s, r) = Filtered(s, at)
  BY DEF Forget
<1>2. ToSet(s) \ {r} = {s[i] : i \in at}
  BY DEF ToSet
<1> HIDE DEF at
<1>3. Filtered(s, at) \in Seq(Runs)
  BY <1>1, FilteredKeeps
<1>4. /\ {Filtered(s, at)[k] : k \in DOMAIN Filtered(s, at)} = {s[i] : i \in at}
      /\ IsInjective(s) => IsInjective(Filtered(s, at))
  BY <1>1, FilteredSelects
<1> QED BY <1>1, <1>2, <1>3, <1>4 DEF ToSet

------------------------------------------------------------
(* The invariant. *)

Reader     == [generation : Nat, active : BOOLEAN]
Registry   == [entries : [Runs -> Reader \cup {None}], completed : Seq(Runs)]
Generation == Nat \cup {None}
Request    == [at : {"Idle", "Check", "Open", "Read"}, run : Runs \cup {None},
               offset : Generation, reader : Generation]
Seen       == [run : Runs, bytes : {0, 1}, missing : BOOLEAN]
Cleanup    == [at : {"Idle", "Inspect", "Decide", "Acquire", "Begin", "Remove", "Mark"},
               forStart : BOOLEAN, load : Seq(Runs), inspected : Seq(Seen), charged : Int,
               reserved : Nat, count : Int, expired : SUBSET Runs, truncated : BOOLEAN]

RowsTyped ==
  /\ live \in SUBSET Runs /\ ended \in Seq(Runs)
  /\ deleting \in SUBSET Runs /\ deleted \in SUBSET Runs /\ dirs \in SUBSET Runs
ServiceTyped ==
  /\ controls \in [Runs -> {None, "Launched", "Recovered"}]
  /\ capturing \in SUBSET Runs
  /\ starting \in [run : Runs \cup {None}, admitted : BOOLEAN]
ReadersTyped ==
  /\ opened \in [Runs -> Nat]
  /\ issued \in SUBSET (Runs \X Nat)
  /\ request \in [Requests -> Request]

(* A run has one row, and one that is being started has none yet. *)
OneRowEach ==
  /\ IsInjective(ended) /\ live \cap ToSet(ended) = {}
  /\ starting.run # None => starting.run \notin Rows
  /\ starting.run = None => ~starting.admitted

(* What the Supervisor holds and keeps on disk belongs to a run with a row. *)
HoldsRows ==
  /\ live \subseteq Controlled /\ Controlled \subseteq Rows
  /\ capturing \subseteq Rows /\ Registered(registry) \subseteq Rows /\ dirs \subseteq Rows
  /\ \A r \in capturing : ActiveReader(r)

(* The queue holds every completed reader once and no active one, and the *)
(* registry keeps to its capacity.                                        *)
QueueIsExact(g) ==
  /\ IsInjective(g.completed)
  /\ ToSet(g.completed) = {r \in Registered(g) : ~g.entries[r].active}
Sound(g) ==
  /\ g \in Registry /\ QueueIsExact(g)
  /\ Cardinality(Registered(g)) <= ReaderCapacity

MarksAreTrue ==
  /\ deleted \subseteq deleting /\ deleting \subseteq ToSet(ended)
  /\ deleted \cap dirs = {}

RequestsInStep ==
  \A q \in Requests :
    /\ request[q].at # "Idle" => request[q].run \in Rows
    /\ request[q].at = "Read" => request[q].reader \in Nat
    /\ request[q].at \in {"Open", "Read"} => request[q].run \notin deleting

(* Where a cleanup stands, it has seen its candidates, holds the permits *)
(* and has marked, evicted and removed what the next step relies on.     *)
CleanupInStep ==
  /\ cleanup.at \notin {"Idle", "Inspect"} => cleanup.load = <<>>
  /\ cleanup.at \in {"Acquire", "Begin", "Remove", "Mark"} => cleanup.inspected # <<>>
  /\ cleanup.at \in {"Begin", "Remove", "Mark"} => Reading = {}
  /\ cleanup.at \in {"Remove", "Mark"} =>
       LET r == Candidate.run IN
       r \in deleting /\ controls[r] = None /\ registry.entries[r] = None
  /\ cleanup.at = "Mark" => Candidate.run \notin dirs
  /\ cleanup.at # "Idle" /\ cleanup.forStart => starting.run # None /\ ~starting.admitted

(* A cleanup looks at each candidate once. *)
ListsAreDistinct(c) ==
  /\ IsInjective(c.load)
  /\ \A k, l \in DOMAIN c.inspected : c.inspected[k].run = c.inspected[l].run => k = l
  /\ \A k \in DOMAIN c.inspected : c.inspected[k].run \notin ToSet(c.load)

(* The space a cleanup for a start counts covers every directory: those of *)
(* the runs U it reserves a budget for, those of the runs C it charges,    *)
(* and those it has yet to look at.                                        *)
Covers(c, held, present, U, C) ==
  /\ held \subseteq U /\ Cardinality(U) + 1 <= c.reserved
  /\ Cardinality(C) <= c.charged
  /\ present \subseteq U \cup C \cup ToSet(c.load)
  /\ \A k \in DOMAIN c.inspected : c.inspected[k].bytes = 1 => c.inspected[k].run \in C
Counted(c, held, present) ==
  c.at # "Idle" /\ c.forStart /\ ~c.truncated =>
    \E U, C \in SUBSET Runs : Covers(c, held, present, U, C)

DiskHolds ==
  /\ starting.admitted => Cardinality(dirs) + 1 <= DiskBudget
  /\ Cardinality(dirs) <= DiskBudget

LogInv ==
  /\ RowsTyped /\ ServiceTyped /\ ReadersTyped /\ cleanup \in Cleanup
  /\ OneRowEach /\ HoldsRows /\ Sound(registry) /\ MarksAreTrue
  /\ RequestsInStep /\ CleanupInStep
  /\ ListsAreDistinct(cleanup) /\ Counted(cleanup, Controlled, dirs) /\ DiskHolds

------------------------------------------------------------
(* The registry of readers. *)

Active(g) == {r \in Runs : g.entries[r] # None /\ g.entries[r].active}

LEMMA SizeOf ==
  ASSUME NEW A \in SUBSET Runs
  PROVE  IsFiniteSet(A) /\ Cardinality(A) \in Nat
<1>1. IsFiniteSet(A)
  BY LogNames, FS_Subset
<1> QED BY <1>1, FS_CardinalityType

LEMMA SizeGrows ==
  ASSUME NEW A \in SUBSET Runs, NEW r \in Runs
  PROVE  Cardinality(A \cup {r}) <= Cardinality(A) + 1
<1>1. IsFiniteSet(A) /\ Cardinality(A) \in Nat
  BY SizeOf
<1>2. r \in A => A \cup {r} = A
  OBVIOUS
<1>3. Cardinality(A \cup {r}) = IF r \in A THEN Cardinality(A) ELSE Cardinality(A) + 1
  BY <1>1, FS_AddElement
<1> QED BY <1>1, <1>3

LEMMA SizeShrinks ==
  ASSUME NEW A \in SUBSET Runs, NEW B \in SUBSET A
  PROVE  Cardinality(B) <= Cardinality(A)
<1>1. IsFiniteSet(A)
  BY SizeOf
<1> QED BY <1>1, FS_Subset

LEMMA NoneIsNoReader == \A e \in Reader : e # None
BY LogNames DEF Reader

LEMMA TouchedIs ==
  ASSUME NEW g, Sound(g), NEW r \in Runs
  PROVE  Sound(Touched(g, r)) /\ Touched(g, r).entries = g.entries
<1> DEFINE h == [g EXCEPT !.completed = Append(Forget(@, r), r)]
<1>1. /\ g \in Registry /\ g.completed \in Seq(Runs) /\ IsInjective(g.completed)
      /\ ToSet(g.completed) = {x \in Registered(g) : ~g.entries[x].active}
  BY DEF Sound, QueueIsExact, Registry
<1>2. CASE ~(g.entries[r] # None /\ ~g.entries[r].active)
  BY <1>2 DEF Touched
<1>3. CASE g.entries[r] # None /\ ~g.entries[r].active
  <2>1. Touched(g, r) = h
    BY <1>3 DEF Touched
  <2>2. h.completed = Append(Forget(g.completed, r), r) /\ h.entries = g.entries
    BY <1>1 DEF Registry
  <2>3. /\ Forget(g.completed, r) \in Seq(Runs) /\ IsInjective(Forget(g.completed, r))
        /\ ToSet(Forget(g.completed, r)) = ToSet(g.completed) \ {r}
    BY <1>1, ForgetIs
  <2>4. /\ h.completed \in Seq(Runs) /\ IsInjective(h.completed)
        /\ ToSet(h.completed) = (ToSet(g.completed) \ {r}) \cup {r}
    BY <2>2, <2>3, AppendIs
  <2>5. r \in ToSet(g.completed)
    BY <1>1, <1>3 DEF Registered
  <2>6. h \in Registry
    BY <1>1, <2>2, <2>4 DEF Registry
  <2> HIDE DEF h
  <2>7. Registered(h) = Registered(g)
    BY <2>2 DEF Registered
  <2>8. ToSet(h.completed) = {x \in Registered(h) : ~h.entries[x].active}
    BY <1>1, <2>2, <2>4, <2>5, <2>7
  <2>9. Sound(h)
    BY <2>4, <2>6, <2>7, <2>8 DEF Sound, QueueIsExact
  <2> QED BY <2>1, <2>2, <2>9
<1> QED BY <1>2, <1>3

LEMMA WithoutIs ==
  ASSUME NEW g, Sound(g), NEW r \in Runs
  PROVE  /\ Sound(Without(g, r))
         /\ Registered(Without(g, r)) = Registered(g) \ {r}
         /\ Without(g, r).entries[r] = None
         /\ Active(Without(g, r)) = Active(g) \ {r}
<1> DEFINE h == Without(g, r)
<1>1. /\ g \in Registry /\ g.completed \in Seq(Runs) /\ IsInjective(g.completed)
      /\ ToSet(g.completed) = {x \in Registered(g) : ~g.entries[x].active}
      /\ Cardinality(Registered(g)) <= ReaderCapacity
  BY DEF Sound, QueueIsExact, Registry
<1>2. h.completed = Forget(g.completed, r) /\ h.entries = [g.entries EXCEPT ![r] = None]
      /\ h = [entries |-> h.entries, completed |-> h.completed]
  BY DEF Without
<1>3. /\ h.completed \in Seq(Runs) /\ IsInjective(h.completed)
      /\ ToSet(h.completed) = ToSet(g.completed) \ {r}
  BY <1>1, <1>2, ForgetIs
<1>4. /\ h.entries \in [Runs -> Reader \cup {None}] /\ h.entries[r] = None
      /\ \A x \in Runs : x # r => h.entries[x] = g.entries[x]
  BY <1>1, <1>2 DEF Registry
<1> HIDE DEF h
<1>5. h \in Registry
  BY <1>2, <1>3, <1>4 DEF Registry
<1>6. Registered(h) = Registered(g) \ {r}
  BY <1>4 DEF Registered
<1>7. ToSet(h.completed) = {x \in Registered(h) : ~h.entries[x].active}
  BY <1>1, <1>3, <1>4, <1>6 DEF Registered
<1>8. Cardinality(Registered(h)) <= Cardinality(Registered(g))
      /\ Cardinality(Registered(h)) \in Nat /\ Cardinality(Registered(g)) \in Nat
  BY <1>6, SizeShrinks, SizeOf DEF Registered
<1>9. Sound(h)
  BY <1>1, <1>3, <1>5, <1>7, <1>8, LogLimits DEF Sound, QueueIsExact
<1>10. Active(h) = Active(g) \ {r}
  BY <1>4 DEF Active
<1> QED BY <1>4, <1>6, <1>9, <1>10 DEF h

LEMMA MarkCompletedIs ==
  ASSUME NEW g, Sound(g), NEW r \in Runs
  PROVE  /\ Sound(MarkCompleted(g, r))
         /\ Registered(MarkCompleted(g, r)) = Registered(g)
         /\ Active(MarkCompleted(g, r)) = Active(g) \ {r}
<1> DEFINE h == MarkCompleted(g, r)
<1>1. /\ g \in Registry /\ g.completed \in Seq(Runs) /\ IsInjective(g.completed)
      /\ ToSet(g.completed) = {x \in Registered(g) : ~g.entries[x].active}
      /\ Cardinality(Registered(g)) <= ReaderCapacity
  BY DEF Sound, QueueIsExact, Registry
<1>2. CASE ~(g.entries[r] # None /\ g.entries[r].active)
  BY <1>2 DEF MarkCompleted, Active
<1>3. CASE g.entries[r] # None /\ g.entries[r].active
  <2>1. /\ h.completed = Append(g.completed, r)
        /\ h.entries = [g.entries EXCEPT ![r].active = FALSE]
        /\ h = [entries |-> h.entries, completed |-> h.completed]
    BY <1>3 DEF MarkCompleted
  <2>2. r \notin ToSet(g.completed)
    BY <1>1, <1>3
  <2>3. /\ h.completed \in Seq(Runs) /\ IsInjective(h.completed)
        /\ ToSet(h.completed) = ToSet(g.completed) \cup {r}
    BY <1>1, <2>1, <2>2, AppendIs
  <2>4. g.entries[r] \in Reader /\ g.entries \in [Runs -> Reader \cup {None}]
    BY <1>1, <1>3 DEF Registry
  <2>5. PICK e \in Reader : ~e.active /\ h.entries = [g.entries EXCEPT ![r] = e]
    BY <2>1, <2>4 DEF Reader
  <2>6. /\ h.entries \in [Runs -> Reader \cup {None}]
        /\ h.entries[r] # None /\ ~h.entries[r].active
        /\ \A x \in Runs : x # r => h.entries[x] = g.entries[x]
    BY <2>4, <2>5, NoneIsNoReader
  <2> HIDE DEF h
  <2>7. h \in Registry
    BY <2>1, <2>3, <2>6 DEF Registry
  <2>8. Registered(h) = Registered(g)
    BY <1>3, <2>6 DEF Registered
  <2>9. ToSet(h.completed) = {x \in Registered(h) : ~h.entries[x].active}
    BY <1>1, <1>3, <2>3, <2>6, <2>8 DEF Registered
  <2>10. Sound(h)
    BY <1>1, <2>3, <2>7, <2>8, <2>9 DEF Sound, QueueIsExact
  <2>11. Active(h) = Active(g) \ {r}
    BY <1>3, <2>6 DEF Active
  <2> QED BY <2>8, <2>10, <2>11 DEF h
<1> QED BY <1>2, <1>3

(* Dropping the oldest completed readers leaves the active ones. *)
LEMMA DroppedIs ==
  ASSUME NEW g, Sound(g), NEW k \in 0..Len(g.completed)
  PROVE  /\ Sound(Dropped(g, k))
         /\ Registered(Dropped(g, k)) \subseteq Registered(g)
         /\ Active(Dropped(g, k)) = Active(g)
<1> DEFINE h == Dropped(g, k)
           front == SubSeq(g.completed, 1, k)
           back == SubSeq(g.completed, k + 1, Len(g.completed))
<1>1. /\ g \in Registry /\ g.completed \in Seq(Runs) /\ IsInjective(g.completed)
      /\ ToSet(g.completed) = {x \in Registered(g) : ~g.entries[x].active}
      /\ Cardinality(Registered(g)) <= ReaderCapacity
      /\ g.entries \in [Runs -> Reader \cup {None}]
  BY DEF Sound, QueueIsExact, Registry
<1>2. /\ back \in Seq(Runs) /\ IsInjective(back)
      /\ ToSet(g.completed) = ToSet(front) \cup ToSet(back)
      /\ ToSet(front) \cap ToSet(back) = {}
  BY <1>1, CutIs
<1>3. /\ h.completed = back
      /\ h.entries = [r \in Runs |-> IF r \in {x \in ToSet(front) : ~g.entries[x].active}
                                     THEN None ELSE g.entries[r]]
      /\ h = [entries |-> h.entries, completed |-> h.completed]
  BY DEF Dropped
<1> HIDE DEF h, front, back
<1>4. \A x \in ToSet(front) : x \in Registered(g) /\ ~g.entries[x].active
  BY <1>1, <1>2
<1>5. /\ h.entries \in [Runs -> Reader \cup {None}]
      /\ \A x \in Runs : h.entries[x] = IF x \in ToSet(front) THEN None ELSE g.entries[x]
  BY <1>1, <1>3, <1>4
<1>6. h \in Registry
  BY <1>2, <1>3, <1>5 DEF Registry
<1>7. Registered(h) = Registered(g) \ ToSet(front)
  BY <1>5 DEF Registered
<1>8. ToSet(back) = {x \in Registered(h) : ~h.entries[x].active}
  BY <1>1, <1>2, <1>5, <1>7 DEF Registered
<1>9. Cardinality(Registered(h)) <= Cardinality(Registered(g))
      /\ Cardinality(Registered(h)) \in Nat /\ Cardinality(Registered(g)) \in Nat
  BY <1>7, SizeShrinks, SizeOf DEF Registered
<1>10. Sound(h)
  BY <1>1, <1>2, <1>3, <1>6, <1>8, <1>9, LogLimits DEF Sound, QueueIsExact
<1>11. Active(h) = Active(g)
  BY <1>4, <1>5 DEF Active
<1> QED BY <1>7, <1>10, <1>11 DEF h

LEMMA MadeRoomIs ==
  ASSUME NEW g, Sound(g)
  PROVE  /\ Sound(MadeRoom(g))
         /\ Registered(MadeRoom(g)) \subseteq Registered(g)
         /\ Active(MadeRoom(g)) = Active(g)
<1> DEFINE enough == {k \in 0..Len(g.completed) : HasRoom(Dropped(g, k))}
<1>1. Len(g.completed) \in Nat
  BY DEF Sound, Registry
<1>2. CASE enough = {}
  BY <1>1, <1>2, DroppedIs DEF MadeRoom
<1>3. CASE enough # {}
  <2>1. \E k \in enough : \A j \in enough : k <= j
    <3>1. enough \in SUBSET Nat
      BY <1>1
    <3> HIDE DEF enough
    <3> QED BY <1>3, <3>1, SmallestExists
  <2>2. PICK k \in enough : MadeRoom(g) = Dropped(g, k)
    BY <1>3, <2>1 DEF MadeRoom
  <2> QED BY <2>2, DroppedIs
<1> QED BY <1>2, <1>3

Adds(h, g, r, e) ==
  h = [entries |-> [g.entries EXCEPT ![r] = e],
       completed |-> IF e.active THEN g.completed ELSE Append(g.completed, r)]

(* A reader is added where there is room. *)
LEMMA AddedIs ==
  ASSUME NEW g, Sound(g), HasRoom(g), NEW r \in Runs \ Registered(g), NEW e \in Reader,
         NEW h, Adds(h, g, r, e)
  PROVE  /\ Sound(h) /\ Registered(h) = Registered(g) \cup {r}
         /\ Active(h) = IF e.active THEN Active(g) \cup {r} ELSE Active(g)
<1>1. /\ g \in Registry /\ g.completed \in Seq(Runs) /\ IsInjective(g.completed)
      /\ ToSet(g.completed) = {x \in Registered(g) : ~g.entries[x].active}
      /\ g.entries \in [Runs -> Reader \cup {None}]
  BY DEF Sound, QueueIsExact, Registry
<1>2. g.entries[r] = None /\ r \notin ToSet(g.completed) /\ e # None
  BY <1>1, NoneIsNoReader DEF Registered
<1>3. /\ h.entries = [g.entries EXCEPT ![r] = e]
      /\ h.completed = (IF e.active THEN g.completed ELSE Append(g.completed, r))
      /\ h = [entries |-> h.entries, completed |-> h.completed]
  BY DEF Adds
<1>4. /\ h.completed \in Seq(Runs) /\ IsInjective(h.completed)
      /\ ToSet(h.completed) = IF e.active THEN ToSet(g.completed)
                               ELSE ToSet(g.completed) \cup {r}
  <2>1. /\ Append(g.completed, r) \in Seq(Runs) /\ IsInjective(Append(g.completed, r))
        /\ ToSet(Append(g.completed, r)) = ToSet(g.completed) \cup {r}
    BY <1>1, <1>2, AppendIs
  <2> QED BY <1>1, <1>3, <2>1
<1>5. /\ h.entries \in [Runs -> Reader \cup {None}] /\ h.entries[r] = e
      /\ \A x \in Runs : x # r => h.entries[x] = g.entries[x]
  BY <1>1, <1>3
<1>6. h \in Registry
  BY <1>3, <1>4, <1>5 DEF Registry
<1>7. Registered(h) = Registered(g) \cup {r}
  BY <1>2, <1>5 DEF Registered
<1>8. ToSet(h.completed) = {x \in Registered(h) : ~h.entries[x].active}
  BY <1>1, <1>4, <1>5, <1>7 DEF Registered
<1>9. Cardinality(Registered(h)) <= ReaderCapacity
  BY <1>7, SizeGrows, SizeOf, LogLimits DEF Registered, HasRoom
<1>10. Sound(h)
  BY <1>4, <1>6, <1>8, <1>9 DEF Sound, QueueIsExact
<1>11. Active(h) = IF e.active THEN Active(g) \cup {r} ELSE Active(g)
  BY <1>2, <1>5 DEF Active
<1> QED BY <1>7, <1>10, <1>11

------------------------------------------------------------
(* The invariant holds at first and says what the properties say. *)

LEMMA CleanupIsInit == NoCleanup \in Cleanup /\ ListsAreDistinct(NoCleanup)
<1>1. <<>> \in Seq(Runs) /\ <<>> \in Seq(Seen) /\ DOMAIN <<>> = {}
  OBVIOUS
<1>2. NoCleanup \in Cleanup
  BY <1>1 DEF NoCleanup, Cleanup
<1>3. NoCleanup.load = <<>> /\ NoCleanup.inspected = <<>>
  BY DEF NoCleanup
<1>4. ListsAreDistinct(NoCleanup)
  BY <1>1, <1>3 DEF ListsAreDistinct, IsInjective
<1> QED BY <1>2, <1>4

LEMMA EmptyRegistry ==
  ASSUME NEW g, g = [entries |-> [r \in Runs |-> None], completed |-> <<>>]
  PROVE  Sound(g) /\ Registered(g) = {} /\ Active(g) = {}
<1>1. <<>> \in Seq(Runs) /\ DOMAIN <<>> = {}
  OBVIOUS
<1>2. Registered(g) = {} /\ Active(g) = {}
  BY DEF Registered, Active
<1>3. g \in Registry
  BY <1>1 DEF Registry
<1>4. g.completed = <<>>
  OBVIOUS
<1>5. QueueIsExact(g)
  BY <1>1, <1>2, <1>4 DEF QueueIsExact, IsInjective, ToSet
<1>6. Cardinality({}) = 0
  BY FS_EmptySet
<1> QED BY <1>2, <1>3, <1>5, <1>6, LogLimits, SMTT(60) DEF Sound

LEMMA InitLogs == Init => LogInv
<1> SUFFICES ASSUME Init PROVE LogInv
  OBVIOUS
<1>1. /\ live = {} /\ ended = <<>> /\ deleting = {} /\ deleted = {} /\ dirs = {}
      /\ controls = [r \in Runs |-> None] /\ capturing = {}
      /\ opened = [r \in Runs |-> 0] /\ issued = {}
      /\ request = [q \in Requests |-> NoRequest]
      /\ cleanup = NoCleanup /\ starting = NoStart
  BY DEF Init
<1>2. Sound(registry) /\ Registered(registry) = {}
  BY EmptyRegistry DEF Init
<1>3. <<>> \in Seq(Runs) /\ DOMAIN <<>> = {} /\ ToSet(<<>>) = {}
  BY DEF ToSet
<1>4. Controlled = {} /\ Rows = {}
  BY <1>1, <1>3 DEF Controlled, Rows
<1>5. RowsTyped
  BY <1>1, <1>3 DEF RowsTyped
<1>6. ServiceTyped
  BY <1>1 DEF ServiceTyped, NoStart
<1>7. ReadersTyped
  BY <1>1 DEF ReadersTyped, NoRequest, Request, Generation
<1>8. cleanup \in Cleanup /\ ListsAreDistinct(cleanup)
  BY <1>1, CleanupIsInit
<1>9. OneRowEach
  BY <1>1, <1>3 DEF OneRowEach, NoStart, IsInjective
<1>10. HoldsRows
  BY <1>1, <1>2, <1>4 DEF HoldsRows
<1>11. MarksAreTrue
  BY <1>1 DEF MarksAreTrue
<1>12. RequestsInStep
  BY <1>1 DEF RequestsInStep, NoRequest
<1>13. cleanup.at = "Idle"
  BY <1>1 DEF NoCleanup
<1>14. CleanupInStep /\ Counted(cleanup, Controlled, dirs)
  BY <1>13 DEF CleanupInStep, Counted
<1>15. DiskHolds
  BY <1>1, FS_EmptySet, LogLimits DEF DiskHolds, NoStart
<1> QED BY <1>2, <1>5, <1>6, <1>7, <1>8, <1>9, <1>10, <1>11, <1>12, <1>14, <1>15 DEF LogInv

LEMMA InvIsSafe == LogInv => FilesStayWhileUsed /\ SlotsAreReclaimable /\ DiskIsAccounted
<1> SUFFICES ASSUME LogInv PROVE FilesStayWhileUsed /\ SlotsAreReclaimable /\ DiskIsAccounted
  OBVIOUS
<1>1. FilesStayWhileUsed
  BY DEF LogInv, RequestsInStep, CleanupInStep, HoldsRows, ActiveReader, FilesStayWhileUsed
<1>2. SlotsAreReclaimable
  BY DEF LogInv, Sound, QueueIsExact, SlotsAreReclaimable
<1>3. DiskIsAccounted
  BY DEF LogInv, MarksAreTrue, DiskHolds, DiskIsAccounted
<1> QED BY <1>1, <1>2, <1>3

------------------------------------------------------------
(* What readers do disturbs neither the runs nor a cleanup. *)

(* A request that goes on reads nothing whose deletion was begun. *)
LEMMA RequestMoves ==
  ASSUME LogInv, NEW q \in Requests, NEW new \in Request,
         request' = [request EXCEPT ![q] = new], UNCHANGED <<live, ended, deleting>>,
         new.at # "Idle" => new.run \in Rows,
         new.at = "Read" => new.reader \in Nat,
         new.at \in {"Open", "Read"} => new.run \notin deleting
  PROVE  request' \in [Requests -> Request] /\ RequestsInStep'
<1>1. request \in [Requests -> Request] /\ RequestsInStep
  BY DEF LogInv, ReadersTyped
<1>2. request' \in [Requests -> Request] /\ request'[q] = new
      /\ \A p \in Requests : p # q => request'[p] = request[p]
  BY <1>1
<1>3. Rows' = Rows
  BY DEF Rows
<1>4. ASSUME NEW p \in Requests
      PROVE  /\ request'[p].at # "Idle" => request'[p].run \in Rows'
             /\ request'[p].at = "Read" => request'[p].reader \in Nat
             /\ request'[p].at \in {"Open", "Read"} => request'[p].run \notin deleting'
  BY <1>1, <1>2, <1>3 DEF RequestsInStep
<1> QED BY <1>2, <1>4 DEF RequestsInStep

LEMMA ReadersMove ==
  ASSUME LogInv, UNCHANGED <<durable, dirs, controls, capturing, cleanup, starting>>,
         cleanup.at \notin {"Begin", "Remove", "Mark"},
         Sound(registry'), Active(registry') = Active(registry),
         Registered(registry') \subseteq Rows,
         opened' \in [Runs -> Nat], issued' \in SUBSET (Runs \X Nat),
         request' \in [Requests -> Request], RequestsInStep'
  PROVE  LogInv'
<1>1. UNCHANGED <<live, ended, deleting, deleted, dirs, controls, capturing, cleanup, starting>>
  BY DEF durable
<1>2. Rows' = Rows /\ Controlled' = Controlled
  BY <1>1 DEF Rows, Controlled
<1>3. RowsTyped' /\ ServiceTyped'
  BY <1>1 DEF LogInv, RowsTyped, ServiceTyped
<1>4. ReadersTyped'
  BY DEF ReadersTyped
<1>5. OneRowEach' /\ MarksAreTrue' /\ DiskHolds'
  BY <1>1, <1>2 DEF LogInv, OneRowEach, MarksAreTrue, DiskHolds
<1>6. HoldsRows'
  BY <1>1, <1>2 DEF LogInv, HoldsRows, ActiveReader, Active, ServiceTyped
<1>7. CleanupInStep'
  BY <1>1 DEF LogInv, CleanupInStep
<1>8. /\ (cleanup \in Cleanup)' /\ ListsAreDistinct(cleanup)'
      /\ Counted(cleanup, Controlled, dirs)'
  BY <1>1, <1>2 DEF LogInv
<1>9. Sound(registry)'
  OBVIOUS
<1> QED BY <1>3, <1>4, <1>5, <1>6, <1>7, <1>8, <1>9 DEF LogInv

(* While a request is under way the cleanup has not got the permits. *)
LEMMA ReadersHoldPermits ==
  ASSUME LogInv, NEW q \in Requests, request[q].at # "Idle"
  PROVE  cleanup.at \notin {"Begin", "Remove", "Mark"}
BY DEF LogInv, CleanupInStep, Reading

LEMMA ReadersAreKnown ==
  ASSUME LogInv, NEW r \in Runs
  PROVE  /\ registry.entries[r] # None =>
              registry.entries[r] \in Reader /\ registry.entries[r].generation \in Nat
         /\ \A offset \in Known(r) \cup {None} : offset \in Generation
<1>1. registry.entries[r] \in Reader \cup {None} /\ issued \in SUBSET (Runs \X Nat)
  BY DEF LogInv, Sound, Registry, ReadersTyped
<1>2. registry.entries[r] # None =>
        registry.entries[r] \in Reader /\ registry.entries[r].generation \in Nat
  BY <1>1 DEF Reader
<1>3. \A p \in issued : p[2] \in Nat
  BY <1>1
<1>4. Known(r) \in SUBSET Nat
  BY <1>3 DEF Known
<1> QED BY <1>2, <1>4 DEF Generation

LEMMA AskKeeps ==
  ASSUME LogInv, NEW q \in Requests, NEW r \in Rows, NEW offset \in Known(r) \cup {None},
         Ask(q, r, offset)
  PROVE  LogInv'
<1>1. r \in Runs
  BY DEF LogInv, RowsTyped, Rows, ToSet
<1> DEFINE new == [at |-> "Check", run |-> r, offset |-> offset,
                   reader |-> IF registry.entries[r] = None THEN None
                              ELSE registry.entries[r].generation]
<1>2. /\ request' = [request EXCEPT ![q] = new] /\ registry' = Touched(registry, r)
      /\ UNCHANGED <<durable, dirs, controls, capturing, opened, issued, cleanup, starting>>
      /\ ~Exclusive
  BY DEF Ask
<1>3. new \in Request /\ new.at = "Check" /\ new.run = r
  BY <1>1, ReadersAreKnown DEF Request, Generation
<1> HIDE DEF new
<1>4. request' \in [Requests -> Request] /\ RequestsInStep'
  BY <1>2, <1>3, RequestMoves DEF durable
<1>5. Sound(registry) /\ ReadersTyped /\ Registered(registry) \subseteq Rows
  BY DEF LogInv, HoldsRows
<1>6. Sound(registry') /\ registry'.entries = registry.entries
  BY <1>1, <1>2, <1>5, TouchedIs
<1>7. Active(registry') = Active(registry) /\ Registered(registry') \subseteq Rows
  BY <1>5, <1>6 DEF Active, Registered
<1>8. cleanup.at \notin {"Begin", "Remove", "Mark"}
  BY <1>2 DEF Exclusive
<1>9. opened' \in [Runs -> Nat] /\ issued' \in SUBSET (Runs \X Nat)
  BY <1>2, <1>5 DEF ReadersTyped
<1> QED BY <1>2, <1>4, <1>6, <1>7, <1>8, <1>9, ReadersMove

LEMMA CheckKeeps ==
  ASSUME LogInv, NEW q \in Requests, Check(q)
  PROVE  LogInv'
<1>1. /\ request[q].at = "Check" /\ request[q] \in Request /\ request[q].run \in Rows
      /\ request \in [Requests -> Request]
  BY DEF Check, LogInv, RequestsInStep, ReadersTyped
<1>2. UNCHANGED <<durable, dirs, controls, capturing, registry, opened, issued, cleanup, starting>>
  BY DEF Check
<1>3. PICK new \in Request :
        /\ request' = [request EXCEPT ![q] = new]
        /\ \/ new.at = "Idle"
           \/ new.at = "Read" /\ new.reader \in Nat /\ new.run = request[q].run
              /\ new.run \notin deleting
           \/ new.at = "Open" /\ new.run = request[q].run /\ new.run \notin deleting
  <2> DEFINE reading == [request[q] EXCEPT !.at = "Read", !.reader = Available(q)]
             opening == [request[q] EXCEPT !.at = "Open"]
  <2>1. NoRequest \in Request /\ NoRequest.at = "Idle"
    BY DEF NoRequest, Request, Generation
  <2>2. opening \in Request /\ opening.at = "Open" /\ opening.run = request[q].run
    BY <1>1 DEF Request
  <2>3. Available(q) # None => Available(q) \in Nat
    BY <1>1 DEF Available, Request, Generation
  <2>4. Available(q) # None =>
          /\ reading \in Request /\ reading.at = "Read" /\ reading.run = request[q].run
          /\ reading.reader \in Nat
    BY <1>1, <2>3 DEF Request, Generation
  <2> HIDE DEF reading, opening
  <2>5. \/ request' = [request EXCEPT ![q] = NoRequest]
        \/ /\ request' = [request EXCEPT ![q] = reading]
           /\ request[q].run \notin deleting /\ Available(q) # None
        \/ request' = [request EXCEPT ![q] = opening] /\ request[q].run \notin deleting
    BY <1>1 DEF Check, reading, opening
  <2> QED BY <2>1, <2>2, <2>4, <2>5
<1>4. request' \in [Requests -> Request] /\ RequestsInStep'
  BY <1>1, <1>2, <1>3, RequestMoves DEF durable
<1>5. /\ Sound(registry')
      /\ Active(registry') = Active(registry)
      /\ Registered(registry') \subseteq Rows
  BY <1>2 DEF LogInv, HoldsRows
<1>6. cleanup.at \notin {"Begin", "Remove", "Mark"}
  BY <1>1, ReadersHoldPermits
<1>7. opened' \in [Runs -> Nat] /\ issued' \in SUBSET (Runs \X Nat)
  BY <1>2 DEF LogInv, ReadersTyped
<1> QED BY <1>2, <1>4, <1>5, <1>6, <1>7, ReadersMove

LEMMA ReadKeeps ==
  ASSUME LogInv, NEW q \in Requests, Read(q)
  PROVE  LogInv'
<1>1. /\ request[q].at = "Read" /\ request[q].run \in Rows /\ request[q].reader \in Nat
      /\ Rows \subseteq Runs
  BY DEF Read, LogInv, RequestsInStep, RowsTyped, Rows, ToSet
<1>2. /\ UNCHANGED <<durable, dirs, controls, capturing, registry, opened, cleanup, starting>>
      /\ issued' = issued \cup {<<request[q].run, request[q].reader>>}
      /\ request' = [request EXCEPT ![q] = NoRequest]
  BY DEF Read
<1>3. NoRequest \in Request /\ NoRequest.at = "Idle"
  BY DEF NoRequest, Request, Generation
<1>4. request' \in [Requests -> Request] /\ RequestsInStep'
  BY <1>2, <1>3, RequestMoves DEF durable
<1>5. /\ Sound(registry')
      /\ Active(registry') = Active(registry)
      /\ Registered(registry') \subseteq Rows
  BY <1>2 DEF LogInv, HoldsRows
<1>6. cleanup.at \notin {"Begin", "Remove", "Mark"}
  BY <1>1, ReadersHoldPermits
<1>7. opened' \in [Runs -> Nat] /\ issued' \in SUBSET (Runs \X Nat)
  BY <1>1, <1>2 DEF LogInv, ReadersTyped
<1> QED BY <1>2, <1>4, <1>5, <1>6, <1>7, ReadersMove

LEMMA OpenKeeps ==
  ASSUME LogInv, NEW q \in Requests, OpenHistorical(q)
  PROVE  LogInv'
<1> DEFINE r == request[q].run
           g == MadeRoom(registry)
           new == opened[r] + 1
<1>1. /\ request[q].at = "Open" /\ request[q] \in Request /\ r \in Rows /\ r \notin deleting
      /\ request \in [Requests -> Request] /\ Rows \subseteq Runs /\ r \in Runs
  BY SMTT(60) DEF OpenHistorical, LogInv, RequestsInStep, ReadersTyped, RowsTyped, Rows, ToSet
<1>2. UNCHANGED <<durable, dirs, controls, capturing, issued, cleanup, starting>>
  BY DEF OpenHistorical
<1>3. /\ Sound(registry) /\ Registered(registry) \subseteq Rows /\ opened \in [Runs -> Nat]
      /\ issued \in SUBSET (Runs \X Nat)
  BY DEF LogInv, HoldsRows, ReadersTyped
<1>4. Sound(g) /\ Registered(g) \subseteq Registered(registry) /\ Active(g) = Active(registry)
  BY <1>3, MadeRoomIs
<1>5. new \in Nat /\ [opened EXCEPT ![r] = new] \in [Runs -> Nat]
  BY <1>1, <1>3
<1>6. NoRequest \in Request /\ NoRequest.at = "Idle"
  BY DEF NoRequest, Request, Generation
<1>7. ASSUME NEW n \in Nat
      PROVE  LET x == [request[q] EXCEPT !.at = "Read", !.reader = n] IN
             /\ x \in Request /\ x.at = "Read" /\ x.reader = n /\ x.run = r
             /\ [request EXCEPT ![q].at = "Read", ![q].reader = n] = [request EXCEPT ![q] = x]
  BY <1>1 DEF Request, Generation
<1>8. ASSUME NEW n \in Nat, request' = [request EXCEPT ![q].at = "Read", ![q].reader = n]
      PROVE  request' \in [Requests -> Request] /\ RequestsInStep'
  <2>1. PICK x : x = [request[q] EXCEPT !.at = "Read", !.reader = n]
    OBVIOUS
  <2>2. /\ x \in Request /\ x.at = "Read" /\ x.reader \in Nat /\ x.run \in Rows
        /\ x.run \notin deleting /\ request' = [request EXCEPT ![q] = x]
    BY <1>1, <1>7, <1>8, <2>1
  <2>3. UNCHANGED <<live, ended, deleting>>
    BY <1>2 DEF durable
  <2> QED BY <2>2, <2>3, RequestMoves
<1>9. ASSUME request' = [request EXCEPT ![q] = NoRequest]
      PROVE  request' \in [Requests -> Request] /\ RequestsInStep'
  BY <1>2, <1>6, <1>9, RequestMoves DEF durable
<1>10. cleanup.at \notin {"Begin", "Remove", "Mark"}
  BY <1>1, ReadersHoldPermits
<1>11. issued' \in SUBSET (Runs \X Nat)
  BY <1>2, <1>3
<1> HIDE DEF g, new
<1>12. CASE r \notin dirs
  <2>1. request' = [request EXCEPT ![q] = NoRequest] /\ UNCHANGED <<registry, opened>>
    BY <1>12 DEF OpenHistorical
  <2> QED BY <1>2, <1>3, <1>9, <1>10, <1>11, <2>1, ReadersMove
<1>13. CASE r \in dirs /\ registry.entries[r] # None
  <2>1. PICK n : n = registry.entries[r].generation
    OBVIOUS
  <2>2. n \in Nat
    BY <1>1, <1>13, <2>1, ReadersAreKnown
  <2>3. /\ request' = [request EXCEPT ![q].at = "Read", ![q].reader = n]
        /\ opened' = [opened EXCEPT ![r] = new] /\ registry' = registry
    BY <1>13, <2>1 DEF OpenHistorical, new
  <2> QED BY <1>2, <1>3, <1>5, <1>8, <1>10, <1>11, <2>2, <2>3, ReadersMove
<1>14. CASE r \in dirs /\ registry.entries[r] = None /\ ~HasRoom(g)
  <2>1. /\ request' = [request EXCEPT ![q] = NoRequest]
        /\ opened' = [opened EXCEPT ![r] = new] /\ registry' = g
    BY <1>14 DEF OpenHistorical, new, g
  <2> QED BY <1>2, <1>3, <1>4, <1>5, <1>9, <1>10, <1>11, <2>1, ReadersMove
<1>15. CASE r \in dirs /\ registry.entries[r] = None /\ HasRoom(g)
  <2>1. PICK e : e = Entry(new, FALSE)
    OBVIOUS
  <2>2. e \in Reader /\ ~e.active
    BY <1>5, <2>1 DEF Entry, Reader
  <2>3. /\ request' = [request EXCEPT ![q].at = "Read", ![q].reader = new]
        /\ opened' = [opened EXCEPT ![r] = new]
        /\ registry' = [entries |-> [g.entries EXCEPT ![r] = e],
                        completed |-> Append(g.completed, r)]
    BY <1>15, <2>1 DEF OpenHistorical, new, g
  <2>4. r \in Runs \ Registered(g)
    BY <1>1, <1>4, <1>15 DEF Registered
  <2>5. PICK h : h = registry'
    OBVIOUS
  <2>6. Sound(registry') /\ Registered(registry') = Registered(g) \cup {r}
        /\ Active(registry') = Active(registry)
    <3>1. Adds(h, g, r, e)
      BY <2>2, <2>3, <2>5 DEF Adds
    <3>2. Sound(g) /\ HasRoom(g)
      BY <1>4, <1>15
    <3>3. e \in Reader /\ r \in Runs \ Registered(g)
      BY <2>2, <2>4
    <3> HIDE DEF r
    <3>4. /\ Sound(h) /\ Registered(h) = Registered(g) \cup {r}
          /\ Active(h) = IF e.active THEN Active(g) \cup {r} ELSE Active(g)
      BY ONLY <3>1, <3>2, <3>3, AddedIs
    <3> QED BY <1>4, <2>2, <2>5, <3>4
  <2>7. Registered(registry') \subseteq Rows
    BY <1>1, <1>3, <1>4, <2>6
  <2>8. request' \in [Requests -> Request] /\ RequestsInStep'
    BY <1>5, <1>8, <2>3
  <2> QED BY <1>2, <1>5, <1>10, <1>11, <2>3, <2>6, <2>7, <2>8, ReadersMove
<1> QED BY <1>12, <1>13, <1>14, <1>15

------------------------------------------------------------
(* The life of a run beside a cleanup in progress. *)

LEMMA RowsAreRuns == LogInv => Rows \subseteq Runs /\ ToSet(ended) \subseteq Rows
BY DEF LogInv, RowsTyped, Rows, ToSet

LEMMA RunsMove ==
  ASSUME LogInv, UNCHANGED <<deleting, deleted, request, cleanup>>,
         RowsTyped', ServiceTyped', opened' \in [Runs -> Nat], issued' \in SUBSET (Runs \X Nat),
         OneRowEach', HoldsRows', Sound(registry'), DiskHolds',
         Rows \subseteq Rows', ToSet(ended) \subseteq ToSet(ended'), deleted \cap dirs' = {},
         \A r \in ToSet(ended) :
           /\ controls[r] = None => controls'[r] = None
           /\ registry.entries[r] = None => registry'.entries[r] = None
           /\ r \in dirs' => r \in dirs,
         cleanup.at # "Idle" /\ cleanup.forStart =>
           starting' = starting /\ dirs' \subseteq dirs /\ Controlled' \subseteq Controlled
  PROVE  LogInv'
<1>1. ReadersTyped' /\ Sound(registry)' /\ (cleanup \in Cleanup)' /\ ListsAreDistinct(cleanup)'
  BY DEF LogInv, ReadersTyped
<1>2. MarksAreTrue'
  BY DEF LogInv, MarksAreTrue
<1>3. RequestsInStep'
  BY DEF LogInv, RequestsInStep
<1>4. CleanupInStep'
  <2>1. Reading' = Reading /\ Candidate' = Candidate
    BY DEF Reading, Candidate
  <2>2. cleanup.at \in {"Remove", "Mark"} => Candidate.run \in ToSet(ended)
    BY DEF LogInv, CleanupInStep, MarksAreTrue
  <2>3. ASSUME cleanup.at \in {"Remove", "Mark"}
        PROVE  /\ Candidate.run \in deleting /\ controls'[Candidate.run] = None
               /\ registry'.entries[Candidate.run] = None
    BY <2>2, <2>3 DEF LogInv, CleanupInStep
  <2>4. cleanup.at = "Mark" => Candidate.run \notin dirs'
    BY <2>2 DEF LogInv, CleanupInStep
  <2>5. cleanup.at # "Idle" /\ cleanup.forStart => starting'.run # None /\ ~starting'.admitted
    BY DEF LogInv, CleanupInStep
  <2>6. /\ cleanup.at \notin {"Idle", "Inspect"} => cleanup.load = <<>>
        /\ cleanup.at \in {"Acquire", "Begin", "Remove", "Mark"} => cleanup.inspected # <<>>
        /\ cleanup.at \in {"Begin", "Remove", "Mark"} => Reading = {}
    BY DEF LogInv, CleanupInStep
  <2> QED BY <2>1, <2>3, <2>4, <2>5, <2>6 DEF CleanupInStep
<1>5. Counted(cleanup', Controlled', dirs')
  <2>1. PICK held : held = Controlled'
    OBVIOUS
  <2>2. PICK present : present = dirs'
    OBVIOUS
  <2>3. Counted(cleanup, held, present)
    <3> SUFFICES ASSUME cleanup.at # "Idle", cleanup.forStart, ~cleanup.truncated
                 PROVE  \E U, C \in SUBSET Runs : Covers(cleanup, held, present, U, C)
      BY DEF Counted
    <3>1. PICK U, C \in SUBSET Runs : Covers(cleanup, Controlled, dirs, U, C)
      BY DEF LogInv, Counted
    <3>2. held \subseteq Controlled /\ present \subseteq dirs
      BY <2>1, <2>2
    <3>3. Covers(cleanup, held, present, U, C)
      BY <3>1, <3>2 DEF Covers
    <3> QED BY <3>3
  <2> QED BY <2>1, <2>2, <2>3
<1>6. Counted(cleanup, Controlled, dirs)'
  BY <1>5
<1> QED BY <1>1, <1>2, <1>3, <1>4, <1>6 DEF LogInv

LEMMA BeginStartKeeps ==
  ASSUME LogInv, BeginStart
  PROVE  LogInv'
<1>1. /\ UNCHANGED <<durable, dirs, controls, capturing, registry, opened, issued, request,
                     cleanup>>
      /\ starting = NoStart /\ Rows # Runs
      /\ starting' = [NoStart EXCEPT !.run = CHOOSE r \in Runs : r \notin Rows]
  BY DEF BeginStart
<1>2. UNCHANGED <<live, ended, deleting, deleted>> /\ Rows' = Rows /\ Controlled' = Controlled
  BY <1>1 DEF durable, Rows, Controlled
<1>3. PICK r \in Runs \ Rows : starting' = [run |-> r, admitted |-> FALSE]
  BY <1>1, RowsAreRuns DEF NoStart
<1>4. RowsTyped' /\ opened' \in [Runs -> Nat] /\ issued' \in SUBSET (Runs \X Nat)
  BY <1>1, <1>2 DEF LogInv, RowsTyped, ReadersTyped
<1>5. ServiceTyped'
  BY <1>1, <1>3 DEF LogInv, ServiceTyped
<1>6. r # None
  BY LogNames
<1>7. OneRowEach'
  BY <1>2, <1>3, <1>6 DEF LogInv, OneRowEach
<1>8. HoldsRows'
  BY <1>1, <1>2 DEF LogInv, HoldsRows, ActiveReader
<1>9. DiskHolds'
  BY <1>1, <1>3 DEF LogInv, DiskHolds
<1>10. starting.run = None
  BY <1>1 DEF NoStart
<1>11. ~(cleanup.at # "Idle" /\ cleanup.forStart)
  BY <1>10 DEF LogInv, CleanupInStep
<1>12. Sound(registry') /\ deleted \cap dirs' = {}
  BY <1>1 DEF LogInv, MarksAreTrue
<1> QED BY <1>1, <1>2, <1>4, <1>5, <1>7, <1>8, <1>9, <1>11, <1>12, RunsMove

LEMMA RunEndsKeeps ==
  ASSUME LogInv, NEW r \in Runs, RunEnds(r)
  PROVE  LogInv'
<1>1. /\ r \in Controlled /\ r \in live /\ live' = live \ {r} /\ ended' = Append(ended, r)
      /\ UNCHANGED <<deleting, deleted, dirs, capturing, registry, opened, issued, request,
                     cleanup, starting>>
      /\ controls' = [controls EXCEPT ![r] = None] \/ UNCHANGED controls
  BY DEF RunEnds, EndRow
<1>2. ended \in Seq(Runs) /\ IsInjective(ended) /\ r \notin ToSet(ended)
  BY <1>1 DEF LogInv, RowsTyped, OneRowEach
<1>3. ended' \in Seq(Runs) /\ IsInjective(ended') /\ ToSet(ended') = ToSet(ended) \cup {r}
  BY <1>1, <1>2, AppendIs
<1>4. Rows' = Rows
  BY <1>1, <1>3 DEF Rows
<1>5. /\ controls' \in [Runs -> {None, "Launched", "Recovered"}]
      /\ \A x \in Runs : controls'[x] = controls[x] \/ (x = r /\ controls'[x] = None)
  BY <1>1 DEF LogInv, ServiceTyped
<1>6. Controlled' \subseteq Controlled /\ Controlled \ {r} \subseteq Controlled'
  BY <1>5 DEF Controlled
<1>7. RowsTyped' /\ ServiceTyped' /\ opened' \in [Runs -> Nat] /\ issued' \in SUBSET (Runs \X Nat)
  BY <1>1, <1>3, <1>5 DEF LogInv, RowsTyped, ServiceTyped, ReadersTyped
<1>8. OneRowEach'
  BY <1>1, <1>3, <1>4 DEF LogInv, OneRowEach
<1>9. HoldsRows'
  BY <1>1, <1>4, <1>6 DEF LogInv, HoldsRows, ActiveReader
<1>10. DiskHolds' /\ Sound(registry') /\ deleted \cap dirs' = {}
  BY <1>1 DEF LogInv, DiskHolds, MarksAreTrue
<1>11. \A x \in ToSet(ended) : x \in Runs
  BY RowsAreRuns
<1>12. \A x \in ToSet(ended) :
         /\ controls[x] = None => controls'[x] = None
         /\ registry.entries[x] = None => registry'.entries[x] = None
         /\ x \in dirs' => x \in dirs
  BY <1>1, <1>5, <1>11
<1> QED BY <1>1, <1>3, <1>4, <1>6, <1>7, <1>8, <1>9, <1>10, <1>12, RunsMove

LEMMA CaptureEndsKeeps ==
  ASSUME LogInv, NEW r \in Runs, CaptureEnds(r)
  PROVE  LogInv'
<1>1. /\ r \in capturing /\ capturing' = capturing \ {r}
      /\ registry' = MarkCompleted(registry, r)
      /\ UNCHANGED <<live, ended, deleting, deleted, dirs, controls, opened, issued, request,
                     cleanup, starting>>
  BY DEF CaptureEnds, durable
<1>2. Sound(registry)
  BY DEF LogInv
<1>3. /\ Sound(registry') /\ Registered(registry') = Registered(registry)
      /\ Active(registry') = Active(registry) \ {r}
  BY <1>1, <1>2, MarkCompletedIs
<1>4. Rows' = Rows /\ Controlled' = Controlled
  BY <1>1 DEF Rows, Controlled
<1>5. RowsTyped' /\ ServiceTyped' /\ opened' \in [Runs -> Nat] /\ issued' \in SUBSET (Runs \X Nat)
  BY <1>1 DEF LogInv, RowsTyped, ServiceTyped, ReadersTyped
<1>6. OneRowEach' /\ DiskHolds' /\ deleted \cap dirs' = {}
  BY <1>1, <1>4 DEF LogInv, OneRowEach, DiskHolds, MarksAreTrue
<1>7. \A x \in capturing : x \in Active(registry)
  BY DEF LogInv, HoldsRows, ServiceTyped, ActiveReader, Active
<1>8. \A x \in capturing' : registry'.entries[x] # None /\ registry'.entries[x].active
  BY <1>1, <1>3, <1>7 DEF Active
<1>9. HoldsRows'
  BY <1>1, <1>3, <1>4, <1>8 DEF LogInv, HoldsRows, ActiveReader
<1>10. \A x \in ToSet(ended) : x \in Runs
  BY RowsAreRuns
<1>11. \A x \in ToSet(ended) : registry.entries[x] = None => registry'.entries[x] = None
  BY <1>3, <1>10 DEF Registered
<1> QED BY <1>1, <1>3, <1>4, <1>5, <1>6, <1>9, <1>11, RunsMove

(* A launch registers an active reader for its run, or none at all. *)
LEMMA LaunchReaders ==
  ASSUME LogInv, NEW r \in Runs \ Rows, NEW g, g = MadeRoom(registry), NEW h,
         \/ h \in {registry, g, Without(g, r)}
         \/ HasRoom(g) /\ h = [g EXCEPT !.entries[r] = Entry(1, TRUE)]
  PROVE  /\ Sound(h) /\ Registered(h) \subseteq Registered(registry) \cup {r}
         /\ Active(registry) \subseteq Active(h)
         /\ h = [g EXCEPT !.entries[r] = Entry(1, TRUE)] => r \in Active(h)
<1>1. Sound(registry) /\ Registered(registry) \subseteq Rows
  BY DEF LogInv, HoldsRows
<1>2. Sound(g) /\ Registered(g) \subseteq Registered(registry) /\ Active(g) = Active(registry)
  BY <1>1, MadeRoomIs
<1>3. r \notin Registered(registry) /\ r \notin Registered(g) /\ r \in Runs
  BY <1>1, <1>2
<1>4. r \notin Active(g)
  BY <1>3 DEF Active, Registered
<1>5. PICK e : e = Entry(1, TRUE)
  OBVIOUS
<1>6. e \in Reader /\ e.active
  BY <1>5 DEF Entry, Reader
<1>7. /\ g.entries \in [Runs -> Reader \cup {None}]
      /\ [g EXCEPT !.entries[r] = e] = [entries |-> [g.entries EXCEPT ![r] = e],
                                        completed |-> g.completed]
  BY <1>2 DEF Sound, Registry
<1>8. CASE h = [g EXCEPT !.entries[r] = e]
  <2>1. ([g.entries EXCEPT ![r] = e])[r] = e /\ h.entries = [g.entries EXCEPT ![r] = e]
    BY <1>3, <1>7, <1>8
  <2>2. r \in Active(h)
    BY <1>3, <1>6, <2>1, NoneIsNoReader DEF Active
  <2>3. CASE HasRoom(g)
    <3>1. Adds(h, g, r, e)
      BY <1>6, <1>7, <1>8 DEF Adds
    <3>2. r \in Runs \ Registered(g)
      BY <1>3
    <3>3. /\ Sound(h) /\ Registered(h) = Registered(g) \cup {r}
          /\ Active(h) = IF e.active THEN Active(g) \cup {r} ELSE Active(g)
      BY ONLY <1>2, <1>6, <2>3, <3>1, <3>2, AddedIs
    <3> QED BY <1>2, <1>6, <2>2, <3>3
  <2>4. CASE h \in {registry, g, Without(g, r)}
    <3>1. r \notin Active(registry) /\ Active(Without(g, r)) = Active(g) \ {r}
      BY <1>2, <1>3, <1>4, WithoutIs
    <3> QED BY <1>4, <2>2, <2>4, <3>1
  <2> QED BY <1>5, <2>3, <2>4
<1>9. CASE h \in {registry, g, Without(g, r)} /\ h # [g EXCEPT !.entries[r] = e]
  <2>1. /\ Sound(Without(g, r)) /\ Registered(Without(g, r)) = Registered(g) \ {r}
        /\ Active(Without(g, r)) = Active(g) \ {r}
    BY <1>2, <1>3, WithoutIs
  <2> QED BY <1>1, <1>2, <1>4, <1>5, <1>9, <2>1
<1> QED BY <1>5, <1>8, <1>9

LEMMA LaunchKeeps ==
  ASSUME LogInv, Launch
  PROVE  LogInv'
<1> DEFINE r == starting.run
           g == MadeRoom(registry)
           e == Entry(1, TRUE)
<1>1. /\ starting.admitted /\ starting' = NoStart
      /\ UNCHANGED <<deleting, deleted, request, cleanup>>
  BY DEF Launch
<1>2. starting \in [run : Runs \cup {None}, admitted : BOOLEAN]
  BY DEF LogInv, ServiceTyped
<1>3. r \in Runs \ Rows
  BY <1>1, <1>2 DEF LogInv, OneRowEach
<1>4. /\ live \in SUBSET Runs /\ ended \in Seq(Runs) /\ IsInjective(ended) /\ dirs \in SUBSET Runs
      /\ r \notin live /\ r \notin ToSet(ended) /\ live \cap ToSet(ended) = {}
      /\ controls \in [Runs -> {None, "Launched", "Recovered"}] /\ capturing \in SUBSET Runs
      /\ opened \in [Runs -> Nat] /\ issued \in SUBSET (Runs \X Nat)
  BY <1>3 DEF LogInv, RowsTyped, ServiceTyped, ReadersTyped, OneRowEach, Rows
<1>5. /\ \/ /\ live' = live \cup {r} /\ ended' = ended
            /\ controls' = [controls EXCEPT ![r] = "Launched"]
            /\ dirs' = dirs \cup {r}
            /\ issued' = issued \cup {<<r, 1>>}
         \/ /\ live' = live /\ ended' = Append(ended, r) /\ controls' = controls
            /\ dirs' = dirs \/ dirs' = dirs \cup {r}
            /\ issued' = issued
      /\ \/ HasRoom(g) /\ registry' = [g EXCEPT !.entries[r] = e] /\ capturing' = capturing \cup {r}
         \/ registry' \in {registry, g, Without(g, r)} /\ capturing' = capturing
      /\ opened' = opened \/ opened' = [opened EXCEPT ![r] = 1]
  BY DEF Launch, FailedLaunch
<1>6. PICK h : h = registry'
  OBVIOUS
<1>7. /\ Sound(registry') /\ Registered(registry') \subseteq Registered(registry) \cup {r}
      /\ Active(registry) \subseteq Active(registry')
      /\ registry' = [g EXCEPT !.entries[r] = e] => r \in Active(registry')
  BY <1>3, <1>5, <1>6, LaunchReaders
<1> HIDE DEF r, g, e
<1>8. /\ ended' \in Seq(Runs) /\ IsInjective(ended') /\ ToSet(ended) \subseteq ToSet(ended')
      /\ Rows' = Rows \cup {r} /\ live' \cap ToSet(ended') = {} /\ live' \in SUBSET Runs
  <2>1. /\ Append(ended, r) \in Seq(Runs) /\ IsInjective(Append(ended, r))
        /\ ToSet(Append(ended, r)) = ToSet(ended) \cup {r}
    BY <1>3, <1>4, AppendIs
  <2>2. CASE live' = live \cup {r} /\ ended' = ended
    BY <1>3, <1>4, <2>2 DEF Rows
  <2>3. CASE live' = live /\ ended' = Append(ended, r)
    BY <1>4, <2>1, <2>3 DEF Rows
  <2> QED BY <1>5, <2>2, <2>3
<1>9. /\ controls' \in [Runs -> {None, "Launched", "Recovered"}]
      /\ \A x \in Runs \ {r} : controls'[x] = controls[x]
      /\ live' \subseteq Controlled' /\ Controlled' \subseteq Rows'
  <2>1. live \subseteq Controlled /\ Controlled \subseteq Rows
    BY DEF LogInv, HoldsRows
  <2>2. CASE controls' = controls /\ live' = live
    BY <1>4, <1>8, <2>1, <2>2 DEF Controlled
  <2>3. CASE controls' = [controls EXCEPT ![r] = "Launched"] /\ live' = live \cup {r}
    <3>1. /\ controls' \in [Runs -> {None, "Launched", "Recovered"}] /\ controls'[r] = "Launched"
          /\ \A x \in Runs \ {r} : controls'[x] = controls[x]
      BY <1>3, <1>4, <2>3
    <3>2. Controlled' = Controlled \cup {r}
      BY <1>3, <3>1, LogNames DEF Controlled
    <3> QED BY <1>8, <2>1, <2>3, <3>1, <3>2
  <2> QED BY <1>5, <2>2, <2>3
<1>10. RowsTyped'
  BY <1>1, <1>3, <1>4, <1>5, <1>8 DEF RowsTyped, LogInv
<1>11. ServiceTyped'
  <2>1. capturing' \in SUBSET Runs
    BY <1>3, <1>4, <1>5
  <2>2. NoStart \in [run : Runs \cup {None}, admitted : BOOLEAN]
    BY DEF NoStart
  <2> QED BY <1>1, <1>9, <2>1, <2>2 DEF ServiceTyped
<1>12. opened' \in [Runs -> Nat] /\ issued' \in SUBSET (Runs \X Nat)
  BY <1>3, <1>4, <1>5
<1>13. OneRowEach'
  BY <1>1, <1>8 DEF OneRowEach, NoStart
<1>14. dirs' \subseteq dirs \cup {r} /\ capturing' \subseteq capturing \cup {r}
  BY <1>5
<1>15. HoldsRows'
  <2>1. /\ capturing \subseteq Rows /\ Registered(registry) \subseteq Rows /\ dirs \subseteq Rows
        /\ \A x \in capturing : x \in Active(registry)
    BY <1>4 DEF LogInv, HoldsRows, ActiveReader, Active
  <2>2. \A x \in capturing' : x \in Active(registry')
    BY <1>5, <1>7, <2>1
  <2>3. \A x \in capturing' : ActiveReader(x)'
    BY <2>2 DEF ActiveReader, Active
  <2>4. capturing' \subseteq Rows' /\ dirs' \subseteq Rows' /\ Registered(registry') \subseteq Rows'
    BY <1>7, <1>8, <1>14, <2>1
  <2> QED BY <1>9, <2>3, <2>4 DEF HoldsRows
<1>16. DiskHolds'
  <2>1. Cardinality(dirs) + 1 <= DiskBudget
    BY <1>1 DEF LogInv, DiskHolds
  <2>2. PICK d \in SUBSET Runs : d = dirs'
    BY <1>3, <1>4, <1>14
  <2>3. /\ Cardinality(d) <= Cardinality(dirs \cup {r})
        /\ Cardinality(dirs \cup {r}) <= Cardinality(dirs) + 1
    <3>1. d \in SUBSET (dirs \cup {r}) /\ (dirs \cup {r}) \in SUBSET Runs /\ r \in Runs
      BY <1>3, <1>4, <1>14, <2>2
    <3> QED BY <1>4, <3>1, SizeShrinks, SizeGrows
  <2>4. /\ Cardinality(d) \in Nat /\ Cardinality(dirs) \in Nat /\ Cardinality(dirs \cup {r}) \in Nat
        /\ DiskBudget \in Nat
    BY <1>3, <1>4, SizeOf, LogLimits
  <2>5. Cardinality(d) <= DiskBudget
    BY <2>1, <2>3, <2>4
  <2> QED BY <1>1, <2>2, <2>5 DEF DiskHolds, NoStart
<1>17. deleted \cap dirs' = {}
  BY <1>3, <1>14, RowsAreRuns DEF LogInv, MarksAreTrue
<1>18. \A x \in ToSet(ended) :
         /\ controls[x] = None => controls'[x] = None
         /\ registry.entries[x] = None => registry'.entries[x] = None
         /\ x \in dirs' => x \in dirs
  <2>1. \A x \in ToSet(ended) : x \in Runs /\ x # r
    BY <1>3, RowsAreRuns
  <2>2. \A x \in ToSet(ended) : registry.entries[x] = None => registry'.entries[x] = None
    BY <1>7, <2>1 DEF Registered
  <2> QED BY <1>9, <1>14, <2>1, <2>2
<1>19. ~(cleanup.at # "Idle" /\ cleanup.forStart)
  BY <1>1 DEF LogInv, CleanupInStep
<1> QED BY <1>1, <1>7, <1>8, <1>10, <1>11, <1>12, <1>13, <1>15, <1>16, <1>17, <1>18, <1>19, RunsMove

(* A crash leaves the rows, the marks and the directories, and nothing else. *)
LEMMA CrashKeeps ==
  ASSUME LogInv, CrashAndRecover
  PROVE  LogInv'
<1>1. PICK recovered \in SUBSET live : \E lost \in SetToSeqs(live \ recovered) :
        /\ live' = recovered /\ ended' = ended \o lost
        /\ controls' = [r \in Runs |-> IF r \in recovered THEN "Recovered" ELSE None]
  BY DEF CrashAndRecover
<1>2. PICK lost \in SetToSeqs(live \ recovered) :
        /\ live' = recovered /\ ended' = ended \o lost
        /\ controls' = [r \in Runs |-> IF r \in recovered THEN "Recovered" ELSE None]
  BY <1>1
<1>3. /\ capturing' = {} /\ registry' = [entries |-> [r \in Runs |-> None], completed |-> <<>>]
      /\ request' = [q \in Requests |-> NoRequest]
      /\ cleanup' = NoCleanup /\ starting' = NoStart
      /\ UNCHANGED <<deleting, deleted, dirs, opened, issued>>
  BY DEF CrashAndRecover
<1>4. /\ live \in SUBSET Runs /\ ended \in Seq(Runs) /\ IsInjective(ended)
      /\ live \cap ToSet(ended) = {} /\ recovered \in SUBSET Runs
  BY DEF LogInv, RowsTyped, OneRowEach
<1>5. lost \in Seq(live \ recovered) /\ IsInjective(lost) /\ ToSet(lost) = live \ recovered
  BY <1>4, SizeOf, OrdersAre
<1>6. lost \in Seq(Runs) /\ ToSet(ended) \cap ToSet(lost) = {}
  BY <1>4, <1>5
<1>7. /\ ended' \in Seq(Runs) /\ IsInjective(ended')
      /\ ToSet(ended') = ToSet(ended) \cup (live \ recovered)
  BY <1>2, <1>4, <1>5, <1>6, ConcatIs
<1>8. Rows' = Rows
  BY <1>2, <1>7 DEF Rows
<1>9. controls' \in [Runs -> {None, "Launched", "Recovered"}] /\ Controlled' = recovered
  BY <1>2, <1>4, LogNames DEF Controlled
<1>10. PICK h : h = registry'
  OBVIOUS
<1>11. Sound(registry') /\ Registered(registry') = {}
  BY <1>3, <1>10, EmptyRegistry
<1>12. RowsTyped'
  BY <1>2, <1>3, <1>4, <1>7 DEF LogInv, RowsTyped
<1>13. ServiceTyped'
  BY <1>3, <1>9 DEF ServiceTyped, NoStart
<1>14. NoRequest \in Request /\ NoRequest.at = "Idle"
  BY DEF NoRequest, Request, Generation
<1>15. ReadersTyped' /\ RequestsInStep'
  BY <1>3, <1>14 DEF LogInv, ReadersTyped, RequestsInStep
<1>16. OneRowEach'
  BY <1>2, <1>3, <1>4, <1>7 DEF OneRowEach, NoStart
<1>17. HoldsRows'
  BY <1>2, <1>3, <1>8, <1>9, <1>11 DEF LogInv, HoldsRows, Rows
<1>18. MarksAreTrue'
  BY <1>3, <1>7 DEF LogInv, MarksAreTrue
<1>19. (cleanup \in Cleanup)' /\ ListsAreDistinct(cleanup)' /\ cleanup'.at = "Idle"
  BY <1>3, CleanupIsInit DEF NoCleanup
<1>20. CleanupInStep' /\ Counted(cleanup, Controlled, dirs)'
  BY <1>19 DEF CleanupInStep, Counted
<1>21. DiskHolds'
  BY <1>3 DEF LogInv, DiskHolds, NoStart
<1>22. Sound(registry)'
  BY <1>11
<1> QED BY <1>12, <1>13, <1>15, <1>16, <1>17, <1>18, <1>19, <1>20, <1>21, <1>22 DEF LogInv

------------------------------------------------------------
(* The retention cleanup. *)

LEMMA OnlyCleanupMoves ==
  ASSUME LogInv,
         UNCHANGED <<durable, dirs, controls, capturing, registry, opened, issued, request,
                     starting>>,
         cleanup' \in Cleanup, CleanupInStep', ListsAreDistinct(cleanup'),
         Counted(cleanup', Controlled, dirs)
  PROVE  LogInv'
<1>1. UNCHANGED <<live, ended, deleting, deleted, dirs, controls, capturing, registry, opened,
                  issued, request, starting>>
  BY DEF durable
<1>2. Rows' = Rows /\ Controlled' = Controlled
  BY <1>1 DEF Rows, Controlled
<1>3. RowsTyped' /\ ServiceTyped' /\ ReadersTyped'
  BY <1>1 DEF LogInv, RowsTyped, ServiceTyped, ReadersTyped
<1>4. OneRowEach' /\ MarksAreTrue' /\ DiskHolds'
  BY <1>1, <1>2 DEF LogInv, OneRowEach, MarksAreTrue, DiskHolds
<1>5. HoldsRows' /\ RequestsInStep'
  BY <1>1, <1>2 DEF LogInv, HoldsRows, RequestsInStep, ActiveReader
<1>6. Sound(registry)'
  BY <1>1 DEF LogInv
<1>7. (cleanup \in Cleanup)' /\ ListsAreDistinct(cleanup)' /\ Counted(cleanup, Controlled, dirs)'
  BY <1>1, <1>2
<1> QED BY <1>3, <1>4, <1>5, <1>6, <1>7 DEF LogInv

LEMMA CandidatesAre ==
  ASSUME LogInv
  PROVE  /\ Candidates \in Seq(Runs) /\ IsInjective(Candidates)
         /\ ToSet(Candidates) = ToSet(ended) \ deleted
<1> DEFINE at == {i \in DOMAIN ended : ended[i] \notin deleted}
<1>1. ended \in Seq(Runs) /\ IsInjective(ended)
  BY DEF LogInv, RowsTyped, OneRowEach
<1>2. at \in SUBSET DOMAIN ended /\ Candidates = Filtered(ended, at)
  BY DEF Candidates
<1>3. ToSet(ended) \ deleted = {ended[i] : i \in at}
  BY DEF ToSet
<1> HIDE DEF at
<1>4. Filtered(ended, at) \in Seq(Runs)
  BY <1>1, <1>2, FilteredKeeps
<1>5. /\ {Filtered(ended, at)[k] : k \in DOMAIN Filtered(ended, at)} = {ended[i] : i \in at}
      /\ IsInjective(Filtered(ended, at))
  BY <1>1, <1>2, FilteredSelects
<1> QED BY <1>2, <1>3, <1>4, <1>5 DEF ToSet

(* A cleanup has all the candidates, or knows that its list is truncated. *)
LEMMA BeginCleanupKeeps ==
  ASSUME LogInv, NEW forStart \in BOOLEAN, BeginCleanup(forStart)
  PROVE  LogInv'
<1> DEFINE limit == CHOOSE n \in {PageLimit, Len(Candidates)} :
                      n <= PageLimit /\ n <= Len(Candidates)
           page == SubSeq(Candidates, 1, limit)
<1>1. Candidates \in Seq(Runs) /\ IsInjective(Candidates) /\ Len(Candidates) \in Nat
  BY CandidatesAre
<1>2. limit \in 0..Len(Candidates)
  <2>1. \E n \in {PageLimit, Len(Candidates)} : n <= PageLimit /\ n <= Len(Candidates)
    BY <1>1, LogLimits
  <2>2. limit \in {PageLimit, Len(Candidates)} /\ limit <= PageLimit /\ limit <= Len(Candidates)
    BY <2>1
  <2>3. limit \in Nat
    BY <1>1, <2>2, LogLimits
  <2> HIDE DEF limit
  <2> QED BY <1>1, <2>2, <2>3
<1>3. PICK k \in 0..Len(page) :
        cleanup' = [at |-> "Inspect", forStart |-> forStart, load |-> page, inspected |-> <<>>,
                    charged |-> 0,
                    reserved |-> Cardinality(Controlled) + (IF forStart THEN 1 ELSE 0),
                    count |-> Len(Candidates), expired |-> ToSet(SubSeq(page, 1, k)),
                    truncated |-> Len(Candidates) > Len(page)]
  BY DEF BeginCleanup
<1>4. /\ UNCHANGED <<durable, dirs, controls, capturing, registry, opened, issued, request,
                     starting>>
      /\ forStart => starting # NoStart /\ ~starting.admitted
  BY DEF BeginCleanup
<1> HIDE DEF limit
<1>5. /\ page \in Seq(Runs) /\ Len(page) = limit /\ IsInjective(page)
      /\ ToSet(page) \subseteq ToSet(Candidates)
      /\ SubSeq(Candidates, limit + 1, Len(Candidates)) \in Seq(Runs)
      /\ ToSet(Candidates) =
           ToSet(page) \cup ToSet(SubSeq(Candidates, limit + 1, Len(Candidates)))
  BY <1>1, <1>2, CutIs
<1>6. limit = Len(Candidates) => ToSet(page) = ToSet(Candidates)
  BY <1>1, <1>5 DEF ToSet
<1> HIDE DEF page
<1>7. ToSet(SubSeq(page, 1, k)) \in SUBSET Runs
  BY <1>5, CutIs DEF ToSet
<1>8. Controlled \in SUBSET Runs /\ Cardinality(Controlled) \in Nat
  BY SizeOf DEF Controlled
<1>9. <<>> \in Seq(Seen) /\ DOMAIN <<>> = {}
  OBVIOUS
<1>10. cleanup' \in Cleanup
  <2>1. Cardinality(Controlled) + (IF forStart THEN 1 ELSE 0) \in Nat
    BY <1>8
  <2> QED BY <1>1, <1>3, <1>5, <1>7, <1>9, <2>1 DEF Cleanup
<1>11. /\ cleanup'.at = "Inspect" /\ cleanup'.forStart = forStart /\ cleanup'.load = page
       /\ cleanup'.inspected = <<>> /\ cleanup'.charged = 0
       /\ cleanup'.reserved = Cardinality(Controlled) + (IF forStart THEN 1 ELSE 0)
       /\ cleanup'.truncated = (Len(Candidates) > Len(page))
  BY <1>3
<1>12. ListsAreDistinct(cleanup')
  BY <1>5, <1>9, <1>11 DEF ListsAreDistinct
<1>13. CleanupInStep'
  <2>1. forStart => starting'.run # None /\ ~starting'.admitted
    BY <1>4 DEF LogInv, ServiceTyped, NoStart
  <2> QED BY <1>11, <2>1 DEF CleanupInStep
<1>14. Counted(cleanup', Controlled, dirs)
  <2>1. PICK c : c = cleanup'
    OBVIOUS
  <2>2. ASSUME c.forStart, ~c.truncated
        PROVE  Covers(c, Controlled, dirs, Controlled, {})
    <3>1. limit = Len(Candidates)
      <4>1. ~(Len(Candidates) > Len(page))
        BY <1>11, <2>1, <2>2
      <4>2. ~(Len(Candidates) > limit)
        BY <1>5, <4>1
      <4> QED BY <1>1, <1>2, <4>2
    <3>2. dirs \subseteq Controlled \cup ToSet(page)
      BY <1>6, <3>1, CandidatesAre DEF LogInv, HoldsRows, Rows, MarksAreTrue
    <3>3. Cardinality({}) = 0
      BY FS_EmptySet
    <3>4. c.reserved = Cardinality(Controlled) + 1
      BY <1>11, <2>1, <2>2
    <3> QED BY <1>8, <1>9, <1>11, <2>1, <3>2, <3>3, <3>4 DEF Covers
  <2>3. Counted(c, Controlled, dirs)
    BY <1>8, <2>2 DEF Counted
  <2> QED BY <2>1, <2>3
<1> QED BY <1>4, <1>10, <1>12, <1>13, <1>14, OnlyCleanupMoves

(* Whatever a candidate turns out to be, its directory is counted. *)
LEMMA InspectKeeps ==
  ASSUME LogInv, Inspect
  PROVE  LogInv'
<1> DEFINE r == Head(cleanup.load)
<1>1. /\ cleanup.at = "Inspect" /\ cleanup.load # <<>> /\ cleanup \in Cleanup
      /\ ListsAreDistinct(cleanup) /\ Counted(cleanup, Controlled, dirs)
  BY DEF Inspect, LogInv
<1>2. /\ cleanup.load \in Seq(Runs) /\ cleanup.inspected \in Seq(Seen)
      /\ cleanup.charged \in Int /\ cleanup.reserved \in Nat
  BY <1>1 DEF Cleanup
<1>3. /\ r \in Runs /\ Tail(cleanup.load) \in Seq(Runs) /\ IsInjective(Tail(cleanup.load))
      /\ ToSet(cleanup.load) = ToSet(Tail(cleanup.load)) \cup {r}
      /\ r \notin ToSet(Tail(cleanup.load))
  BY <1>1, <1>2, TailIs DEF ListsAreDistinct
<1>4. UNCHANGED <<durable, dirs, controls, capturing, registry, opened, issued, request, starting>>
  BY DEF Inspect
<1>5. cleanup.forStart => starting.run # None /\ ~starting.admitted
  BY <1>1 DEF LogInv, CleanupInStep
<1>6. PICK later : later = Tail(cleanup.load)
  OBVIOUS
<1> HIDE DEF r
<1>7. CASE controls[r] # None \/ ActiveReader(r)
  <2>1. PICK more : more = IF controls[r] = None THEN 1 ELSE 0
    OBVIOUS
  <2>2. PICK c : c = [cleanup EXCEPT !.load = later, !.reserved = cleanup.reserved + more]
    OBVIOUS
  <2>3. cleanup' = c
    BY <1>1, <1>6, <1>7, <2>1, <2>2 DEF Inspect, r, Cleanup
  <2>4. /\ c.at = "Inspect" /\ c.load = later /\ c.reserved = cleanup.reserved + more
        /\ c.inspected = cleanup.inspected /\ c.charged = cleanup.charged
        /\ c.forStart = cleanup.forStart /\ c.truncated = cleanup.truncated
    BY <1>1, <2>2 DEF Cleanup
  <2>5. more \in {0, 1} /\ cleanup.reserved + more \in Nat
    BY <1>2, <2>1
  <2>6. c \in Cleanup
    BY <1>1, <1>3, <1>6, <2>2, <2>5 DEF Cleanup
  <2>7. ListsAreDistinct(c)
    BY <1>1, <1>3, <1>6, <2>4 DEF ListsAreDistinct
  <2>8. CleanupInStep'
    BY <1>4, <1>5, <2>3, <2>4 DEF CleanupInStep
  <2>9. Counted(c, Controlled, dirs)
    <3> SUFFICES ASSUME c.forStart, ~c.truncated
                 PROVE  \E U, C \in SUBSET Runs : Covers(c, Controlled, dirs, U, C)
      BY DEF Counted
    <3>1. PICK U, C \in SUBSET Runs : Covers(cleanup, Controlled, dirs, U, C)
      BY <1>1, <2>4 DEF Counted
    <3>2. CASE more = 0
      <4>1. r \in U
        BY <1>3, <2>1, <3>1, <3>2 DEF Covers, Controlled
      <4>2. Covers(c, Controlled, dirs, U, C)
        BY <1>2, <1>3, <1>6, <2>4, <3>1, <3>2, <4>1 DEF Covers
      <4> QED BY <4>2
    <3>3. CASE more = 1
      <4>1. PICK W \in SUBSET Runs : W = U \cup {r}
        BY <1>3
      <4>2. /\ Cardinality(W) <= Cardinality(U) + 1 /\ Cardinality(W) \in Nat
            /\ Cardinality(U) \in Nat
        BY <1>3, <4>1, SizeGrows, SizeOf
      <4>3. Cardinality(W) + 1 <= c.reserved
        BY <1>2, <2>4, <3>1, <3>3, <4>2 DEF Covers
      <4>4. Covers(c, Controlled, dirs, W, C)
        BY <1>3, <1>6, <2>4, <3>1, <4>1, <4>3 DEF Covers
      <4> QED BY <4>4
    <3> QED BY <2>5, <3>2, <3>3
  <2> QED BY <1>4, <2>3, <2>6, <2>7, <2>8, <2>9, OnlyCleanupMoves
<1>8. CASE ~(controls[r] # None \/ ActiveReader(r))
  <2>1. PICK bytes \in {0, 1} :
          /\ bytes = 0 => r \notin dirs
          /\ cleanup' = [cleanup EXCEPT !.load = later, !.charged = cleanup.charged + bytes,
                           !.inspected = Append(cleanup.inspected, Inspected(r, bytes))]
    <3>1. PICK bytes \in {IF r \in dirs THEN 1 ELSE 0, 1} :
            cleanup' = [cleanup EXCEPT !.load = Tail(@), !.charged = @ + bytes,
                                       !.inspected = Append(@, Inspected(r, bytes))]
      BY <1>8 DEF Inspect, r
    <3>2. bytes \in {0, 1} /\ (bytes = 0 => r \notin dirs)
      OBVIOUS
    <3>3. cleanup' = [cleanup EXCEPT !.load = later, !.charged = cleanup.charged + bytes,
                        !.inspected = Append(cleanup.inspected, Inspected(r, bytes))]
      BY <1>6, <3>1
    <3> QED BY <3>2, <3>3
  <2>2. PICK s : s = Inspected(r, bytes)
    OBVIOUS
  <2>3. s \in Seen /\ s.run = r /\ s.bytes = bytes
    BY <1>3, <2>2 DEF Inspected, Seen
  <2>4. PICK list : list = Append(cleanup.inspected, s)
    OBVIOUS
  <2>5. PICK n \in Nat : n = Len(cleanup.inspected)
    BY <1>2
  <2>6. /\ list \in Seq(Seen) /\ DOMAIN cleanup.inspected = 1..n
        /\ DOMAIN list = 1..(n + 1) /\ list[n + 1] = s
        /\ \A k \in 1..n : list[k] = cleanup.inspected[k]
    BY <1>2, <2>3, <2>4, <2>5
  <2>7. \A k \in DOMAIN list : k \in DOMAIN cleanup.inspected \/ k = n + 1
    BY <2>6
  <2>8. PICK c : c = [cleanup EXCEPT !.load = later, !.charged = cleanup.charged + bytes,
                                     !.inspected = list]
    OBVIOUS
  <2>9. cleanup' = c
    BY <2>1, <2>2, <2>4, <2>8
  <2>10. /\ c.at = "Inspect" /\ c.load = later /\ c.reserved = cleanup.reserved
         /\ c.inspected = list /\ c.charged = cleanup.charged + bytes
         /\ c.forStart = cleanup.forStart /\ c.truncated = cleanup.truncated
    BY <1>1, <2>8 DEF Cleanup
  <2>11. c \in Cleanup
    <3>1. later \in Seq(Runs) /\ list \in Seq(Seen) /\ cleanup.charged + bytes \in Int
      BY <1>2, <1>3, <1>6, <2>6
    <3> QED BY <1>1, <2>8, <3>1 DEF Cleanup
  <2>12. ListsAreDistinct(c)
    <3>1. \A k \in 1..n : list[k].run \notin ToSet(cleanup.load)
      BY <1>1, <2>6 DEF ListsAreDistinct
    <3>2. \A k \in 1..n : list[k].run # r /\ list[k].run \notin ToSet(later)
      BY <1>3, <1>6, <3>1
    <3>3. \A k, l \in 1..n : list[k].run = list[l].run => k = l
      BY <1>1, <2>6 DEF ListsAreDistinct
    <3>4. list[n + 1].run = r /\ r \notin ToSet(later) /\ IsInjective(later)
      BY <1>3, <1>6, <2>3, <2>6
    <3>5. \A k, l \in DOMAIN list : list[k].run = list[l].run => k = l
      BY <2>6, <2>7, <3>2, <3>3, <3>4
    <3>6. \A k \in DOMAIN list : list[k].run \notin ToSet(later)
      BY <2>6, <2>7, <3>2, <3>4
    <3> QED BY <2>10, <3>4, <3>5, <3>6 DEF ListsAreDistinct
  <2>13. CleanupInStep'
    BY <1>4, <1>5, <2>9, <2>10 DEF CleanupInStep
  <2>14. Counted(c, Controlled, dirs)
    <3> SUFFICES ASSUME c.forStart, ~c.truncated
                 PROVE  \E U, C \in SUBSET Runs : Covers(c, Controlled, dirs, U, C)
      BY DEF Counted
    <3>1. PICK U, C \in SUBSET Runs : Covers(cleanup, Controlled, dirs, U, C)
      BY <1>1, <2>10 DEF Counted
    <3>2. CASE bytes = 0
      <4>1. \A k \in DOMAIN list : list[k].bytes = 1 => list[k].run \in C
        BY <2>3, <2>6, <2>7, <3>1, <3>2 DEF Covers
      <4>2. dirs \subseteq U \cup C \cup ToSet(later)
        BY <1>3, <1>6, <2>1, <3>1, <3>2 DEF Covers
      <4>3. Covers(c, Controlled, dirs, U, C)
        BY <1>2, <2>10, <3>1, <3>2, <4>1, <4>2 DEF Covers
      <4> QED BY <4>3
    <3>3. CASE bytes = 1
      <4>1. PICK D \in SUBSET Runs : D = C \cup {r}
        BY <1>3
      <4>2. /\ Cardinality(D) <= Cardinality(C) + 1 /\ Cardinality(D) \in Nat
            /\ Cardinality(C) \in Nat
        BY <1>3, <4>1, SizeGrows, SizeOf
      <4>3. Cardinality(D) <= c.charged
        BY <1>2, <2>10, <3>1, <3>3, <4>2 DEF Covers
      <4>4. \A k \in DOMAIN list : list[k].bytes = 1 => list[k].run \in D
        BY <2>3, <2>6, <2>7, <3>1, <4>1 DEF Covers
      <4>5. dirs \subseteq U \cup D \cup ToSet(later)
        BY <1>3, <1>6, <3>1, <4>1 DEF Covers
      <4>6. Covers(c, Controlled, dirs, U, D)
        BY <2>10, <3>1, <4>3, <4>4, <4>5 DEF Covers
      <4> QED BY <4>6
    <3> QED BY <3>2, <3>3
  <2> QED BY <1>4, <2>9, <2>11, <2>12, <2>13, <2>14, OnlyCleanupMoves
<1> QED BY <1>7, <1>8

LEMMA CountedLess ==
  ASSUME NEW c, NEW held, NEW present, Counted(c, held, present),
         NEW fewer \in SUBSET held, NEW less \in SUBSET present
  PROVE  Counted(c, fewer, less)
<1> SUFFICES ASSUME c.at # "Idle", c.forStart, ~c.truncated
             PROVE  \E U, C \in SUBSET Runs : Covers(c, fewer, less, U, C)
  BY DEF Counted
<1>1. PICK U, C \in SUBSET Runs : Covers(c, held, present, U, C)
  BY DEF Counted
<1>2. Covers(c, fewer, less, U, C)
  BY <1>1 DEF Covers
<1> QED BY <1>2

(* Where a cleanup looks for its next candidate it relies on nothing. *)
LEMMA DecideInStep ==
  ASSUME LogInv, cleanup.at # "Idle", UNCHANGED starting,
         cleanup'.at = "Decide", cleanup'.load = <<>>, cleanup'.forStart = cleanup.forStart
  PROVE  CleanupInStep'
BY DEF LogInv, CleanupInStep

(* A candidate that is passed over stays counted. *)
LEMMA SkipIs ==
  ASSUME LogInv, cleanup.at # "Idle", cleanup.load = <<>>, cleanup.inspected # <<>>
  PROVE  /\ Skip \in Cleanup /\ Skip.at = "Decide" /\ Skip.load = <<>>
         /\ Skip.forStart = cleanup.forStart /\ Skip.truncated = cleanup.truncated
         /\ Skip.charged = cleanup.charged /\ Skip.reserved = cleanup.reserved
         /\ Skip.inspected = Tail(cleanup.inspected) /\ Skip.count = cleanup.count
         /\ ListsAreDistinct(Skip) /\ Counted(Skip, Controlled, dirs)
         /\ Candidate \in Seen /\ Candidate = cleanup.inspected[1] /\ 1 \in DOMAIN cleanup.inspected
         /\ \A k \in DOMAIN Skip.inspected :
              /\ k + 1 \in DOMAIN cleanup.inspected /\ k + 1 # 1
              /\ Skip.inspected[k] = cleanup.inspected[k + 1]
<1>1. cleanup \in Cleanup /\ ListsAreDistinct(cleanup) /\ Counted(cleanup, Controlled, dirs)
  BY DEF LogInv
<1>2. cleanup.inspected \in Seq(Seen) /\ cleanup.load \in Seq(Runs)
  BY <1>1 DEF Cleanup
<1>3. PICK later : later = Tail(cleanup.inspected)
  OBVIOUS
<1>4. /\ later \in Seq(Seen) /\ Candidate \in Seen /\ Candidate = cleanup.inspected[1]
      /\ \A k \in DOMAIN later : k + 1 \in DOMAIN cleanup.inspected
                                /\ later[k] = cleanup.inspected[k + 1]
      /\ Len(cleanup.inspected) \in Nat \ {0}
  BY <1>2, <1>3, TailIs DEF Candidate
<1>5. \A k \in DOMAIN later : k \in Nat \ {0} /\ k + 1 # 1
  BY <1>4
<1>6. 1 \in DOMAIN cleanup.inspected
  BY <1>2, <1>4
<1>7. PICK c : c = Skip
  OBVIOUS
<1>8. c = [cleanup EXCEPT !.at = "Decide", !.inspected = later]
  BY <1>3, <1>7 DEF Skip
<1>9. /\ c.at = "Decide" /\ c.load = <<>> /\ c.forStart = cleanup.forStart
      /\ c.truncated = cleanup.truncated /\ c.charged = cleanup.charged
      /\ c.reserved = cleanup.reserved /\ c.inspected = later /\ c.count = cleanup.count
      /\ c.load = cleanup.load
  BY <1>1, <1>8 DEF Cleanup
<1>10. c \in Cleanup
  BY <1>1, <1>4, <1>8 DEF Cleanup
<1>11. ListsAreDistinct(c)
  <2>1. \A k, l \in DOMAIN later : later[k].run = later[l].run => k + 1 = l + 1
    BY <1>1, <1>4 DEF ListsAreDistinct
  <2>2. \A k, l \in DOMAIN later : later[k].run = later[l].run => k = l
    BY <1>5, <2>1
  <2>3. \A k \in DOMAIN later : later[k].run \notin ToSet(cleanup.load)
    BY <1>1, <1>4 DEF ListsAreDistinct
  <2> QED BY <1>1, <1>9, <2>2, <2>3 DEF ListsAreDistinct
<1>12. Counted(c, Controlled, dirs)
  <2> SUFFICES ASSUME c.forStart, ~c.truncated
               PROVE  \E U, C \in SUBSET Runs : Covers(c, Controlled, dirs, U, C)
    BY DEF Counted
  <2>1. PICK U, C \in SUBSET Runs : Covers(cleanup, Controlled, dirs, U, C)
    BY <1>1, <1>9 DEF Counted
  <2>2. Covers(c, Controlled, dirs, U, C)
    BY <1>4, <1>9, <2>1 DEF Covers
  <2> QED BY <2>2
<1> QED BY <1>3, <1>4, <1>5, <1>6, <1>7, <1>9, <1>10, <1>11, <1>12

(* A start is admitted only when the directories leave room for one more. *)
LEMMA AdmittedFits ==
  ASSUME LogInv, cleanup.at # "Idle", cleanup.forStart, cleanup.load = <<>>,
         ~(cleanup.reserved > DiskBudget), ~OverLimit
  PROVE  Cardinality(dirs) + 1 <= DiskBudget
<1>1. /\ ~cleanup.truncated /\ cleanup.charged \in Int /\ cleanup.reserved \in Nat
      /\ ~(cleanup.charged > DiskBudget - cleanup.reserved)
  BY DEF LogInv, Cleanup, OverLimit, Retained
<1>2. PICK U, C \in SUBSET Runs : Covers(cleanup, Controlled, dirs, U, C)
  BY <1>1 DEF LogInv, Counted
<1>3. ToSet(cleanup.load) = {}
  BY DEF ToSet
<1>4. PICK W \in SUBSET Runs : W = U \cup C
  OBVIOUS
<1>5. dirs \in SUBSET W
  BY <1>2, <1>3, <1>4 DEF Covers
<1>6. /\ Cardinality(dirs) <= Cardinality(W) /\ Cardinality(W) \in Nat /\ Cardinality(dirs) \in Nat
      /\ IsFiniteSet(U) /\ Cardinality(U) \in Nat /\ IsFiniteSet(C) /\ Cardinality(C) \in Nat
  BY <1>4, <1>5, SizeOf, SizeShrinks
<1>7. Cardinality(W) <= Cardinality(U) + Cardinality(C)
  <2>1. /\ Cardinality(U \cup C) = Cardinality(U) + Cardinality(C) - Cardinality(U \cap C)
        /\ Cardinality(U \cap C) \in Nat
    BY <1>6, FS_Union, SizeOf
  <2> QED BY <1>4, <1>6, <2>1
<1>8. Cardinality(U) + 1 <= cleanup.reserved /\ Cardinality(C) <= cleanup.charged
  BY <1>2 DEF Covers
<1> QED BY <1>1, <1>6, <1>7, <1>8, LogLimits

LEMMA DecideKeeps ==
  ASSUME LogInv, Decide
  PROVE  LogInv'
<1>1. /\ cleanup.at \in {"Inspect", "Decide"} /\ cleanup.load = <<>> /\ cleanup \in Cleanup
      /\ UNCHANGED <<durable, dirs, controls, capturing, registry, opened, issued, request>>
  BY DEF Decide, LogInv
<1>2. CASE starting' = starting /\ cleanup.inspected # <<>> /\ cleanup' = Skip
  <2>1. /\ cleanup' \in Cleanup /\ ListsAreDistinct(cleanup')
        /\ Counted(cleanup', Controlled, dirs)
        /\ cleanup'.at = "Decide" /\ cleanup'.load = <<>> /\ cleanup'.forStart = cleanup.forStart
    BY <1>1, <1>2, SkipIs
  <2>2. CleanupInStep'
    BY <1>1, <1>2, <2>1, DecideInStep
  <2> QED BY <1>1, <1>2, <2>1, <2>2, OnlyCleanupMoves
<1>3. CASE /\ starting' = starting /\ cleanup.inspected # <<>>
           /\ cleanup' = [cleanup EXCEPT !.at = "Acquire"]
  <2>1. PICK c : c = [cleanup EXCEPT !.at = "Acquire"]
    OBVIOUS
  <2>2. /\ c.at = "Acquire" /\ c.load = cleanup.load /\ c.inspected = cleanup.inspected
        /\ c.forStart = cleanup.forStart /\ c.truncated = cleanup.truncated
        /\ c.reserved = cleanup.reserved /\ c.charged = cleanup.charged /\ c \in Cleanup
    BY <1>1, <2>1 DEF Cleanup
  <2>3. ListsAreDistinct(c)
    BY <2>2 DEF LogInv, ListsAreDistinct
  <2>4. Counted(c, Controlled, dirs)
    BY <1>1, <2>2 DEF Covers, LogInv, Counted
  <2>5. cleanup.forStart => starting.run # None /\ ~starting.admitted
    BY <1>1 DEF LogInv, CleanupInStep
  <2>6. CleanupInStep'
    BY <1>1, <1>3, <2>1, <2>2, <2>5 DEF CleanupInStep
  <2> QED BY <1>1, <1>3, <2>1, <2>2, <2>3, <2>4, <2>6, OnlyCleanupMoves
<1>4. CASE /\ cleanup' = NoCleanup
           /\ \/ starting' = starting
              \/ cleanup.forStart /\ starting' = NoStart
              \/ /\ cleanup.forStart /\ starting' = [starting EXCEPT !.admitted = TRUE]
                 /\ ~(cleanup.reserved > DiskBudget) /\ ~OverLimit
  <2>1. UNCHANGED <<live, ended, deleting, deleted, dirs, controls, capturing, registry, opened,
                    issued, request>>
    BY <1>1 DEF durable
  <2>2. Rows' = Rows /\ Controlled' = Controlled
    BY <2>1 DEF Rows, Controlled
  <2>3. /\ starting \in [run : Runs \cup {None}, admitted : BOOLEAN]
        /\ starting.run # None => starting.run \notin Rows
        /\ starting.run = None => ~starting.admitted
        /\ cleanup.forStart => starting.run # None
    BY <1>1 DEF LogInv, ServiceTyped, OneRowEach, CleanupInStep
  <2>4. /\ starting' \in [run : Runs \cup {None}, admitted : BOOLEAN]
        /\ starting'.run # None => starting'.run \notin Rows
        /\ starting'.run = None => ~starting'.admitted
    <3>1. CASE starting' = starting \/ starting' = NoStart
      <4>1. /\ NoStart \in [run : Runs \cup {None}, admitted : BOOLEAN]
            /\ NoStart.run = None /\ ~NoStart.admitted
        BY DEF NoStart
      <4>2. CASE starting' = starting
        BY <2>3, <4>2
      <4>3. CASE starting' = NoStart
        BY <4>1, <4>3
      <4> QED BY <3>1, <4>2, <4>3
    <3>2. CASE cleanup.forStart /\ starting' = [starting EXCEPT !.admitted = TRUE]
      BY <2>3, <3>2
    <3> QED BY <1>4, <3>1, <3>2
  <2>5. RowsTyped' /\ ServiceTyped' /\ ReadersTyped'
    BY <2>1, <2>4 DEF LogInv, RowsTyped, ServiceTyped, ReadersTyped
  <2>6. OneRowEach' /\ MarksAreTrue'
    BY <2>1, <2>2, <2>4 DEF LogInv, OneRowEach, MarksAreTrue
  <2>7. HoldsRows' /\ RequestsInStep' /\ Sound(registry)'
    BY <2>1, <2>2 DEF LogInv, HoldsRows, RequestsInStep, ActiveReader
  <2>8. (cleanup \in Cleanup)' /\ ListsAreDistinct(cleanup)' /\ cleanup'.at = "Idle"
    BY <1>4, CleanupIsInit DEF NoCleanup
  <2>9. CleanupInStep' /\ Counted(cleanup, Controlled, dirs)'
    BY <2>8 DEF CleanupInStep, Counted
  <2>10. DiskHolds'
    <3>1. CASE starting' = starting \/ starting' = NoStart
      BY <2>1, <3>1 DEF LogInv, DiskHolds, NoStart
    <3>2. CASE cleanup.forStart /\ ~(cleanup.reserved > DiskBudget) /\ ~OverLimit
      BY <1>1, <2>1, <3>2, AdmittedFits DEF LogInv, DiskHolds
    <3> QED BY <1>4, <3>1, <3>2
  <2> QED BY <2>5, <2>6, <2>7, <2>8, <2>9, <2>10 DEF LogInv
<1>5. \/ starting' = starting /\ cleanup.inspected # <<>> /\ cleanup' = Skip
      \/ /\ starting' = starting /\ cleanup.inspected # <<>>
         /\ cleanup' = [cleanup EXCEPT !.at = "Acquire"]
      \/ Finished(FALSE)
      \/ Finished(~OverLimit) /\ ~(cleanup.reserved > DiskBudget)
  BY DEF Decide, Skip
<1>6. CASE Finished(FALSE)
  BY <1>4, <1>6 DEF Finished
<1>7. CASE Finished(~OverLimit) /\ ~(cleanup.reserved > DiskBudget)
  BY <1>4, <1>7 DEF Finished
<1> QED BY <1>2, <1>3, <1>5, <1>6, <1>7

LEMMA AcquireKeeps ==
  ASSUME LogInv, Acquire
  PROVE  LogInv'
<1>1. /\ cleanup.at = "Acquire" /\ Reading = {} /\ cleanup' = [cleanup EXCEPT !.at = "Begin"]
      /\ UNCHANGED <<durable, dirs, controls, capturing, registry, opened, issued, request,
                     starting>>
      /\ cleanup \in Cleanup
  BY DEF Acquire, LogInv
<1>2. PICK c : c = [cleanup EXCEPT !.at = "Begin"]
  OBVIOUS
<1>3. /\ c.at = "Begin" /\ c.load = cleanup.load /\ c.inspected = cleanup.inspected
      /\ c.forStart = cleanup.forStart /\ c.truncated = cleanup.truncated
      /\ c.reserved = cleanup.reserved /\ c.charged = cleanup.charged /\ c \in Cleanup
  BY <1>1, <1>2 DEF Cleanup
<1>4. ListsAreDistinct(c)
  BY <1>3 DEF LogInv, ListsAreDistinct
<1>5. Counted(c, Controlled, dirs)
  BY <1>1, <1>3 DEF Covers, LogInv, Counted
<1>6. /\ cleanup.load = <<>> /\ cleanup.inspected # <<>>
      /\ cleanup.forStart => starting.run # None /\ ~starting.admitted
  BY <1>1 DEF LogInv, CleanupInStep
<1>7. Reading' = {}
  BY <1>1 DEF Reading
<1>8. CleanupInStep'
  BY <1>1, <1>2, <1>3, <1>6, <1>7 DEF CleanupInStep
<1> QED BY <1>1, <1>2, <1>3, <1>4, <1>5, <1>8, OnlyCleanupMoves

(* With all the permits held, a deletion disturbs no request. *)
LEMMA DeletionMoves ==
  ASSUME LogInv, Reading = {},
         UNCHANGED <<live, ended, controls, capturing, opened, issued, request, starting>>,
         dirs' \subseteq dirs, MarksAreTrue', Sound(registry'),
         Registered(registry') \subseteq Registered(registry), Active(registry') = Active(registry),
         cleanup' \in Cleanup, CleanupInStep', ListsAreDistinct(cleanup'),
         Counted(cleanup', Controlled, dirs')
  PROVE  LogInv'
<1>1. Rows' = Rows /\ Controlled' = Controlled
  BY DEF Rows, Controlled
<1>2. RowsTyped'
  BY RowsAreRuns DEF MarksAreTrue, LogInv, RowsTyped
<1>3. ServiceTyped' /\ ReadersTyped' /\ OneRowEach'
  BY <1>1 DEF LogInv, ServiceTyped, ReadersTyped, OneRowEach
<1>4. HoldsRows'
  BY <1>1 DEF LogInv, HoldsRows, ServiceTyped, ActiveReader, Active
<1>5. RequestsInStep'
  BY DEF Reading, RequestsInStep
<1>6. DiskHolds'
  <2>1. dirs \in SUBSET Runs
    BY DEF LogInv, RowsTyped
  <2>2. PICK d \in SUBSET dirs : d = dirs'
    OBVIOUS
  <2>3. /\ Cardinality(d) <= Cardinality(dirs) /\ Cardinality(d) \in Nat
        /\ Cardinality(dirs) \in Nat
    BY <2>1, SizeShrinks, SizeOf
  <2>4. /\ starting.admitted => Cardinality(d) + 1 <= DiskBudget
        /\ Cardinality(d) <= DiskBudget
    BY <2>3, LogLimits DEF LogInv, DiskHolds
  <2> QED BY <2>2, <2>4 DEF DiskHolds
<1>7. /\ Sound(registry)' /\ (cleanup \in Cleanup)' /\ ListsAreDistinct(cleanup)'
      /\ Counted(cleanup, Controlled, dirs)'
  BY <1>1
<1> QED BY <1>2, <1>3, <1>4, <1>5, <1>6, <1>7 DEF LogInv

LEMMA BeginDeletionKeeps ==
  ASSUME LogInv, BeginDeletion
  PROVE  LogInv'
<1> DEFINE r == Candidate.run
<1>1. /\ cleanup.at = "Begin" /\ cleanup \in Cleanup /\ Reading = {} /\ cleanup.load = <<>>
      /\ cleanup.inspected # <<>>
      /\ cleanup.forStart => starting.run # None /\ ~starting.admitted
  BY DEF BeginDeletion, LogInv, CleanupInStep
<1>2. /\ UNCHANGED <<live, ended, deleted, dirs, controls, capturing, opened, issued, request,
                     starting>>
      /\ \/ cleanup' = Skip /\ registry' = registry /\ deleting' = deleting
         \/ /\ Deletable(r) /\ registry' = Without(registry, r)
            /\ \/ cleanup' = Skip /\ deleting' \in {deleting, deleting \cup {r}}
               \/ cleanup' = [cleanup EXCEPT !.at = "Remove"] /\ deleting' = deleting \cup {r}
  BY DEF BeginDeletion
<1>3. r \in Runs
  BY <1>1, SkipIs DEF Seen
<1>4. /\ Sound(registry') /\ Registered(registry') \subseteq Registered(registry)
      /\ Active(registry') = Active(registry)
      /\ registry' = Without(registry, r) => registry'.entries[r] = None
  <2>1. Sound(registry)
    BY DEF LogInv
  <2>2. CASE registry' = registry
    BY <1>3, <2>1, <2>2, WithoutIs
  <2>3. CASE Deletable(r) /\ registry' = Without(registry, r)
    <3>1. r \notin Active(registry)
      BY <2>3 DEF Deletable, ActiveReader, Active
    <3>2. PICK h : h = registry'
      OBVIOUS
    <3>3. /\ Sound(h) /\ Registered(h) = Registered(registry) \ {r} /\ h.entries[r] = None
          /\ Active(h) = Active(registry) \ {r}
      BY <1>3, <2>1, <2>3, <3>2, WithoutIs
    <3> QED BY <3>1, <3>2, <3>3
  <2> QED BY <1>2, <2>2, <2>3
<1>5. MarksAreTrue'
  BY <1>2 DEF LogInv, MarksAreTrue, Deletable
<1> HIDE DEF r
<1>6. CASE cleanup' = Skip
  <2>1. /\ cleanup' \in Cleanup /\ ListsAreDistinct(cleanup')
        /\ Counted(cleanup', Controlled, dirs)
        /\ cleanup'.at = "Decide" /\ cleanup'.load = <<>> /\ cleanup'.forStart = cleanup.forStart
    BY <1>1, <1>6, SkipIs
  <2>2. CleanupInStep'
    BY <1>1, <1>2, <2>1, DecideInStep
  <2> QED BY <1>1, <1>2, <1>4, <1>5, <2>1, <2>2, DeletionMoves
<1>7. CASE /\ Deletable(r) /\ registry' = Without(registry, r)
           /\ cleanup' = [cleanup EXCEPT !.at = "Remove"] /\ deleting' = deleting \cup {r}
  <2>1. PICK c : c = [cleanup EXCEPT !.at = "Remove"]
    OBVIOUS
  <2>2. /\ c.at = "Remove" /\ c.load = cleanup.load /\ c.inspected = cleanup.inspected
        /\ c.forStart = cleanup.forStart /\ c.truncated = cleanup.truncated
        /\ c.reserved = cleanup.reserved /\ c.charged = cleanup.charged /\ c \in Cleanup
    BY <1>1, <2>1 DEF Cleanup
  <2>3. ListsAreDistinct(c)
    BY <2>2 DEF LogInv, ListsAreDistinct
  <2>4. Counted(c, Controlled, dirs)
    <3>1. \A U, C \in SUBSET Runs :
            Covers(cleanup, Controlled, dirs, U, C) => Covers(c, Controlled, dirs, U, C)
      BY <2>2 DEF Covers
    <3> QED BY <1>1, <2>2, <3>1 DEF LogInv, Counted
  <2>5. Candidate' = Candidate /\ Reading' = {}
    BY <1>1, <1>2, <1>7, <2>1, <2>2 DEF Candidate, Reading
  <2>6. controls[r] = None /\ registry'.entries[r] = None
    BY <1>4, <1>7 DEF Deletable
  <2>7. CleanupInStep'
    BY <1>1, <1>2, <1>7, <2>1, <2>2, <2>5, <2>6 DEF CleanupInStep, r
  <2> QED BY <1>1, <1>2, <1>4, <1>5, <1>7, <2>1, <2>2, <2>3, <2>4, <2>7, DeletionMoves
<1> QED BY <1>2, <1>6, <1>7

LEMMA RemoveKeeps ==
  ASSUME LogInv, RemoveDirectory
  PROVE  LogInv'
<1> DEFINE r == Candidate.run
<1>1. /\ cleanup.at = "Remove" /\ cleanup \in Cleanup /\ Reading = {} /\ cleanup.load = <<>>
      /\ cleanup.inspected # <<>>
      /\ cleanup.forStart => starting.run # None /\ ~starting.admitted
      /\ r \in deleting /\ controls[r] = None /\ registry.entries[r] = None
  BY DEF RemoveDirectory, LogInv, CleanupInStep
<1>2. /\ UNCHANGED <<live, ended, deleting, deleted, controls, capturing, registry, opened, issued,
                     request, starting>>
      /\ \/ dirs' = dirs \ {r} /\ cleanup' = [cleanup EXCEPT !.at = "Mark"]
         \/ dirs' = dirs /\ cleanup' = Skip
  BY DEF RemoveDirectory, durable
<1>3. dirs' \subseteq dirs
  BY <1>2
<1>4. /\ Sound(registry') /\ Registered(registry') \subseteq Registered(registry)
      /\ Active(registry') = Active(registry)
  BY <1>2 DEF LogInv
<1>5. MarksAreTrue'
  BY <1>2, <1>3 DEF LogInv, MarksAreTrue
<1> HIDE DEF r
<1>6. CASE dirs' = dirs /\ cleanup' = Skip
  <2>1. /\ cleanup' \in Cleanup /\ ListsAreDistinct(cleanup')
        /\ Counted(cleanup', Controlled, dirs')
        /\ cleanup'.at = "Decide" /\ cleanup'.load = <<>> /\ cleanup'.forStart = cleanup.forStart
    BY <1>1, <1>6, SkipIs
  <2>2. CleanupInStep'
    BY <1>1, <1>2, <2>1, DecideInStep
  <2> QED BY <1>1, <1>2, <1>3, <1>4, <1>5, <2>1, <2>2, DeletionMoves
<1>7. CASE dirs' = dirs \ {r} /\ cleanup' = [cleanup EXCEPT !.at = "Mark"]
  <2>1. PICK c : c = [cleanup EXCEPT !.at = "Mark"]
    OBVIOUS
  <2>2. /\ c.at = "Mark" /\ c.load = cleanup.load /\ c.inspected = cleanup.inspected
        /\ c.forStart = cleanup.forStart /\ c.truncated = cleanup.truncated
        /\ c.reserved = cleanup.reserved /\ c.charged = cleanup.charged /\ c \in Cleanup
    BY <1>1, <2>1 DEF Cleanup
  <2>3. ListsAreDistinct(c)
    BY <2>2 DEF LogInv, ListsAreDistinct
  <2>4. Counted(c, Controlled, dirs)
    <3>1. \A U, C \in SUBSET Runs :
            Covers(cleanup, Controlled, dirs, U, C) => Covers(c, Controlled, dirs, U, C)
      BY <2>2 DEF Covers
    <3> QED BY <1>1, <2>2, <3>1 DEF LogInv, Counted
  <2>5. PICK d \in SUBSET dirs : d = dirs'
    BY <1>3
  <2>6. Counted(c, Controlled, d)
    BY <2>4, CountedLess
  <2>7. Candidate' = Candidate /\ Reading' = {}
    BY <1>1, <1>2, <1>7, <2>1, <2>2 DEF Candidate, Reading
  <2>8. CleanupInStep'
    BY <1>1, <1>2, <1>7, <2>1, <2>2, <2>7 DEF CleanupInStep, r
  <2>9. cleanup' \in Cleanup /\ ListsAreDistinct(cleanup') /\ Counted(cleanup', Controlled, dirs')
    BY <1>7, <2>1, <2>2, <2>3, <2>5, <2>6
  <2> QED BY <1>1, <1>2, <1>3, <1>4, <1>5, <2>8, <2>9, DeletionMoves
<1> QED BY <1>2, <1>6, <1>7

(* What is marked deleted is no longer charged. *)
LEMMA MarkDeletedKeeps ==
  ASSUME LogInv, MarkDeleted
  PROVE  LogInv'
<1> DEFINE r == Candidate.run
<1>1. /\ cleanup.at = "Mark" /\ cleanup \in Cleanup /\ Reading = {} /\ cleanup.load = <<>>
      /\ cleanup.inspected # <<>> /\ r \in deleting /\ r \notin dirs
  BY DEF MarkDeleted, LogInv, CleanupInStep
<1>2. PICK c : c = [Skip EXCEPT !.charged = @ - Candidate.bytes, !.count = @ - 1]
  OBVIOUS
<1>3. /\ UNCHANGED <<live, ended, deleting, dirs, controls, capturing, registry, opened, issued,
                     request, starting>>
      /\ deleted' \in {deleted, deleted \cup {r}}
      /\ cleanup' = Skip \/ cleanup' = c
  BY <1>2 DEF MarkDeleted
<1>4. /\ Sound(registry') /\ Registered(registry') \subseteq Registered(registry)
      /\ Active(registry') = Active(registry) /\ dirs' \subseteq dirs
  BY <1>3 DEF LogInv
<1>5. MarksAreTrue'
  BY <1>1, <1>3 DEF LogInv, MarksAreTrue
<1>6. /\ Skip \in Cleanup /\ Skip.at = "Decide" /\ Skip.load = <<>>
      /\ Skip.forStart = cleanup.forStart /\ Skip.truncated = cleanup.truncated
      /\ Skip.charged = cleanup.charged /\ Skip.reserved = cleanup.reserved
      /\ ListsAreDistinct(Skip) /\ Counted(Skip, Controlled, dirs)
      /\ Candidate \in Seen /\ Candidate = cleanup.inspected[1] /\ 1 \in DOMAIN cleanup.inspected
      /\ \A k \in DOMAIN Skip.inspected :
           /\ k + 1 \in DOMAIN cleanup.inspected /\ k + 1 # 1
           /\ Skip.inspected[k] = cleanup.inspected[k + 1]
  BY <1>1, SkipIs
<1>7. PICK s : s = Skip
  OBVIOUS
<1>8. PICK bytes \in {0, 1} : bytes = Candidate.bytes
  BY <1>6 DEF Seen
<1>9. r \in Runs /\ cleanup.charged \in Int
  BY <1>1, <1>6 DEF Seen, Cleanup
<1>10. /\ c.at = "Decide" /\ c.load = <<>> /\ c.forStart = cleanup.forStart
       /\ c.truncated = cleanup.truncated /\ c.reserved = cleanup.reserved
       /\ c.charged = cleanup.charged - bytes /\ c.inspected = Skip.inspected
  BY <1>2, <1>6, <1>8 DEF Cleanup
<1>11. c \in Cleanup
  <2>1. s.charged - bytes \in Int /\ s.count - 1 \in Int /\ s \in Cleanup
    BY <1>6, <1>7, <1>8 DEF Cleanup
  <2>2. c = [s EXCEPT !.charged = s.charged - bytes, !.count = s.count - 1]
    BY <1>2, <1>7, <1>8
  <2> QED BY <2>1, <2>2 DEF Cleanup
<1>12. ListsAreDistinct(c)
  BY <1>6, <1>10 DEF ListsAreDistinct
<1> HIDE DEF r
<1>13. Counted(c, Controlled, dirs)
  <2> SUFFICES ASSUME c.forStart, ~c.truncated
               PROVE  \E U, C \in SUBSET Runs : Covers(c, Controlled, dirs, U, C)
    BY DEF Counted
  <2>1. PICK U, C \in SUBSET Runs : Covers(cleanup, Controlled, dirs, U, C)
    BY <1>1, <1>10 DEF LogInv, Counted
  <2>2. PICK D \in SUBSET Runs : D = C \ {r}
    OBVIOUS
  <2>3. bytes = 1 => r \in C
    BY <1>6, <1>8, <2>1 DEF Covers, r
  <2>4. Cardinality(D) <= Cardinality(C) - bytes
    <3>1. /\ IsFiniteSet(C) /\ Cardinality(C) \in Nat /\ Cardinality(D) <= Cardinality(C)
          /\ Cardinality(D) \in Nat
      BY <2>2, SizeOf, SizeShrinks
    <3>2. r \in C => Cardinality(C \ {r}) = Cardinality(C) - 1
      BY <3>1, FS_RemoveElement
    <3> QED BY <1>8, <2>2, <2>3, <3>1, <3>2
  <2>5. Cardinality(C) <= cleanup.charged /\ Cardinality(C) \in Nat /\ Cardinality(D) \in Nat
    BY <2>1, SizeOf DEF Covers
  <2>6. Cardinality(D) <= c.charged
    BY <1>8, <1>9, <1>10, <2>4, <2>5
  <2>7. dirs \subseteq U \cup D \cup ToSet(c.load)
    BY <1>1, <1>10, <2>1, <2>2 DEF Covers
  <2>8. ASSUME NEW k \in DOMAIN c.inspected, c.inspected[k].bytes = 1
        PROVE  c.inspected[k].run \in D
    <3>1. /\ k + 1 \in DOMAIN cleanup.inspected /\ k + 1 # 1
          /\ c.inspected[k] = cleanup.inspected[k + 1]
      BY <1>6, <1>10
    <3>2. c.inspected[k].run \in C
      BY <2>1, <2>8, <3>1 DEF Covers
    <3>3. cleanup.inspected[k + 1].run # cleanup.inspected[1].run
      BY <1>6, <3>1 DEF LogInv, ListsAreDistinct
    <3> QED BY <1>6, <2>2, <3>1, <3>2, <3>3 DEF r
  <2>9. Covers(c, Controlled, dirs, U, D)
    BY <1>10, <2>1, <2>6, <2>7, <2>8 DEF Covers
  <2> QED BY <2>9
<1>14. /\ cleanup' \in Cleanup /\ ListsAreDistinct(cleanup')
       /\ cleanup'.at = "Decide" /\ cleanup'.load = <<>> /\ cleanup'.forStart = cleanup.forStart
       /\ Counted(cleanup', Controlled, dirs')
  BY <1>3, <1>6, <1>10, <1>11, <1>12, <1>13
<1>15. CleanupInStep'
  BY <1>1, <1>3, <1>14, DecideInStep
<1> QED BY <1>1, <1>3, <1>4, <1>5, <1>14, <1>15, DeletionMoves

------------------------------------------------------------
(* The theorems. *)

LEMMA NextKeeps == LogInv /\ [Next]_vars => LogInv'
<1> SUFFICES ASSUME LogInv, [Next]_vars PROVE LogInv'
  OBVIOUS
<1>1. ASSUME NEW q \in Requests, NEW r \in Rows, NEW offset \in Known(r) \cup {None},
             Ask(q, r, offset)
      PROVE  LogInv'
  BY <1>1, AskKeeps
<1>2. ASSUME NEW q \in Requests, RangeStep(q) PROVE LogInv'
  BY <1>2, CheckKeeps, OpenKeeps, ReadKeeps DEF RangeStep
<1>3. CASE BeginStart
  BY <1>3, BeginStartKeeps
<1>4. ASSUME NEW r \in Runs, RunEnds(r) \/ CaptureEnds(r) PROVE LogInv'
  BY <1>4, RunEndsKeeps, CaptureEndsKeeps
<1>5. ASSUME NEW forStart \in BOOLEAN, BeginCleanup(forStart) PROVE LogInv'
  BY <1>5, BeginCleanupKeeps
<1>6. CASE Deletion
  BY <1>6, InspectKeeps, DecideKeeps, AcquireKeeps, BeginDeletionKeeps, RemoveKeeps,
     MarkDeletedKeeps DEF Deletion
<1>7. CASE Launch
  BY <1>7, LaunchKeeps
<1>8. CASE CrashAndRecover
  BY <1>8, CrashKeeps
<1>9. CASE UNCHANGED vars
  <2>1. UNCHANGED <<live, ended, deleting, deleted, dirs, controls, capturing, registry, opened,
                    issued, request, cleanup, starting>>
    BY <1>9 DEF vars
  <2>2. UNCHANGED durable
    BY <2>1 DEF durable
  <2>3. /\ cleanup' \in Cleanup /\ ListsAreDistinct(cleanup') /\ Counted(cleanup', Controlled, dirs)
    BY <2>1 DEF LogInv
  <2>4. CleanupInStep'
    BY <2>1 DEF LogInv, CleanupInStep, Candidate, Reading
  <2> QED BY <2>1, <2>2, <2>3, <2>4, OnlyCleanupMoves
<1> QED BY <1>1, <1>2, <1>3, <1>4, <1>5, <1>6, <1>7, <1>8, <1>9 DEF Next

THEOREM LogInvHolds == Spec => []LogInv
BY InitLogs, NextKeeps, PTL DEF Spec

(* No request reads the logs of a run whose deletion was begun, and while *)
(* its directory is removed outside the service lock nobody writes there  *)
(* or finds a reader of it (get_log_range and                             *)
(* remove_managed_log_retention_candidate, for any number of runs,        *)
(* requests and permits, through failures and crashes).                   *)
THEOREM LogsAreNotPulledAway == Spec => []FilesStayWhileUsed
BY LogInvHolds, InvIsSafe, PTL

(* Every reader that is not active can be dropped for a new one, and there *)
(* are never more than the capacity (ManagedLogReaderRegistry).            *)
THEOREM ReadersCanBeDropped == Spec => []SlotsAreReclaimable
BY LogInvHolds, InvIsSafe, PTL

(* The marks of the rows tell the truth, and the directories never take *)
(* more than the disk budget (run_managed_log_retention_cleanup, before *)
(* each start and on its timer).                                        *)
THEOREM LogsFitTheDisk == Spec => []DiskIsAccounted
BY LogInvHolds, InvIsSafe, PTL

------------------------------------------------------------
(***************************************************************************)
(* Bytes and scalars of an output stream.                                  *)
(***************************************************************************)

(* The pieces are joined one after the other. *)
LEMMA JoinedIs ==
  ASSUME NEW n \in Nat, NEW pieces
  PROVE  \E f : /\ f[0] = <<>> /\ Joined(pieces, n) = f[n]
                /\ \A i \in 1..n : f[i] = f[i - 1] \o pieces[i]
<1> DEFINE Begins(f, k) == f = [i \in 0..k |-> IF i = 0 THEN <<>> ELSE f[i - 1] \o pieces[i]]
           good == {k \in 0..n : \E f : Begins(f, k)}
<1> HIDE DEF Begins
<1>1. 0 \in good
  <2> DEFINE f == [i \in 0..0 |-> <<>>]
  <2>1. f = [i \in 0..0 |-> IF i = 0 THEN <<>> ELSE f[i - 1] \o pieces[i]]
    OBVIOUS
  <2>2. Begins(f, 0)
    BY <2>1, Zenon DEF Begins
  <2> QED  BY <2>2
<1>2. ASSUME NEW k \in good, k < n PROVE k + 1 \in good
  <2>1. PICK f : Begins(f, k)
    OBVIOUS
  <2> DEFINE g == [i \in 0..k + 1 |-> IF i <= k THEN f[i] ELSE f[k] \o pieces[k + 1]]
  <2>2. k \in Nat /\ k + 1 \in 0..n
    BY <1>2
  <2>3. \A i \in 0..k : f[i] = IF i = 0 THEN <<>> ELSE f[i - 1] \o pieces[i]
    <3> DEFINE step(i) == IF i = 0 THEN <<>> ELSE f[i - 1] \o pieces[i]
    <3>1. f = [i \in 0..k |-> step(i)]
      BY <2>1, Zenon DEF Begins
    <3> HIDE DEF step
    <3>2. \A i \in 0..k : f[i] = step(i)
      BY <3>1
    <3> QED  BY <3>2 DEF step
  <2>4. ASSUME NEW i \in 0..k + 1 PROVE g[i] = IF i = 0 THEN <<>> ELSE g[i - 1] \o pieces[i]
    <3>1. CASE i <= k
      BY <2>2, <2>3, <3>1
    <3>2. CASE ~(i <= k)
      <4>1. i = k + 1 /\ i # 0 /\ i - 1 = k /\ k \in 0..k + 1 /\ k <= k
        BY <2>2, <3>2
      <4>2. g[k] = f[k] /\ g[i] = f[k] \o pieces[i]
        BY <4>1, <3>2
      <4> QED  BY <4>1, <4>2, Zenon
    <3> QED  BY <3>1, <3>2
  <2>5. Begins(g, k + 1)
    <3> DEFINE step(i) == IF i = 0 THEN <<>> ELSE g[i - 1] \o pieces[i]
               other(i) == IF i <= k THEN f[i] ELSE f[k] \o pieces[k + 1]
    <3>1. \A i \in 0..k + 1 : other(i) = step(i)
      BY <2>4
    <3>2. g = [i \in 0..k + 1 |-> other(i)]
      OBVIOUS
    <3> HIDE DEF g, step, other
    <3>3. g = [i \in 0..k + 1 |-> step(i)]
      BY <3>1, <3>2
    <3> QED  BY <3>3, Zenon DEF Begins, step
  <2> QED  BY <2>2, <2>5, Zenon
<1>3. n \in good
  BY <1>1, <1>2, UpTo
<1> DEFINE all == CHOOSE f : Begins(f, n)
<1>4. Joined(pieces, n) = all[n]
  BY Zenon DEF Joined, Begins
<1>5. Begins(all, n)
  BY <1>3, Zenon
<1> HIDE DEF all
<1>6. all[0] = <<>> /\ \A i \in 1..n : all[i] = all[i - 1] \o pieces[i]
  <2> DEFINE step(i) == IF i = 0 THEN <<>> ELSE all[i - 1] \o pieces[i]
  <2>1. all = [i \in 0..n |-> step(i)]
    BY <1>5 DEF Begins
  <2> HIDE DEF step
  <2>2. \A i \in 0..n : all[i] = step(i)
    BY <2>1
  <2>3. 0 \in 0..n /\ \A i \in 1..n : i \in 0..n /\ i # 0
    OBVIOUS
  <2> QED  BY <2>2, <2>3 DEF step
<1> QED  BY <1>4, <1>6, Zenon

(* Offsets a..b-1 as a list *)
LEMMA OffsetsAre ==
  ASSUME NEW a \in Nat, NEW b \in Nat, a <= b
  PROVE  /\ Offsets(a, b) \in Seq(Nat) /\ Len(Offsets(a, b)) = b - a
         /\ \A i \in 1..b - a : Offsets(a, b)[i] = a + i - 1
BY DEF Offsets

LEMMA OffsetsNone == ASSUME NEW a \in Nat PROVE Offsets(a, a) = <<>>
<1> DEFINE s == Offsets(a, a)
           n == a - a
<1>1. n = 0 /\ a <= a
  OBVIOUS
<1>2. s \in Seq(Nat) /\ Len(s) = n
  BY <1>1, OffsetsAre, Zenon
<1> HIDE DEF s, n
<1>3. s = <<>>
  BY <1>1, <1>2
<1> QED  BY <1>3 DEF s

(* The part of a list between two places *)
LEMMA PartOf ==
  ASSUME NEW S, NEW s \in Seq(S), NEW k \in Nat, NEW m \in Nat, k <= m, m <= Len(s)
  PROVE  /\ SubSeq(s, k + 1, m) \in Seq(S) /\ Len(SubSeq(s, k + 1, m)) = m - k
         /\ \A i \in 1..m - k : SubSeq(s, k + 1, m)[i] = s[k + i]
<1> DEFINE j == k + 1
<1>1. j \in Int /\ m \in Int /\ m - j + 1 = m - k
  OBVIOUS
<1>2. \A i \in j..m : s[i] \in S
  OBVIOUS
<1>3. \A i \in 1..m - k : j + i - 1 = k + i
  OBVIOUS
<1>6. j <= m \/ m - k = 0
  OBVIOUS
<1> HIDE DEF j
<1> DEFINE w == SubSeq(s, j, m)
<1>4. /\ w \in Seq(S)
      /\ Len(w) = IF j <= m THEN m - j + 1 ELSE 0
      /\ \A i \in 1..m - j + 1 : w[i] = s[j + i - 1]
  BY <1>1, <1>2, SubSeqProperties
<1> HIDE DEF w
<1>5. w \in Seq(S) /\ Len(w) = m - k /\ \A i \in 1..m - k : w[i] = s[k + i]
  BY <1>1, <1>3, <1>4, <1>6
<1> QED  BY <1>5 DEF w, j

LEMMA FrontOf ==
  ASSUME NEW S, NEW s \in Seq(S), NEW n \in Nat, n <= Len(s)
  PROVE  /\ SubSeq(s, 1, n) \in Seq(S) /\ Len(SubSeq(s, 1, n)) = n
         /\ \A i \in 1..n : SubSeq(s, 1, n)[i] = s[i]
<1> DEFINE w == SubSeq(s, 1, n)
<1>1. \A i \in 1..n : s[i] \in S
  OBVIOUS
<1>2. /\ w \in Seq(S)
      /\ Len(w) = IF 1 <= n THEN n - 1 + 1 ELSE 0
      /\ \A i \in 1..n - 1 + 1 : w[i] = s[1 + i - 1]
  BY <1>1, SubSeqProperties
<1> HIDE DEF w
<1>3. n - 1 + 1 = n /\ (1 <= n \/ n = 0) /\ \A i \in 1..n : 1 + i - 1 = i
  OBVIOUS
<1>4. w \in Seq(S) /\ Len(w) = n /\ \A i \in 1..n : w[i] = s[i]
  BY <1>2, <1>3
<1> QED  BY <1>4 DEF w

LEMMA OffsetsJoin ==
  ASSUME NEW a \in Nat, NEW b \in Nat, NEW c \in Nat, a <= b, b <= c
  PROVE  Offsets(a, b) \o Offsets(b, c) = Offsets(a, c)
<1> DEFINE s == Offsets(a, b)
           t == Offsets(b, c)
           u == Offsets(a, c)
<1>0. a <= c
  OBVIOUS
<1>1. s \in Seq(Nat) /\ Len(s) = b - a /\ \A i \in 1..b - a : s[i] = a + i - 1
  BY OffsetsAre, Zenon
<1>2. t \in Seq(Nat) /\ Len(t) = c - b /\ \A i \in 1..c - b : t[i] = b + i - 1
  BY OffsetsAre, Zenon
<1>3. u \in Seq(Nat) /\ Len(u) = c - a /\ \A i \in 1..c - a : u[i] = a + i - 1
  BY <1>0, OffsetsAre, Zenon
<1> HIDE DEF s, t, u
<1> DEFINE w == s \o t
<1>4. w \in Seq(Nat) /\ Len(w) = Len(s) + Len(t)
      /\ \A i \in 1..Len(s) + Len(t) : w[i] = IF i <= Len(s) THEN s[i] ELSE t[i - Len(s)]
  BY <1>1, <1>2, ConcatProperties, Zenon
<1> HIDE DEF w
<1>5. Len(w) = Len(u) /\ Len(w) = c - a
  BY <1>1, <1>2, <1>3, <1>4
<1>6. ASSUME NEW i \in 1..Len(w) PROVE w[i] = u[i]
  <2>1. CASE i <= b - a
    <3>1. i \in 1..b - a /\ i \in 1..c - a
      BY <1>5, <2>1
    <3>2. w[i] = s[i] /\ s[i] = a + i - 1 /\ u[i] = a + i - 1
      BY <1>1, <1>3, <1>4, <2>1, <3>1
    <3> QED  BY <3>2
  <2>2. CASE ~(i <= b - a)
    <3> DEFINE j == i - (b - a)
    <3>1. j \in 1..c - b /\ i \in 1..c - a /\ b + j - 1 = a + i - 1
      BY <1>5, <2>2
    <3>2. w[i] = t[j] /\ u[i] = a + i - 1
      BY <1>1, <1>3, <1>4, <2>2, <3>1
    <3> HIDE DEF j
    <3>3. t[j] = b + j - 1
      BY <1>2, <3>1
    <3> QED  BY <3>1, <3>2, <3>3
  <2> QED  BY <2>1, <2>2
<1>7. w = u
  BY <1>3, <1>4, <1>5, <1>6, SeqEqual, Zenon
<1> QED  BY <1>7 DEF s, t, u, w

(* A list of consecutive offsets *)
LEMMA IsOffsets ==
  ASSUME NEW s \in Seq(Nat), NEW a \in Nat, NEW b \in Nat, a <= b, Len(s) = b - a,
         \A i \in 1..b - a : s[i] = a + i - 1
  PROVE  s = Offsets(a, b)
<1> DEFINE u == Offsets(a, b)
<1>1. u \in Seq(Nat) /\ Len(u) = b - a /\ \A i \in 1..b - a : u[i] = a + i - 1
  BY OffsetsAre, Zenon
<1> HIDE DEF u
<1>2. Len(s) = Len(u) /\ \A i \in 1..Len(s) : s[i] = u[i]
  BY <1>1
<1>3. s = u
  BY <1>1, <1>2, SeqEqual, Zenon
<1> QED  BY <1>3 DEF u

(* Scalars are narrow enough for a file, for the window and for a range. *)
Near(i, j) == j - i <= 4 /\ j - i <= FileBytes /\ j - i <= MemoryBytes /\ j - i <= ChunkBytes
EndsAt(text, j) == j = Len(text) + 1 \/ text[j] = TRUE
Scalars(text) ==
  /\ text # <<>> => text[1] = TRUE
  /\ \A i \in 1..Len(text) : \E j \in i + 1..Len(text) + 1 : Near(i, j) /\ EndsAt(text, j)

LEMMA ScalarsJoin ==
  ASSUME NEW s \in Seq(BOOLEAN), NEW t \in Seq(BOOLEAN), Scalars(s), Scalars(t)
  PROVE  s \o t \in Seq(BOOLEAN) /\ Scalars(s \o t)
<1> DEFINE u == s \o t
           n == Len(s)
           m == Len(t)
<1>1. n \in Nat /\ m \in Nat
  OBVIOUS
<1>2. /\ u \in Seq(BOOLEAN) /\ Len(u) = n + m
      /\ \A i \in 1..n + m : u[i] = IF i <= n THEN s[i] ELSE t[i - n]
  BY ConcatProperties, Zenon
<1>3. (s # <<>> => n > 0) /\ (t # <<>> => m > 0) /\ (n = 0 => s = <<>>) /\ (m = 0 => t = <<>>)
  OBVIOUS
<1>9. n = Len(s) /\ m = Len(t)
  OBVIOUS
<1> HIDE DEF u, n, m
<1>4. u # <<>> => u[1] = TRUE
  <2>1. CASE n > 0
    BY <1>1, <1>2, <1>9, <2>1 DEF Scalars
  <2>2. CASE n = 0 /\ m > 0
    BY <1>1, <1>2, <1>9, <2>2 DEF Scalars
  <2>3. CASE n = 0 /\ m = 0
    BY <1>2, <2>3
  <2>4. n > 0 \/ (n = 0 /\ m > 0) \/ (n = 0 /\ m = 0)
    BY <1>1
  <2> QED  BY <2>1, <2>2, <2>3, <2>4, Zenon
<1>5. ASSUME NEW i \in 1..n + m PROVE \E j \in i + 1..n + m + 1 : Near(i, j) /\ (j = n + m + 1 \/ u[j] = TRUE)
  <2>1. CASE i <= n
    <3>1. i \in 1..n
      BY <1>1, <2>1
    <3>2. PICK j \in i + 1..n + 1 : Near(i, j) /\ EndsAt(s, j)
      BY <1>9, <3>1 DEF Scalars
    <3>3. j \in i + 1..n + m + 1
      BY <1>1, <3>1
    <3>4. j = n + m + 1 \/ u[j] = TRUE
      <4>1. CASE j <= n
        <5>1. j \in 1..n + m /\ s[j] = TRUE
          BY <1>1, <1>9, <3>1, <3>2, <4>1 DEF EndsAt
        <5> QED  BY <1>2, <4>1, <5>1
      <4>2. CASE j = n + 1 /\ m > 0
        <5>1. t[1] = TRUE
          BY <1>9, <4>2 DEF Scalars
        <5>2. j \in 1..n + m /\ ~(j <= n) /\ j - n = 1
          BY <1>1, <4>2
        <5> QED  BY <1>2, <5>1, <5>2
      <4>3. CASE j = n + 1 /\ m = 0
        BY <4>3, <1>1
      <4>4. j <= n \/ (j = n + 1 /\ m > 0) \/ (j = n + 1 /\ m = 0)
        BY <1>1, <3>1
      <4> QED  BY <4>1, <4>2, <4>3, <4>4, Zenon
    <3> QED  BY <3>2, <3>3, <3>4
  <2>2. CASE ~(i <= n)
    <3> DEFINE k == i - n
    <3>1. k \in 1..m /\ i = k + n
      BY <1>1, <2>2
    <3>2. PICK l \in k + 1..m + 1 : Near(k, l) /\ EndsAt(t, l)
      BY <1>9, <3>1 DEF Scalars
    <3> HIDE DEF k
    <3> DEFINE j == l + n
    <3>3. j \in i + 1..n + m + 1 /\ j - i = l - k /\ ~(j <= n) /\ j - n = l /\ (l = m + 1 => j = n + m + 1)
          /\ (l # m + 1 => j \in 1..n + m)
      BY <1>1, <3>1
    <3>4. l = m + 1 \/ t[l] = TRUE
      BY <1>9, <3>2 DEF EndsAt
    <3> HIDE DEF j
    <3>5. j = n + m + 1 \/ u[j] = TRUE
      BY <1>2, <3>3, <3>4
    <3>6. Near(i, j)
      BY <3>2, <3>3 DEF Near
    <3> QED  BY <3>3, <3>5, <3>6
  <2> QED  BY <2>1, <2>2
<1>6. Scalars(u)
  BY <1>2, <1>4, <1>5 DEF EndsAt, Scalars
<1> QED  BY <1>2, <1>6 DEF u

(* A text that is cut between two scalars *)
LEMMA ScalarsCut ==
  ASSUME NEW s \in Seq(BOOLEAN), Scalars(s), NEW n \in 0..Len(s), n = Len(s) \/ s[n + 1] = TRUE
  PROVE  /\ SubSeq(s, 1, n) \in Seq(BOOLEAN) /\ Len(SubSeq(s, 1, n)) = n /\ Scalars(SubSeq(s, 1, n))
         /\ SubSeq(s, n + 1, Len(s)) \in Seq(BOOLEAN) /\ Scalars(SubSeq(s, n + 1, Len(s)))
<1> DEFINE t == SubSeq(s, 1, n)
           m == Len(s)
           u == SubSeq(s, n + 1, m)
           k == m - n
<1>1. n \in Nat /\ m \in Nat /\ n <= m /\ k \in Nat /\ m = n + k /\ m <= m /\ m = Len(s) /\ n <= Len(s) /\ k = m - n
  OBVIOUS
<1> HIDE DEF m, k
<1>2. t \in Seq(BOOLEAN) /\ Len(t) = n /\ \A i \in 1..n : t[i] = s[i]
  BY <1>1, FrontOf
<1>3. u \in Seq(BOOLEAN) /\ Len(u) = m - n /\ \A i \in 1..m - n : u[i] = s[n + i]
  BY <1>1, PartOf
<1> HIDE DEF t, u
<1>4. Len(t) = n /\ \A i \in 1..n : t[i] = s[i]
  BY <1>1, <1>2
<1>5. Len(u) = k /\ \A i \in 1..k : u[i] = s[n + i]
  BY <1>1, <1>3
<1>6. \A i \in 1..m : \E j \in i + 1..m + 1 : Near(i, j) /\ (j = m + 1 \/ s[j] = TRUE)
  BY <1>1 DEF Scalars, EndsAt
<1>7. Scalars(t)
  <2>1. t # <<>> => t[1] = TRUE
    <3>1. CASE n = 0
      BY <1>2, <1>4, <3>1
    <3>2. CASE n > 0
      BY <1>1, <1>4, <3>2 DEF Scalars
    <3>3. n = 0 \/ n > 0
      BY <1>1
    <3> QED  BY <3>1, <3>2, <3>3, Zenon
  <2>2. ASSUME NEW i \in 1..n PROVE \E j \in i + 1..n + 1 : Near(i, j) /\ EndsAt(t, j)
    <3>1. PICK j \in i + 1..m + 1 : Near(i, j) /\ (j = m + 1 \/ s[j] = TRUE)
      BY <1>1, <1>6
    <3>2. CASE j <= n
      BY <1>1, <1>4, <3>1, <3>2 DEF EndsAt
    <3>3. CASE ~(j <= n)
      <4>1. n + 1 \in i + 1..n + 1 /\ (n + 1) - i <= j - i
        BY <1>1, <3>3
      <4>2. Near(i, n + 1)
        BY <1>1, <3>1, <4>1, StreamLimits DEF Near
      <4>3. EndsAt(t, n + 1)
        BY <1>4 DEF EndsAt
      <4> QED  BY <4>1, <4>2, <4>3
    <3> QED  BY <3>2, <3>3
  <2> QED  BY <1>4, <2>1, <2>2 DEF Scalars
<1>8. Scalars(u)
  <2>1. u # <<>> => u[1] = TRUE
    <3>1. CASE k = 0
      BY <1>3, <1>5, <3>1
    <3>2. CASE k > 0
      BY <1>1, <1>5, <3>2
    <3>3. k = 0 \/ k > 0
      BY <1>1
    <3> QED  BY <3>1, <3>2, <3>3, Zenon
  <2>2. ASSUME NEW i \in 1..k PROVE \E j \in i + 1..k + 1 : Near(i, j) /\ EndsAt(u, j)
    <3> DEFINE p == n + i
    <3>1. p \in 1..m
      BY <1>1
    <3>2. PICK q \in p + 1..m + 1 : Near(p, q) /\ (q = m + 1 \/ s[q] = TRUE)
      BY <1>6, <3>1
    <3> DEFINE j == q - n
    <3>3. j \in i + 1..k + 1 /\ j - i = q - p /\ q = n + j /\ (j # k + 1 => j \in 1..k /\ q # m + 1)
      BY <1>1
    <3> HIDE DEF p, j
    <3>4. Near(i, j)
      BY <3>2, <3>3 DEF Near
    <3>5. EndsAt(u, j)
      BY <1>5, <3>2, <3>3 DEF EndsAt
    <3> QED  BY <3>3, <3>4, <3>5
  <2> QED  BY <1>5, <2>1, <2>2 DEF Scalars
<1> QED  BY <1>1, <1>2, <1>3, <1>4, <1>7, <1>8 DEF t, u, m

(* What a program writes is whole scalars. *)
LEMMA FlagsAre ==
  ASSUME NEW t \in Texts
  PROVE  Flags(t) \in Seq(BOOLEAN) /\ Scalars(Flags(t))
<1> DEFINE n == Len(t)
           pieces == [k \in 1..n |-> [i \in 1..t[k] |-> i = 1]]
<1>1. n \in Nat /\ t \in Seq(1..4)
      /\ \A k \in 1..n : /\ t[k] \in 1..4 /\ t[k] <= FileBytes /\ t[k] <= MemoryBytes /\ t[k] <= ChunkBytes
  BY StreamLimits
<1>2. PICK f : /\ f[0] = <<>> /\ Joined(pieces, n) = f[n]
               /\ \A i \in 1..n : f[i] = f[i - 1] \o pieces[i]
  <2> HIDE DEF pieces, n
  <2> QED  BY <1>1, JoinedIs, ZenonT(60)
<1>3. Flags(t) = f[n]
  BY <1>2, Zenon DEF Flags
<1>4. ASSUME NEW k \in 1..n PROVE pieces[k] \in Seq(BOOLEAN) /\ Scalars(pieces[k])
  <2> DEFINE w == t[k]
             p == [i \in 1..w |-> i = 1]
  <2>1. pieces[k] = p
    OBVIOUS
  <2>2. w \in 1..4 /\ w <= FileBytes /\ w <= MemoryBytes /\ w <= ChunkBytes
    BY <1>1
  <2> HIDE DEF w, pieces
  <2>3. p \in Seq(BOOLEAN) /\ Len(p) = w /\ p[1] = TRUE
    <3>1. \A i \in 1..w : (i = 1) \in BOOLEAN
      OBVIOUS
    <3>2. p \in [1..w -> BOOLEAN] /\ w \in Nat /\ 1 \in 1..w
      BY <2>2, <3>1
    <3>3. p[1] = (1 = 1)
      BY <3>2
    <3> HIDE DEF p
    <3>4. p \in Seq(BOOLEAN) /\ Len(p) = w
      BY <3>2
    <3> QED  BY <3>3, <3>4
  <2> HIDE DEF p
  <2>4. ASSUME NEW i \in 1..w PROVE w + 1 \in i + 1..w + 1 /\ Near(i, w + 1) /\ EndsAt(p, w + 1)
    BY <2>2, <2>3, StreamLimits DEF Near, EndsAt
  <2>5. Scalars(p)
    BY <2>3, <2>4 DEF Scalars
  <2> QED  BY <2>1, <2>3, <2>5
<1> HIDE DEF pieces
<1> DEFINE good == {i \in 0..n : f[i] \in Seq(BOOLEAN) /\ Scalars(f[i])}
<1>5. 0 \in good
  <2>1. <<>> \in Seq(BOOLEAN) /\ Scalars(<<>>)
    BY DEF Scalars
  <2>2. f[0] \in Seq(BOOLEAN) /\ Scalars(f[0])
    BY <1>2, <2>1, Zenon
  <2> QED  BY <1>1, <2>2
<1>6. ASSUME NEW i \in good, i < n PROVE i + 1 \in good
  <2>1. i + 1 \in 1..n /\ (i + 1) - 1 = i /\ i + 1 \in 0..n
    BY <1>1, <1>6
  <2>2. f[i + 1] = f[i] \o pieces[i + 1]
    BY <1>2, <2>1
  <2>3. pieces[i + 1] \in Seq(BOOLEAN) /\ Scalars(pieces[i + 1]) /\ f[i] \in Seq(BOOLEAN) /\ Scalars(f[i])
    BY <1>4, <2>1
  <2>4. f[i + 1] \in Seq(BOOLEAN) /\ Scalars(f[i + 1])
    BY <2>2, <2>3, ScalarsJoin
  <2> QED  BY <2>1, <2>4
<1>7. n \in good
  BY <1>1, <1>5, <1>6, UpTo
<1> QED  BY <1>3, <1>7

Begins(text, o) == o >= Len(text) \/ text[o + 1] = TRUE

(* Where the files end: at[0] is the end of the active one, at[n] the *)
(* beginning of file n - 1 and the end of file n.                     *)
FilesFit(d, at, text) ==
  /\ at \in [0..FileCount -> Nat] /\ at[0] = Len(text)
  /\ \A n \in 0..FileCount - 1 : at[n + 1] <= at[n] /\ d[n] = Offsets(at[n + 1], at[n])
  /\ \A n \in 0..FileCount : Begins(text, at[n])

Statuses == [eof : BOOLEAN, diskError : BOOLEAN, readError : BOOLEAN]
StreamTypes ==
  /\ disk \in [0..FileCount - 1 -> Seq(Nat)]
  /\ starts \in Seq(BOOLEAN) /\ rest \in Seq(BOOLEAN)
  /\ shared \in [first : Nat, end : Nat, status : Statuses]
  /\ tail \in [first : Nat, bytes : Seq(Nat)]
  /\ source \in [at : {"Wait", "Throttle", "Fill", "Ended"}, cursor : Nat, backlog : BOOLEAN,
                 disconnected : BOOLEAN, status : Statuses, failed : BOOLEAN]
  /\ event \in [from : Nat, first : Nat, available : Nat, bytes : Seq(Nat), status : Statuses,
                failed : BOOLEAN]
  /\ misjudged \in BOOLEAN

(* The window begins with the oldest byte of the files, or before it when *)
(* the files could not be listed after a failure.                         *)
WindowFits(at) == shared.first <= at[FileCount] /\ (misjudged \/ shared.first = at[FileCount])

StreamInv ==
  /\ StreamTypes
  /\ Scalars(starts) /\ Scalars(rest)
  /\ shared.end = Len(starts) /\ shared.first <= shared.end
  /\ source.cursor <= shared.end /\ tail.first <= shared.end
  /\ \E at \in [0..FileCount -> Nat] : FilesFit(disk, at, starts) /\ WindowFits(at)
  /\ TailIsSuffix /\ EventsAreFaithful

LEMMA BeginsAreStarts ==
  ASSUME starts \in Seq(BOOLEAN), NEW o \in Nat
  PROVE  StartsScalar(o) <=> Begins(starts, o)
<1>1. CASE o >= Len(starts)
  BY <1>1 DEF StartsScalar, Begins
<1>2. CASE ~(o >= Len(starts))
  BY <1>2 DEF StartsScalar, Begins
<1> QED  BY <1>1, <1>2

(* Where scalars begin stays so when more is written. *)
LEMMA BeginsStay ==
  ASSUME NEW s \in Seq(BOOLEAN), NEW t \in Seq(BOOLEAN), Scalars(t), NEW o \in Nat, o <= Len(s), Begins(s, o)
  PROVE  Begins(s \o t, o)
<1> DEFINE u == s \o t
           n == Len(s)
           m == Len(t)
<1>1. n \in Nat /\ m \in Nat /\ (m # 0 => t # <<>>) /\ n = Len(s)
  OBVIOUS
<1>2. /\ u \in Seq(BOOLEAN) /\ Len(u) = n + m
      /\ \A i \in 1..n + m : u[i] = IF i <= n THEN s[i] ELSE t[i - n]
  BY ConcatProperties, Zenon
<1> HIDE DEF u, n, m
<1>3. CASE o < n
  BY <1>1, <1>2, <1>3 DEF Begins, u
<1>4. CASE o = n /\ m # 0
  <2>1. t[1] = TRUE
    BY <1>1, <1>4 DEF Scalars
  <2>2. o + 1 \in 1..n + m /\ ~(o + 1 <= n) /\ (o + 1) - n = 1
    BY <1>1, <1>4
  <2>3. u[o + 1] = TRUE
    BY <1>2, <2>1, <2>2
  <2> QED  BY <2>3 DEF u, Begins
<1>5. CASE o = n /\ m = 0
  BY <1>1, <1>2, <1>5 DEF Begins, u
<1> QED  BY <1>1, <1>3, <1>4, <1>5

(* The files in their order are the end of what was written. *)
LEMMA RetainedAre ==
  ASSUME NEW d, NEW at, NEW text \in Seq(BOOLEAN), FilesFit(d, at, text)
  PROVE  /\ at[FileCount] \in Nat /\ at[FileCount] <= Len(text)
         /\ RetainedBytes(d) = Offsets(at[FileCount], Len(text))
<1> DEFINE m == FileCount
           pieces == [k \in 1..m |-> d[m - k]]
<1>1. m \in Nat /\ m # 0
  BY StreamLimits
<1>2. /\ at \in [0..m -> Nat] /\ at[0] = Len(text)
      /\ \A n \in 0..m - 1 : at[n + 1] <= at[n] /\ d[n] = Offsets(at[n + 1], at[n])
  BY Zenon DEF FilesFit
<1>3. RetainedBytes(d) = Joined(pieces, m)
  BY Zenon DEF RetainedBytes
<1>4. \A k \in 1..m : pieces[k] = d[m - k]
  OBVIOUS
<1> HIDE DEF pieces, m
<1>5. PICK f : /\ f[0] = <<>> /\ Joined(pieces, m) = f[m]
               /\ \A i \in 1..m : f[i] = f[i - 1] \o pieces[i]
  BY <1>1, JoinedIs, ZenonT(60)
<1> DEFINE good == {i \in 0..m : at[m] <= at[m - i] /\ f[i] = Offsets(at[m], at[m - i])}
<1>6. 0 \in good
  BY <1>1, <1>2, <1>5, OffsetsNone
<1>7. ASSUME NEW i \in good, i < m PROVE i + 1 \in good
  <2> DEFINE a == at[m]
             n == m - (i + 1)
             b == at[n + 1]
             c == at[n]
  <2>1. i + 1 \in 1..m /\ (i + 1) - 1 = i /\ i + 1 \in 0..m /\ n \in 0..m - 1 /\ n + 1 = m - i
        /\ m \in 0..m /\ n \in 0..m /\ n + 1 \in 0..m
    BY <1>1, <1>7
  <2>2. a \in Nat /\ b \in Nat /\ c \in Nat
    BY <1>2, <2>1
  <2>3. a <= b /\ f[i] = Offsets(a, b)
    BY <2>1
  <2>4. b <= c /\ d[n] = Offsets(b, c)
    BY <1>2, <2>1
  <2>5. f[i + 1] = f[i] \o d[n]
    BY <1>4, <1>5, <2>1
  <2> HIDE DEF a, b, c
  <2>6. f[i + 1] = Offsets(a, c) /\ a <= c
    <3>1. Offsets(a, b) \o Offsets(b, c) = Offsets(a, c)
      BY <2>2, <2>3, <2>4, OffsetsJoin
    <3> QED  BY <2>2, <2>3, <2>4, <2>5, <3>1
  <2> QED  BY <2>1, <2>6 DEF a, c
<1>8. m \in good
  BY <1>1, <1>6, <1>7, UpTo
<1>9. m - m = 0 /\ m \in 0..m
  BY <1>1
<1> QED  BY <1>2, <1>3, <1>5, <1>8, <1>9 DEF m

(* A rotation empties a file; each of the others is the end of the next. *)
RotatedAt(at, i) == [n \in 0..FileCount |-> IF n <= i THEN at[n] ELSE at[n - 1]]

LEMMA RotatedFits ==
  ASSUME NEW d \in [0..FileCount - 1 -> Seq(Nat)], NEW at, NEW text \in Seq(BOOLEAN), FilesFit(d, at, text),
         NEW i \in 0..FileCount - 1
  PROVE  /\ Rotated(d, i) \in [0..FileCount - 1 -> Seq(Nat)]
         /\ FilesFit(Rotated(d, i), RotatedAt(at, i), text)
         /\ RotatedAt(at, i) \in [0..FileCount -> Nat]
         /\ RotatedAt(at, i)[FileCount] = at[FileCount - 1]
<1> DEFINE m == FileCount
           new == Rotated(d, i)
           then == RotatedAt(at, i)
<1>1. m \in Nat /\ m # 0 /\ i \in 0..m - 1
  BY StreamLimits
<1>2. /\ at \in [0..m -> Nat] /\ at[0] = Len(text)
      /\ \A n \in 0..m - 1 : at[n + 1] <= at[n] /\ d[n] = Offsets(at[n + 1], at[n])
      /\ \A n \in 0..m : Begins(text, at[n])
  BY Zenon DEF FilesFit
<1>3. /\ then = [n \in 0..m |-> IF n <= i THEN at[n] ELSE at[n - 1]]
      /\ new = [n \in 0..m - 1 |-> IF n > i THEN d[n - 1] ELSE IF n = i THEN <<>> ELSE d[n]]
  BY DEF RotatedAt, Rotated
<1>9. d \in [0..m - 1 -> Seq(Nat)]
  OBVIOUS
<1> HIDE DEF m, new, then
<1>4. \A n \in 0..m : /\ n <= i => then[n] = at[n]
                      /\ ~(n <= i) => then[n] = at[n - 1] /\ n - 1 \in 0..m
  BY <1>1, <1>3
<1>5. then \in [0..m -> Nat] /\ \A n \in 0..m : Begins(text, then[n])
  BY <1>2, <1>3, <1>4
<1>6. ASSUME NEW n \in 0..m - 1
      PROVE  /\ new[n] \in Seq(Nat) /\ then[n + 1] <= then[n]
             /\ new[n] = Offsets(then[n + 1], then[n])
  <2>1. n \in 0..m /\ n + 1 \in 0..m /\ (n + 1) - 1 = n
    BY <1>1
  <2>2. CASE n < i
    <3>1. n <= i /\ n + 1 <= i
      BY <1>1, <2>2
    <3>2. new[n] = d[n] /\ then[n + 1] = at[n + 1] /\ then[n] = at[n]
      BY <1>1, <1>3, <1>4, <2>1, <2>2, <3>1
    <3> QED  BY <1>2, <1>9, <3>2
  <2>3. CASE n = i
    <3>1. new[n] = <<>> /\ then[n + 1] = at[n] /\ then[n] = at[n] /\ at[n] \in Nat
      BY <1>1, <1>2, <1>3, <1>4, <2>1, <2>3
    <3>2. Offsets(at[n], at[n]) = <<>> /\ <<>> \in Seq(Nat)
      BY <3>1, OffsetsNone
    <3> QED  BY <3>1, <3>2
  <2>4. CASE n > i
    <3>1. n - 1 \in 0..m - 1 /\ (n - 1) + 1 = n /\ ~(n <= i) /\ ~(n + 1 <= i)
      BY <1>1, <2>4
    <3>2. new[n] = d[n - 1] /\ then[n + 1] = at[n] /\ then[n] = at[n - 1]
      BY <1>1, <1>3, <1>4, <2>1, <2>4, <3>1
    <3> DEFINE k == n - 1
    <3> HIDE DEF k
    <3>3. at[k + 1] <= at[k] /\ d[k] = Offsets(at[k + 1], at[k]) /\ d[k] \in Seq(Nat)
      BY <1>2, <1>9, <3>1 DEF k
    <3> QED  BY <3>1, <3>2, <3>3 DEF k
  <2> QED  BY <1>1, <2>2, <2>3, <2>4
<1>7. new \in [0..m - 1 -> Seq(Nat)]
  BY <1>3, <1>6
<1>8. then[0] = Len(text) /\ then[m] = at[m - 1]
  BY <1>1, <1>2, <1>4
<1>10. FilesFit(new, then, text)
  BY <1>5, <1>6, <1>8, Zenon DEF FilesFit, m
<1> QED  BY <1>5, <1>7, <1>8, <1>10 DEF new, then, m

LEMMA GreatestExists ==
  ASSUME NEW n \in Nat, NEW at \in SUBSET (0..n), at # {}
  PROVE  \E m \in at : \A j \in at : j <= m
<1> DEFINE next == {k + 1 : k \in at}
           big == n + 1
<1>0. \A k \in at : k + 1 \in 1..big
  OBVIOUS
<1>1. big \in Nat /\ next \in SUBSET (1..big) /\ next # {}
  <2> HIDE DEF big
  <2>1. next \in SUBSET (1..big) /\ next # {}
    BY <1>0
  <2> QED  BY <2>1 DEF big
<1>2. PICK m \in next : \A j \in next : j <= m
  <2> HIDE DEF next, big
  <2> QED  BY <1>1, LargestExists
<1>3. PICK k \in at : m = k + 1
  BY <1>2
<1>4. \A j \in at : j + 1 \in next /\ j \in Nat /\ k \in Nat
  OBVIOUS
<1> HIDE DEF next
<1>5. \A j \in at : j <= k
  BY <1>2, <1>3, <1>4
<1> QED  BY <1>5

(* What read_snapshot answers at an offset of the stream *)
LEMMA ReadIs ==
  ASSUME StreamInv, NEW o \in Nat, o <= shared.end, NEW s, s = ReadAt(o, ChunkBytes)
  PROVE  /\ StartsScalar(o) => s.ok \/ misjudged
         /\ s.ok => /\ s.first \in Nat /\ s.bytes \in Seq(Nat) /\ s.first >= o
                    /\ s.first = o \/ s.first = shared.first
                    /\ s.bytes = Offsets(s.first, s.first + Len(s.bytes))
                    /\ s.first + Len(s.bytes) <= shared.end
                    /\ StartsScalar(s.first + Len(s.bytes))
                    /\ s.first + Len(s.bytes) > s.first \/ s.first = shared.end
<1> DEFINE low == shared.first
           end == shared.end
           bytes == RetainedBytes(disk)
           first == IF o > low THEN o ELSE low
           from == first - low
           to == Least(from + ChunkBytes, Len(bytes))
           cut == SubSeq(bytes, from + 1, to)
           whole == {k \in 0..Len(cut) : StartsScalar(first + k)}
           k == CHOOSE k \in whole : \A j \in whole : j <= k
<1>1. /\ low \in Nat /\ end \in Nat /\ low <= end /\ end = Len(starts) /\ starts \in Seq(BOOLEAN)
      /\ ChunkBytes \in Nat
  BY StreamLimits DEF StreamInv, StreamTypes
<1>2. PICK at \in [0..FileCount -> Nat] : FilesFit(disk, at, starts) /\ WindowFits(at)
  BY DEF StreamInv
<1>3. /\ at[FileCount] \in Nat /\ at[FileCount] <= end /\ bytes = Offsets(at[FileCount], end)
      /\ Len(bytes) = end - at[FileCount]
  <2>1. at[FileCount] \in Nat /\ at[FileCount] <= Len(starts)
        /\ bytes = Offsets(at[FileCount], Len(starts))
    BY <1>1, <1>2, RetainedAre, Zenon
  <2> DEFINE a == at[FileCount]
  <2> HIDE DEF a, bytes
  <2>2. a \in Nat /\ a <= end /\ bytes = Offsets(a, end)
    BY <1>1, <2>1 DEF a
  <2> HIDE DEF end
  <2>3. Len(bytes) = end - a
    BY <1>1, <2>2, OffsetsAre
  <2> QED  BY <2>2, <2>3 DEF a
<1>4. low <= at[FileCount] /\ (misjudged \/ low = at[FileCount])
      /\ Begins(starts, at[FileCount])
  BY <1>2, StreamLimits DEF WindowFits, FilesFit
<1>5. /\ first \in Nat /\ first <= end /\ from \in Nat /\ first >= o /\ low + from = first
      /\ (first = o \/ first = low) /\ first = Least(first, end)
  BY <1>1 DEF Least
<1>6. s = IF Len(bytes) # end - low \/ ~StartsScalar(first) THEN Unreadable
          ELSE [ok |-> TRUE, first |-> first, bytes |-> SubSeq(cut, 1, k)]
  <2>1. first = Least(first, end)
    BY <1>1, <1>5 DEF Least
  <2> QED  BY <2>1, Zenon DEF ReadAt, OldestFirst
<1> HIDE DEF low, end, bytes, first, from, to, cut, whole, k
<1>7. ASSUME StartsScalar(o) PROVE s.ok \/ misjudged
  <2>1. SUFFICES ASSUME ~misjudged PROVE s.ok
    OBVIOUS
  <2>2. Len(bytes) = end - low
    BY <1>3, <1>4, <2>1
  <2>3. StartsScalar(first)
    <3>1. first = o \/ first = at[FileCount]
      BY <1>4, <1>5, <2>1
    <3> QED  BY <1>1, <1>3, <1>4, <1>7, <3>1, BeginsAreStarts
  <2> QED  BY <1>6, <2>2, <2>3
<1>8. ASSUME s.ok
      PROVE  /\ s.first \in Nat /\ s.bytes \in Seq(Nat) /\ s.first >= o
             /\ s.first = o \/ s.first = low
             /\ s.bytes = Offsets(s.first, s.first + Len(s.bytes))
             /\ s.first + Len(s.bytes) <= end
             /\ StartsScalar(s.first + Len(s.bytes))
             /\ s.first + Len(s.bytes) > s.first \/ s.first = end
  <2>1. Len(bytes) = end - low /\ StartsScalar(first)
        /\ s = [ok |-> TRUE, first |-> first, bytes |-> SubSeq(cut, 1, k)]
    BY <1>6, <1>8 DEF Unreadable
  <2>2. low = at[FileCount] /\ bytes = Offsets(low, end)
    BY <1>1, <1>3, <2>1
  <2>3. to \in Nat /\ from <= to /\ to <= end - low /\ (to = end - low \/ to = from + ChunkBytes)
    BY <1>1, <1>5, <2>1 DEF to, Least
  <2> DEFINE n == to - from
             upper == low + to
  <2>4. n \in Nat /\ first \in Nat /\ upper \in Nat /\ first <= upper /\ upper - first = n /\ upper <= end
        /\ (upper = end \/ n = ChunkBytes)
    BY <1>1, <1>5, <2>3
  <2>5. \A x \in 1..end - low : bytes[x] = low + x - 1
    BY <1>1, <2>2, OffsetsAre
  <2>6. cut \in Seq(Nat) /\ Len(cut) = n /\ \A x \in 1..n : cut[x] = first + x - 1
    <3>1. bytes \in Seq(Nat) /\ to <= Len(bytes)
      BY <1>1, <2>1, <2>2, <2>3, OffsetsAre
    <3>2. cut \in Seq(Nat) /\ Len(cut) = to - from /\ \A x \in 1..to - from : cut[x] = bytes[from + x]
      BY <1>5, <2>3, <3>1, PartOf DEF cut
    <3>3. ASSUME NEW x \in 1..n PROVE cut[x] = first + x - 1
      <4>1. from + x \in 1..end - low /\ low + (from + x) - 1 = first + x - 1
        BY <1>1, <1>5, <2>3
      <4> QED  BY <2>5, <3>2, <4>1
    <3> QED  BY <3>2, <3>3
  <2> HIDE DEF n, upper
  <2>7. k \in whole /\ \A j \in whole : j <= k
    <3>1. 0 \in whole
      BY <1>5, <2>1, <2>4, <2>6 DEF whole
    <3>2. whole \in SUBSET (0..n)
      BY <2>6 DEF whole
    <3>3. \E m \in whole : \A j \in whole : j <= m
      BY <2>4, <3>1, <3>2, GreatestExists
    <3> QED  BY <3>3, Zenon DEF k
  <2>8. k \in 0..n /\ StartsScalar(first + k)
    BY <2>6, <2>7 DEF whole
  <2> DEFINE w == SubSeq(cut, 1, k)
             next == first + k
  <2>9. w \in Seq(Nat) /\ Len(w) = k /\ \A x \in 1..k : w[x] = cut[x]
    BY <2>4, <2>6, <2>8, FrontOf
  <2>10. w = Offsets(first, next)
    <3>1. next \in Nat /\ first <= next /\ next - first = k
      BY <2>4, <2>8
    <3>2. \A x \in 1..k : w[x] = first + x - 1
      BY <2>4, <2>6, <2>8, <2>9
    <3> HIDE DEF w, next
    <3> QED  BY <2>4, <2>9, <3>1, <3>2, IsOffsets
  <2>11. next \in Nat /\ next <= end
    BY <1>1, <2>4, <2>8
  <2>12. k > 0 \/ first = end
    <3> SUFFICES ASSUME first # end PROVE k > 0
      BY <1>1
    <3>1. first + 1 \in 1..Len(starts)
      BY <1>1, <1>5
    <3>2. PICK j \in (first + 1) + 1..Len(starts) + 1 : Near(first + 1, j) /\ EndsAt(starts, j)
      BY <3>1 DEF StreamInv, Scalars
    <3> DEFINE m == j - (first + 1)
    <3>3. m \in Nat /\ m > 0 /\ m <= ChunkBytes /\ first + m <= end /\ j = (first + m) + 1 /\ first + m \in Nat
      BY <1>1, <1>5, <3>2 DEF Near
    <3> HIDE DEF m
    <3>4. StartsScalar(first + m)
      <4>1. Begins(starts, first + m)
        BY <1>1, <3>2, <3>3 DEF EndsAt, Begins
      <4> QED  BY <1>1, <3>3, <4>1, BeginsAreStarts
    <3>5. m <= n
      BY <1>1, <1>5, <2>4, <3>3
    <3>6. m \in whole
      BY <2>6, <3>3, <3>4, <3>5 DEF whole
    <3> QED  BY <2>7, <2>8, <3>3, <3>6
  <2> HIDE DEF w
  <2>13. s.first = first /\ s.bytes = w
    <3>1. s = [ok |-> TRUE, first |-> first, bytes |-> w]
      BY <2>1, Zenon DEF w
    <3> QED  BY <3>1
  <2> QED  BY <1>5, <2>8, <2>9, <2>10, <2>11, <2>12, <2>13
<1> QED  BY <1>7, <1>8 DEF low, end

(* A stream that keeps its invariant is read faithfully. *)
LEMMA InvReadsFaithfully == StreamInv => ReadsAreFaithful
<1> SUFFICES ASSUME StreamInv PROVE ReadsAreFaithful
  OBVIOUS
<1>1. ASSUME NEW o \in 0..shared.end, StartsScalar(o)
      PROVE  LET s == ReadAt(o, ChunkBytes)
                 next == s.first + Len(s.bytes)
             IN  /\ s.ok \/ misjudged
                 /\ s.ok => /\ s.bytes = Offsets(s.first, next) /\ s.first >= o
                            /\ StartsScalar(next)
                            /\ next > s.first \/ s.first = shared.end
  <2> DEFINE s == ReadAt(o, ChunkBytes)
  <2>1. o \in Nat /\ o <= shared.end
    BY DEF StreamInv, StreamTypes
  <2> HIDE DEF s
  <2>2. s = ReadAt(o, ChunkBytes)
    BY DEF s
  <2> QED  BY <1>1, <2>1, <2>2, ReadIs
<1>2. RangesAreFaithful
  BY <1>1, Zenon DEF RangesAreFaithful, StreamInv
<1> QED  BY <1>2 DEF ReadsAreFaithful, StreamInv

(* BoundedByteTail::append_utf8 keeps the end of the stream, from where a *)
(* scalar begins and as much as there is room for.                        *)
LEMMA AppendedIs ==
  ASSUME StreamInv, NEW flags \in Seq(BOOLEAN), Scalars(flags),
         NEW t, t = Appended(tail, flags, Len(starts)), NEW more, more = starts \o flags
  PROVE  /\ t \in [first : Nat, bytes : Seq(Nat)] /\ t.first <= Len(more)
         /\ t.bytes = Offsets(t.first, Len(more))
         /\ Len(t.bytes) <= MemoryBytes /\ Begins(more, t.first)
         /\ t.first = 0 \/ Len(t.bytes) + 4 > MemoryBytes
<1> DEFINE at == Len(starts)
           n == Len(flags)
           begins(o) == IF o >= at THEN flags[o - at + 1] ELSE StartsScalar(o)
           all == IF n >= MemoryBytes THEN Offsets(at, at + n) ELSE tail.bytes \o Offsets(at, at + n)
           over == IF Len(all) > MemoryBytes THEN Len(all) - MemoryBytes ELSE 0
           whole == {k \in over..Len(all) : k = Len(all) \/ over = 0 \/ begins(all[k + 1])}
           drop == CHOOSE k \in whole : \A j \in whole : k <= j
<1>25. t = [first |-> at + n - (Len(all) - drop), bytes |-> SubSeq(all, drop + 1, Len(all))]
  BY DEF Appended
<1> DEFINE end == at + n
           size == Len(all)
           old == tail.first
           wide == n >= MemoryBytes
           base == IF wide THEN at ELSE old
<1> HIDE DEF all, over, whole, drop
<1>3. t = [first |-> at + n - (size - drop), bytes |-> SubSeq(all, drop + 1, size)]
  BY <1>25
<1>26. /\ whole = {k \in over..size : k = size \/ over = 0 \/ begins(all[k + 1])}
       /\ over = IF size > MemoryBytes THEN size - MemoryBytes ELSE 0
       /\ size = Len(all)
  BY DEF over, whole
<1>27. all = IF wide THEN Offsets(at, end) ELSE tail.bytes \o Offsets(at, end)
  BY DEF all
<1>1. /\ starts \in Seq(BOOLEAN) /\ Scalars(starts) /\ MemoryBytes \in Nat
      /\ at \in Nat /\ n \in Nat /\ end \in Nat /\ at <= end
      /\ tail \in [first : Nat, bytes : Seq(Nat)]
      /\ old \in Nat /\ old <= at /\ tail.bytes = Offsets(old, at)
      /\ Len(tail.bytes) <= MemoryBytes /\ StartsScalar(old)
      /\ old = 0 \/ Len(tail.bytes) + 4 > MemoryBytes
  <2>1. /\ starts \in Seq(BOOLEAN) /\ Scalars(starts) /\ MemoryBytes \in Nat
        /\ tail \in [first : Nat, bytes : Seq(Nat)]
        /\ tail.first <= Len(starts) /\ tail.bytes = Offsets(tail.first, Len(starts))
        /\ Len(tail.bytes) <= MemoryBytes /\ StartsScalar(tail.first)
        /\ tail.first = 0 \/ Len(tail.bytes) + 4 > MemoryBytes
    BY StreamLimits DEF StreamInv, StreamTypes, TailIsSuffix
  <2>2. at \in Nat /\ n \in Nat /\ end \in Nat /\ at <= end
    BY <2>1
  <2> QED  BY <2>1, <2>2
<1>2. /\ more \in Seq(BOOLEAN) /\ Scalars(more) /\ Len(more) = end
      /\ \A i \in 1..end : more[i] = IF i <= at THEN starts[i] ELSE flags[i - at]
  BY <1>1, ScalarsJoin, ConcatProperties
<1>20. (old \in Nat /\ tail.bytes \in Seq(Nat)) /\ end = at + n
  BY <1>1
<1>4. /\ base \in Nat /\ base <= end /\ all = Offsets(base, end)
      /\ base <= at /\ Begins(starts, base)
  <2>1. CASE wide
    BY <1>1, <1>27, <2>1 DEF Begins
  <2>2. CASE ~wide
    <3>1. Offsets(old, at) \o Offsets(at, end) = Offsets(old, end)
      BY <1>1, OffsetsJoin
    <3>2. Begins(starts, old)
      BY <1>1, BeginsAreStarts
    <3> HIDE DEF old, at, end, wide
    <3>3. base = old /\ all = Offsets(old, end)
      BY <1>1, <1>27, <2>2, <3>1
    <3> QED  BY <1>1, <2>2, <3>2, <3>3
  <2> QED  BY <2>1, <2>2
<1>5. Begins(more, base)
  <2> HIDE DEF base
  <2> QED  BY <1>1, <1>4, BeginsStay
<1>21. (wide <=> n >= MemoryBytes) /\ (wide => base = at) /\ (~wide => base = old) /\ at = Len(starts)
  OBVIOUS
<1> HIDE DEF base, all, old, at, n, end, wide
<1>22. Len(tail.bytes) = at - old
  BY <1>1, OffsetsAre
<1>7. size = end - base /\ \A i \in 1..end - base : all[i] = base + i - 1
  BY <1>1, <1>4, OffsetsAre
<1>6. ~wide => size = Len(tail.bytes) + n
  BY <1>1, <1>7, <1>20, <1>21, <1>22
<1>8. size \in Nat /\ over \in Nat /\ over <= size /\ size - over <= MemoryBytes
      /\ (over = 0 \/ over = size - MemoryBytes)
  BY <1>1, <1>4, <1>7, <1>26
<1>9. ASSUME NEW k \in 0..size, k # size PROVE begins(all[k + 1]) <=> Begins(more, base + k)
  <2>1. all[k + 1] = base + k /\ base + k \in Nat /\ base + k < end /\ (base + k) + 1 \in 1..end
    <3>1. k \in Nat /\ k < end - base /\ k + 1 \in 1..end - base /\ base + (k + 1) - 1 = base + k
      BY <1>1, <1>4, <1>7, <1>8, <1>9
    <3>2. all[k + 1] = base + (k + 1) - 1
      BY <1>7, <3>1
    <3> QED  BY <1>1, <1>4, <3>1, <3>2
  <2> DEFINE o == base + k
  <2>2. o \in Nat /\ o < end /\ o + 1 \in 1..end
    BY <2>1
  <2>3. begins(all[k + 1]) <=> begins(o)
    BY <2>1, Zenon
  <2> HIDE DEF o
  <2>4. more[o + 1] \in BOOLEAN
    BY <1>2, <2>2
  <2>5. Begins(more, o) <=> more[o + 1]
    BY <1>2, <2>2, <2>4 DEF Begins
  <2>6. begins(o) <=> more[o + 1]
    <3>1. CASE o >= at
      <4>1. ~(o + 1 <= at) /\ (o + 1) - at = o - at + 1
        BY <1>1, <2>2, <3>1
      <4>2. more[o + 1] = flags[o - at + 1]
        BY <1>2, <2>2, <4>1
      <4> QED  BY <3>1, <4>2
    <3>2. CASE ~(o >= at)
      <4>1. o + 1 <= at /\ ~(o >= Len(starts))
        BY <1>1, <1>21, <2>2, <3>2
      <4>2. more[o + 1] = starts[o + 1]
        BY <1>2, <2>2, <4>1
      <4> QED  BY <3>2, <4>1, <4>2 DEF StartsScalar
    <3> QED  BY <3>1, <3>2
  <2> QED  BY <2>3, <2>5, <2>6, Zenon DEF o
<1> HIDE DEF begins, over, size
<1>10. \A k \in whole : k \in over..size /\ (k = size \/ over = 0 \/ Begins(more, base + k))
  BY <1>8, <1>9, <1>26
<1>11. \A k \in over..size : k = size \/ Begins(more, base + k) => k \in whole
  BY <1>8, <1>9, <1>26
<1>12. drop \in whole /\ \A j \in whole : drop <= j
  <2>1. size \in whole
    BY <1>8, <1>26
  <2>2. whole \in SUBSET Nat
    BY <1>8, <1>26
  <2>3. \E k \in whole : \A j \in whole : k <= j
    BY <2>1, <2>2, SmallestExists
  <2> QED  BY <2>3, Zenon DEF drop
<1>13. over = 0 => drop = 0
  BY <1>8, <1>10, <1>12, <1>26
<1> HIDE DEF whole, drop
<1>14. drop \in Nat /\ over <= drop /\ drop <= size
  BY <1>8, <1>10, <1>12
<1> DEFINE first == base + drop
<1>15. /\ first \in Nat /\ first <= end /\ end - first = size - drop
       /\ end - (size - drop) = first
  BY <1>1, <1>4, <1>7, <1>14
<1>16. Begins(more, first)
  <2>1. CASE drop = size
    <3>1. first = Len(more)
      BY <1>1, <1>2, <1>4, <1>7, <2>1
    <3> QED  BY <1>2, <3>1 DEF Begins
  <2>2. CASE over = 0
    BY <1>4, <1>5, <1>13, <2>2
  <2> QED  BY <1>10, <1>12, <2>1, <2>2
<1> DEFINE kept == SubSeq(all, drop + 1, size)
<1>17. kept \in Seq(Nat) /\ Len(kept) = size - drop /\ kept = Offsets(first, end)
  <2>1. all \in Seq(Nat) /\ size <= Len(all)
    BY <1>1, <1>4, <1>8, OffsetsAre DEF size
  <2>2. kept \in Seq(Nat) /\ Len(kept) = size - drop /\ \A x \in 1..size - drop : kept[x] = all[drop + x]
    BY <1>8, <1>14, <2>1, PartOf, SMTT(60)
  <2>3. ASSUME NEW x \in 1..size - drop PROVE kept[x] = first + x - 1
    <3>1. drop + x \in 1..end - base /\ base + (drop + x) - 1 = first + x - 1
      BY <1>1, <1>4, <1>7, <1>14
    <3> QED  BY <1>7, <2>2, <3>1
  <2> HIDE DEF kept, first
  <2>4. \A x \in 1..end - first : kept[x] = first + x - 1
    BY <1>15, <2>3
  <2>5. kept \in Seq(Nat) /\ first \in Nat /\ end \in Nat /\ first <= end /\ Len(kept) = end - first
    BY <1>1, <1>15, <2>2
  <2>6. kept = Offsets(first, end)
    BY <2>4, <2>5, IsOffsets, Zenon
  <2> QED  BY <2>2, <2>6
<1>18. first = 0 \/ (size - drop) + 4 > MemoryBytes
  <2>1. CASE over = 0 /\ wide
    BY <1>1, <1>4, <1>7, <1>13, <1>20, <1>21, <2>1
  <2>2. CASE over = 0 /\ ~wide
    BY <1>1, <1>4, <1>6, <1>7, <1>13, <1>20, <1>21, <2>2
  <2>3. CASE over # 0
    <3> DEFINE p == base + over
    <3>1. p \in 1..end /\ over = size - MemoryBytes
      BY <1>1, <1>4, <1>7, <1>8, <2>3
    <3>2. PICK j \in p + 1..end + 1 : Near(p, j) /\ EndsAt(more, j)
      BY <1>2, <3>1 DEF Scalars
    <3> DEFINE q == j - 1
               k == q - base
    <3>3. q \in Nat /\ p <= q /\ q <= p + 3 /\ q <= end /\ j = q + 1
      BY <1>1, <3>1, <3>2, SMTT(60) DEF Near
    <3>4. Begins(more, q)
      <4> HIDE DEF q
      <4> QED  BY <1>1, <1>2, <3>2, <3>3 DEF EndsAt, Begins
    <3>5. k \in over..size /\ base + k = q /\ k <= over + 3
      BY <1>1, <1>4, <1>7, <1>8, <3>3
    <3> HIDE DEF q, k
    <3>6. k \in whole
      BY <1>11, <3>4, <3>5
    <3>7. drop <= k
      BY <1>12, <3>6
    <3> QED  BY <1>1, <1>8, <1>14, <3>1, <3>5, <3>7
  <2> QED  BY <2>1, <2>2, <2>3
<1>19. t = [first |-> first, bytes |-> kept]
  <2> HIDE DEF kept, first
  <2>1. at + n - (size - drop) = first
    BY <1>1, <1>14, <1>15, <1>20, <1>8
  <2> QED  BY <1>3, <2>1, Zenon DEF kept
<1> HIDE DEF kept, first
<1>23. t \in [first : Nat, bytes : Seq(Nat)] /\ t.first = first /\ t.bytes = kept
  BY <1>15, <1>17, <1>19
<1>24. Len(kept) <= MemoryBytes /\ (first = 0 \/ Len(kept) + 4 > MemoryBytes)
  BY <1>1, <1>8, <1>14, <1>17, <1>18
<1> QED  BY <1>2, <1>8, <1>15, <1>16, <1>17, <1>23, <1>24

(* Who only reads, or ends, leaves what was written as it is. *)
LEMMA OnlyReaders ==
  ASSUME StreamInv, UNCHANGED <<disk, starts, tail, misjudged>>,
         shared' \in [first : Nat, end : Nat, status : Statuses],
         shared'.first = shared.first, shared'.end = shared.end,
         rest' \in Seq(BOOLEAN), Scalars(rest'),
         source' \in [at : {"Wait", "Throttle", "Fill", "Ended"}, cursor : Nat, backlog : BOOLEAN,
                      disconnected : BOOLEAN, status : Statuses, failed : BOOLEAN],
         source'.cursor <= shared.end,
         event' \in [from : Nat, first : Nat, available : Nat, bytes : Seq(Nat),
                     status : Statuses, failed : BOOLEAN],
         EventsAreFaithful'
  PROVE  StreamInv'
<1>1. StreamTypes'
  BY DEF StreamInv, StreamTypes
<1>2. Scalars(starts') /\ Scalars(rest')
  BY DEF StreamInv, Scalars, EndsAt
<1>3. /\ shared'.end = Len(starts') /\ shared'.first <= shared'.end
      /\ source'.cursor <= shared'.end /\ tail'.first <= shared'.end
  BY DEF StreamInv
<1>4. \E at \in [0..FileCount -> Nat] : FilesFit(disk', at, starts') /\ WindowFits(at)'
  BY DEF StreamInv, WindowFits
<1>5. TailIsSuffix'
  BY DEF StreamInv, TailIsSuffix, StartsScalar
<1> QED  BY <1>1, <1>2, <1>3, <1>4, <1>5 DEF StreamInv

LEMMA StreamStarts == StreamInit => StreamInv
<1> SUFFICES ASSUME StreamInit PROVE StreamInv
  OBVIOUS
<1>0. FileCount \in Nat /\ MemoryBytes \in Nat /\ FileCount > 0
  BY StreamLimits
<1>1. Status \in Statuses
  BY DEF Status, Statuses
<1>2. StreamTypes
  <2>1. disk \in [0..FileCount - 1 -> Seq(Nat)]
    BY <1>0 DEF StreamInit
  <2>2. shared \in [first : Nat, end : Nat, status : Statuses]
    BY <1>1 DEF StreamInit
  <2>3. event \in [from : Nat, first : Nat, available : Nat, bytes : Seq(Nat),
                   status : Statuses, failed : BOOLEAN]
    BY <1>1 DEF StreamInit, NoEvent
  <2>4. source \in [at : {"Wait", "Throttle", "Fill", "Ended"}, cursor : Nat, backlog : BOOLEAN,
                    disconnected : BOOLEAN, status : Statuses, failed : BOOLEAN]
    BY <1>1 DEF StreamInit
  <2>5. /\ starts \in Seq(BOOLEAN) /\ rest \in Seq(BOOLEAN)
        /\ tail \in [first : Nat, bytes : Seq(Nat)] /\ misjudged \in BOOLEAN
    <3>1. starts = <<>> /\ rest = <<>> /\ tail = [first |-> 0, bytes |-> <<>>] /\ misjudged = FALSE
      BY DEF StreamInit
    <3>2. \A S : <<>> \in Seq(S)
      BY EmptySeq
    <3>3. starts \in Seq(BOOLEAN) /\ rest \in Seq(BOOLEAN) /\ misjudged \in BOOLEAN
      BY <3>1, <3>2
    <3>4. tail \in [first : Nat, bytes : Seq(Nat)]
      BY <3>1
    <3> QED  BY <3>3, <3>4
  <2> QED  BY <2>1, <2>2, <2>3, <2>4, <2>5 DEF StreamTypes
<1>3. Scalars(starts) /\ Scalars(rest)
  BY DEF StreamInit, Scalars
<1>4. \E at \in [0..FileCount -> Nat] : FilesFit(disk, at, starts) /\ WindowFits(at)
  <2> DEFINE at == [n \in 0..FileCount |-> 0]
  <2>1. /\ at \in [0..FileCount -> Nat] /\ at[0] = 0 /\ at[FileCount] = 0
        /\ \A n \in 0..FileCount : at[n] = 0
        /\ \A n \in 0..FileCount - 1 : n + 1 \in 0..FileCount /\ n \in 0..FileCount
    BY <1>0
  <2> HIDE DEF at
  <2>2. starts = <<>> /\ Len(starts) = 0 /\ shared.first = 0
        /\ \A n \in 0..FileCount - 1 : disk[n] = <<>>
    BY DEF StreamInit
  <2>3. FilesFit(disk, at, starts)
    <3>1. Offsets(0, 0) = <<>>
      BY OffsetsNone
    <3>2. ASSUME NEW n \in 0..FileCount - 1
          PROVE  at[n + 1] <= at[n] /\ disk[n] = Offsets(at[n + 1], at[n])
      BY <1>0, <2>1, <2>2, <3>1
    <3>3. \A n \in 0..FileCount : Begins(starts, at[n])
      BY <2>1, <2>2 DEF Begins
    <3> QED  BY <2>1, <2>2, <3>2, <3>3 DEF FilesFit
  <2>4. WindowFits(at)
    BY <2>1, <2>2 DEF WindowFits
  <2> QED  BY <2>1, <2>3, <2>4
<1>5. TailIsSuffix
  BY <1>0, OffsetsNone DEF StreamInit, TailIsSuffix, StartsScalar
<1>6. EventsAreFaithful
  BY OffsetsNone DEF StreamInit, NoEvent, EventsAreFaithful
<1>7. /\ shared.end = Len(starts) /\ shared.first <= shared.end
      /\ source.cursor <= shared.end /\ tail.first <= shared.end
  BY DEF StreamInit
<1> QED  BY <1>2, <1>3, <1>4, <1>5, <1>6, <1>7 DEF StreamInv

LEMMA OutputKeeps == ASSUME StreamInv, NEW t \in Texts, Output(t) PROVE StreamInv'
<1>1. Flags(t) \in Seq(BOOLEAN) /\ Scalars(Flags(t))
  BY FlagsAre
<1>2. rest' = Flags(t) /\ UNCHANGED <<disk, starts, shared, tail, source, event, misjudged>>
  BY DEF Output
<1>3. /\ shared \in [first : Nat, end : Nat, status : Statuses]
      /\ source \in [at : {"Wait", "Throttle", "Fill", "Ended"}, cursor : Nat, backlog : BOOLEAN,
                     disconnected : BOOLEAN, status : Statuses, failed : BOOLEAN]
      /\ event \in [from : Nat, first : Nat, available : Nat, bytes : Seq(Nat),
                    status : Statuses, failed : BOOLEAN]
      /\ source.cursor <= shared.end /\ EventsAreFaithful
  BY DEF StreamInv, StreamTypes
<1>4. EventsAreFaithful'
  BY <1>2, <1>3 DEF EventsAreFaithful
<1> HIDE DEF EventsAreFaithful
<1> QED  BY <1>1, <1>2, <1>3, <1>4, OnlyReaders

LEMMA EndOfFileKeeps == ASSUME StreamInv, EndOfFile PROVE StreamInv'
<1>1. /\ shared \in [first : Nat, end : Nat, status : Statuses]
      /\ source \in [at : {"Wait", "Throttle", "Fill", "Ended"}, cursor : Nat, backlog : BOOLEAN,
                     disconnected : BOOLEAN, status : Statuses, failed : BOOLEAN]
      /\ event \in [from : Nat, first : Nat, available : Nat, bytes : Seq(Nat),
                    status : Statuses, failed : BOOLEAN]
      /\ source.cursor <= shared.end /\ EventsAreFaithful
      /\ rest \in Seq(BOOLEAN) /\ Scalars(rest)
  BY DEF StreamInv, StreamTypes
<1>2. /\ UNCHANGED <<disk, starts, tail, rest, source, event, misjudged>>
      /\ \/ shared' = [shared EXCEPT !.status.eof = TRUE]
         \/ shared' = [shared EXCEPT !.status.readError = TRUE]
  BY DEF EndOfFile
<1>3. shared' \in [first : Nat, end : Nat, status : Statuses] /\ shared'.first = shared.first
      /\ shared'.end = shared.end
  <2> DEFINE st == shared.status
  <2>1. st \in Statuses /\ shared.first \in Nat /\ shared.end \in Nat
    BY <1>1
  <2>2. \E new \in Statuses : shared' = [shared EXCEPT !.status = new]
    BY <1>2, <2>1 DEF Statuses
  <2> HIDE DEF st
  <2> QED  BY <1>1, <2>1, <2>2
<1>4. EventsAreFaithful'
  BY <1>1, <1>2 DEF EventsAreFaithful
<1> QED  BY <1>1, <1>2, <1>3, <1>4, OnlyReaders

LEMMA TurnsKeep == ASSUME StreamInv, WaitForBatch \/ Throttle PROVE StreamInv'
<1>1. /\ shared \in [first : Nat, end : Nat, status : Statuses]
      /\ source \in [at : {"Wait", "Throttle", "Fill", "Ended"}, cursor : Nat, backlog : BOOLEAN,
                     disconnected : BOOLEAN, status : Statuses, failed : BOOLEAN]
      /\ event \in [from : Nat, first : Nat, available : Nat, bytes : Seq(Nat),
                    status : Statuses, failed : BOOLEAN]
      /\ source.cursor <= shared.end /\ EventsAreFaithful
      /\ rest \in Seq(BOOLEAN) /\ Scalars(rest)
  BY DEF StreamInv, StreamTypes
<1>2. /\ UNCHANGED <<disk, starts, shared, tail, rest, event, misjudged>>
      /\ source'.cursor = source.cursor
      /\ source' \in [at : {"Wait", "Throttle", "Fill", "Ended"}, cursor : Nat, backlog : BOOLEAN,
                      disconnected : BOOLEAN, status : Statuses, failed : BOOLEAN]
  <2>1. CASE WaitForBatch
    BY <1>1, <2>1 DEF WaitForBatch
  <2>2. CASE Throttle
    BY <1>1, <2>2 DEF Disconnected, Throttle
  <2> QED  BY <2>1, <2>2
<1>4. EventsAreFaithful'
  BY <1>1, <1>2 DEF EventsAreFaithful
<1> QED  BY <1>1, <1>2, <1>4, OnlyReaders

LEMMA EmitRangeKeeps == ASSUME StreamInv, EmitRange PROVE StreamInv'
<1> DEFINE s == ReadAt(source.cursor, ChunkBytes)
           next == s.first + Len(s.bytes)
<1>1. /\ shared \in [first : Nat, end : Nat, status : Statuses]
      /\ source \in [at : {"Wait", "Throttle", "Fill", "Ended"}, cursor : Nat, backlog : BOOLEAN,
                     disconnected : BOOLEAN, status : Statuses, failed : BOOLEAN]
      /\ event \in [from : Nat, first : Nat, available : Nat, bytes : Seq(Nat),
                    status : Statuses, failed : BOOLEAN]
      /\ source.cursor <= shared.end /\ EventsAreFaithful
      /\ rest \in Seq(BOOLEAN) /\ Scalars(rest) /\ source.cursor \in Nat
  BY DEF StreamInv, StreamTypes
<1>2. /\ UNCHANGED <<disk, starts, shared, tail, rest, misjudged>> /\ s.ok
      /\ source' = [source EXCEPT !.at = "Wait", !.cursor = next, !.backlog = next < shared.end,
                                  !.failed = FALSE, !.status = shared.status]
      /\ event' = event \/ Emit(s.first, s.bytes, FALSE)
  BY Zenon DEF EmitRange
<1>3. /\ s.first \in Nat /\ s.bytes \in Seq(Nat) /\ s.first >= source.cursor
      /\ s.first = source.cursor \/ s.first = shared.first
      /\ s.bytes = Offsets(s.first, s.first + Len(s.bytes))
      /\ s.first + Len(s.bytes) <= shared.end
  BY <1>1, <1>2, ReadIs DEF s
<1> HIDE DEF s
<1>4. source' \in [at : {"Wait", "Throttle", "Fill", "Ended"}, cursor : Nat, backlog : BOOLEAN,
                   disconnected : BOOLEAN, status : Statuses, failed : BOOLEAN]
      /\ source'.cursor <= shared.end
  <2>1. next \in Nat /\ next <= shared.end /\ (next < shared.end) \in BOOLEAN /\ shared.status \in Statuses
    BY <1>1, <1>3
  <2> HIDE DEF next
  <2> QED  BY <1>1, <1>2, <2>1
<1>5. event' \in [from : Nat, first : Nat, available : Nat, bytes : Seq(Nat),
                  status : Statuses, failed : BOOLEAN] /\ EventsAreFaithful'
  <2>1. CASE event' = event
    BY <1>1, <2>1 DEF EventsAreFaithful
  <2>2. CASE Emit(s.first, s.bytes, FALSE)
    BY <1>1, <1>3, <2>2 DEF Emit, EventsAreFaithful
  <2> QED  BY <1>2, <2>1, <2>2
<1> QED  BY <1>1, <1>2, <1>4, <1>5, OnlyReaders

LEMMA EmitFailureKeeps == ASSUME StreamInv, EmitFailure PROVE StreamInv'
<1> DEFINE low == IF source.cursor > shared.first THEN source.cursor ELSE shared.first
           first == Least(low, shared.end)
<1>1. /\ shared \in [first : Nat, end : Nat, status : Statuses]
      /\ source \in [at : {"Wait", "Throttle", "Fill", "Ended"}, cursor : Nat, backlog : BOOLEAN,
                     disconnected : BOOLEAN, status : Statuses, failed : BOOLEAN]
      /\ event \in [from : Nat, first : Nat, available : Nat, bytes : Seq(Nat),
                    status : Statuses, failed : BOOLEAN]
      /\ source.cursor <= shared.end /\ shared.first <= shared.end /\ EventsAreFaithful
      /\ rest \in Seq(BOOLEAN) /\ Scalars(rest) /\ source.cursor \in Nat
  BY DEF StreamInv, StreamTypes
<1>2. /\ UNCHANGED <<disk, starts, shared, tail, rest, misjudged>>
      /\ \/ source' = [source EXCEPT !.at = "Wait", !.backlog = FALSE] /\ event' = event
         \/ /\ source' = [source EXCEPT !.at = "Wait", !.backlog = FALSE, !.cursor = first,
                                        !.failed = TRUE, !.status = shared.status]
            /\ Emit(first, <<>>, TRUE)
  BY Zenon DEF EmitFailure
<1>3. /\ first \in Nat /\ first >= source.cursor /\ first <= shared.end
      /\ first = source.cursor \/ first = shared.first
  BY <1>1 DEF Least
<1> HIDE DEF first
<1>4. source' \in [at : {"Wait", "Throttle", "Fill", "Ended"}, cursor : Nat, backlog : BOOLEAN,
                   disconnected : BOOLEAN, status : Statuses, failed : BOOLEAN]
      /\ source'.cursor <= shared.end
  BY <1>1, <1>2, <1>3
<1>5. event' \in [from : Nat, first : Nat, available : Nat, bytes : Seq(Nat),
                  status : Statuses, failed : BOOLEAN] /\ EventsAreFaithful'
  <2>1. CASE event' = event
    BY <1>1, <2>1 DEF EventsAreFaithful
  <2>2. CASE Emit(first, <<>>, TRUE)
    <3>1. /\ event' = [from |-> source.cursor, first |-> first, available |-> shared.first,
                       bytes |-> <<>>, status |-> shared.status, failed |-> TRUE]
      BY <2>2, Zenon DEF Emit
    <3>2. Offsets(first, first) = <<>> /\ first + 0 = first
      BY <1>3, OffsetsNone
    <3>3. event'.bytes = <<>> /\ Len(event'.bytes) = 0 /\ event'.first = first
          /\ event'.from = source.cursor /\ event'.available = shared.first
      BY <3>1
    <3>4. EventsAreFaithful'
      BY <1>3, <1>1, <3>2, <3>3 DEF EventsAreFaithful
    <3> QED  BY <1>1, <1>3, <3>1, <3>4
  <2> QED  BY <1>2, <2>1, <2>2
<1> QED  BY <1>1, <1>2, <1>4, <1>5, OnlyReaders

(* Who rotates, writes or fails leaves events and cursors alone. *)
LEMMA OnlyFiles ==
  ASSUME StreamInv, UNCHANGED <<source, event>>,
         disk' \in [0..FileCount - 1 -> Seq(Nat)],
         starts' \in Seq(BOOLEAN), Scalars(starts'), rest' \in Seq(BOOLEAN), Scalars(rest'),
         shared' \in [first : Nat, end : Nat, status : Statuses],
         shared'.end = Len(starts'), shared.end <= shared'.end, shared'.first <= shared'.end,
         misjudged' \in BOOLEAN,
         tail' \in [first : Nat, bytes : Seq(Nat)], tail'.first <= Len(starts'), TailIsSuffix',
         \E at \in [0..FileCount -> Nat] : FilesFit(disk', at, starts') /\ WindowFits(at)'
  PROVE  StreamInv'
<1>1. StreamTypes'
  BY DEF StreamInv, StreamTypes
<1>2. source'.cursor <= shared'.end
  <2>1. source.cursor \in Nat /\ source.cursor <= shared.end /\ shared.end \in Nat
        /\ shared'.end \in Nat
    BY DEF StreamInv, StreamTypes
  <2> QED  BY <2>1
<1>3. EventsAreFaithful'
  BY DEF StreamInv, EventsAreFaithful
<1> HIDE DEF TailIsSuffix
<1> QED  BY <1>1, <1>2, <1>3 DEF StreamInv

LEMMA RotateKeeps == ASSUME StreamInv, Rotate PROVE StreamInv'
<1> DEFINE m == FileCount
<1>1. /\ disk \in [0..m - 1 -> Seq(Nat)] /\ starts \in Seq(BOOLEAN) /\ rest \in Seq(BOOLEAN)
      /\ shared \in [first : Nat, end : Nat, status : Statuses] /\ misjudged \in BOOLEAN
      /\ tail \in [first : Nat, bytes : Seq(Nat)] /\ m \in Nat /\ m > 0
      /\ Scalars(starts) /\ Scalars(rest) /\ shared.end = Len(starts)
      /\ tail.first <= Len(starts)
  BY StreamLimits, SMTT(60) DEF StreamInv, StreamTypes
<1>2. PICK at \in [0..m -> Nat] : FilesFit(disk, at, starts) /\ WindowFits(at)
  BY DEF StreamInv
<1>3. /\ disk' = Rotated(disk, 0)
      /\ shared' = [shared EXCEPT !.first = @ + Len(disk[m - 1])]
      /\ UNCHANGED <<starts, tail, rest, source, event, misjudged>>
  BY DEF Rotate
<1> DEFINE then == RotatedAt(at, 0)
<1> HIDE DEF then
<1>4. /\ disk' \in [0..m - 1 -> Seq(Nat)] /\ FilesFit(disk', then, starts)
      /\ then \in [0..m -> Nat] /\ then[m] = at[m - 1]
  <2>1. 0 \in 0..FileCount - 1
    BY <1>1
  <2> QED  BY <1>1, <1>2, <1>3, <2>1, RotatedFits DEF then
<1>5. /\ at[m] \in Nat /\ at[m - 1] \in Nat /\ at[m] <= at[m - 1]
      /\ disk[m - 1] = Offsets(at[m], at[m - 1])
  <2>1. m - 1 \in 0..m - 1 /\ (m - 1) + 1 = m /\ m \in 0..m /\ m - 1 \in 0..m
    BY <1>1
  <2>2. \A n \in 0..m - 1 : at[n + 1] <= at[n] /\ disk[n] = Offsets(at[n + 1], at[n])
    BY <1>2 DEF FilesFit
  <2>3. at[m] <= at[m - 1] /\ disk[m - 1] = Offsets(at[m], at[m - 1])
    BY <2>1, <2>2
  <2> QED  BY <1>2, <2>1, <2>3
<1>6. Len(disk[m - 1]) = at[m - 1] - at[m]
  BY <1>5, OffsetsAre
<1>7. then[m] <= Len(starts)
  BY <1>1, <1>4, RetainedAre
<1>8. /\ shared' \in [first : Nat, end : Nat, status : Statuses]
      /\ shared'.first = shared.first + (at[m - 1] - at[m]) /\ shared'.end = shared.end
  <2> DEFINE more == shared.first + Len(disk[m - 1])
  <2>1. more \in Nat /\ more = shared.first + (at[m - 1] - at[m])
    BY <1>1, <1>5, <1>6, SMTT(60)
  <2>2. shared' = [shared EXCEPT !.first = more]
    BY <1>3
  <2> HIDE DEF more
  <2> QED  BY <1>1, <2>1, <2>2
<1>9. shared'.first <= then[m] /\ (misjudged \/ shared'.first = then[m])
  <2>1. shared.first <= at[m] /\ (misjudged \/ shared.first = at[m])
    BY <1>2 DEF WindowFits
  <2> DEFINE x == at[m]
             y == at[m - 1]
             z == then[m]
             w == shared.first
             v == shared'.first
  <2>2. /\ x \in Nat /\ y \in Nat /\ x <= y /\ z = y /\ w \in Nat /\ v = w + (y - x)
        /\ w <= x /\ (misjudged \/ w = x)
    BY <1>1, <1>4, <1>5, <1>8, <2>1, Zenon
  <2> HIDE DEF x, y, z, w, v
  <2>3. v <= z /\ (misjudged \/ v = z)
    BY <2>2
  <2> QED  BY <2>3 DEF z, v
<1>10. TailIsSuffix'
  BY <1>3 DEF StreamInv, TailIsSuffix, StartsScalar
<1>11. \E where \in [0..FileCount -> Nat] : FilesFit(disk', where, starts') /\ WindowFits(where)'
  BY <1>3, <1>4, <1>9 DEF WindowFits
<1>12. /\ starts' = starts /\ rest' = rest /\ tail' = tail /\ misjudged' = misjudged
       /\ UNCHANGED <<source, event>>
  BY <1>3
<1> HIDE DEF TailIsSuffix
<1>13. /\ shared'.end = Len(starts') /\ shared.end <= shared'.end /\ shared'.first <= shared'.end
       /\ tail'.first <= Len(starts')
  <2>1. shared'.first <= Len(starts)
    <3> DEFINE v == shared'.first
               z == then[m]
               n == Len(starts)
    <3>1. v \in Nat /\ z \in Nat /\ n \in Nat /\ v <= z /\ z <= n
      BY <1>1, <1>4, <1>5, <1>7, <1>8, <1>9
    <3> HIDE DEF v, z, n
    <3>2. v <= n
      BY <3>1
    <3> QED  BY <3>2 DEF v, n
  <2> QED  BY <1>1, <1>8, <1>12, <2>1
<1> QED  BY <1>1, <1>4, <1>8, <1>10, <1>11, <1>12, <1>13, OnlyFiles

(* After a failure the window is what the files say, or else judged wrong, *)
(* and then it begins no later than they do.                               *)
LEMMA UnavailableKeeps ==
  ASSUME StreamInv, NEW d \in [0..FileCount - 1 -> Seq(Nat)],
         NEW at \in [0..FileCount -> Nat], FilesFit(d, at, starts),
         shared.first <= at[FileCount], Unavailable(d),
         UNCHANGED <<starts, tail, source, event>>,
         rest' \in Seq(BOOLEAN), Scalars(rest')
  PROVE  StreamInv'
<1> DEFINE size == Len(RetainedBytes(d))
<1>1. /\ starts \in Seq(BOOLEAN) /\ Scalars(starts) /\ FileCount \in Nat
      /\ shared \in [first : Nat, end : Nat, status : Statuses] /\ misjudged \in BOOLEAN
      /\ tail \in [first : Nat, bytes : Seq(Nat)]
      /\ shared.end = Len(starts) /\ shared.first <= shared.end
      /\ tail.first <= Len(starts)
  BY StreamLimits DEF StreamInv, StreamTypes
<1>2. at[FileCount] \in Nat /\ at[FileCount] <= Len(starts) /\ size = Len(starts) - at[FileCount]
  <2>1. /\ at[FileCount] \in Nat /\ at[FileCount] <= Len(starts)
        /\ RetainedBytes(d) = Offsets(at[FileCount], Len(starts))
    BY <1>1, RetainedAre
  <2> QED  BY <1>1, <2>1, OffsetsAre
<1>3. [shared.status EXCEPT !.diskError = TRUE] \in Statuses
  BY <1>1 DEF Statuses
<1>4. /\ shared' \in [first : Nat, end : Nat, status : Statuses] /\ shared'.end = shared.end
      /\ shared'.first <= at[FileCount] /\ (misjudged' \/ shared'.first = at[FileCount])
      /\ misjudged' \in BOOLEAN
  <2> DEFINE st == [shared.status EXCEPT !.diskError = TRUE]
  <2> HIDE DEF st
  <2>1. CASE shared' = Reconciled(d) /\ UNCHANGED misjudged
    <3>1. shared' = [shared EXCEPT !.first = shared.end - size, !.status = st]
      <4>1. size <= shared.end
        BY <1>1, <1>2
      <4>2. shared' = [shared EXCEPT !.first = shared.end - size, !.status.diskError = TRUE]
        BY <2>1, <4>1, Zenon DEF Reconciled
      <4> DEFINE x == shared.end - size
      <4>3. shared' = [shared EXCEPT !.first = x, !.status.diskError = TRUE]
        BY <4>2
      <4> HIDE DEF x
      <4>4. shared' = [shared EXCEPT !.first = x, !.status = [shared.status EXCEPT !.diskError = TRUE]]
        <5> DEFINE one == [shared EXCEPT !.first = x]
        <5>1. one.status = shared.status /\ shared' = [one EXCEPT !.status.diskError = TRUE]
          BY <1>1, <4>3
        <5> QED  BY <1>1, <5>1
      <4> QED  BY <4>4, Zenon DEF x, st
    <3> DEFINE x == shared.end - size
               y == at[FileCount]
    <3>2. st \in Statuses
      BY <1>3 DEF st
    <3>3. x \in Nat /\ x = y
      <4> HIDE DEF size
      <4> QED  BY <1>1, <1>2
    <3>4. shared' = [shared EXCEPT !.first = x, !.status = st]
      BY <3>1
    <3> HIDE DEF x, y
    <3>5. /\ shared' \in [first : Nat, end : Nat, status : Statuses]
          /\ shared'.end = shared.end /\ shared'.first = x
      BY <1>1, <3>2, <3>3, <3>4
    <3> QED  BY <1>1, <2>1, <3>3, <3>5 DEF y
  <2>2. CASE shared' = [shared EXCEPT !.status.diskError = TRUE] /\ misjudged' = TRUE
    BY <1>1, <1>2, <1>3, <2>2 DEF st
  <2>3. \/ shared' = Reconciled(d) /\ UNCHANGED misjudged
        \/ shared' = [shared EXCEPT !.status.diskError = TRUE] /\ misjudged' = TRUE
    BY Zenon DEF Unavailable
  <2> QED  BY <2>1, <2>2, <2>3
<1>5. disk' = d
  BY DEF Unavailable
<1>6. TailIsSuffix'
  BY DEF StreamInv, TailIsSuffix, StartsScalar
<1>7. \E where \in [0..FileCount -> Nat] : FilesFit(disk', where, starts') /\ WindowFits(where)'
  BY <1>4, <1>5 DEF WindowFits
<1> HIDE DEF TailIsSuffix
<1>8. /\ shared'.end = Len(starts') /\ shared.end <= shared'.end /\ shared'.first <= shared'.end
      /\ tail'.first <= Len(starts')
  BY <1>1, <1>2, <1>4
<1> QED  BY <1>1, <1>4, <1>5, <1>6, <1>7, <1>8, OnlyFiles

LEMMA FailuresKeep == ASSUME StreamInv, AppendFails \/ Flush PROVE StreamInv'
<1>1. /\ disk \in [0..FileCount - 1 -> Seq(Nat)] /\ starts \in Seq(BOOLEAN)
      /\ rest \in Seq(BOOLEAN) /\ Scalars(rest)
      /\ FileCount \in Nat /\ FileCount > 0 /\ shared.first \in Nat
  BY StreamLimits DEF StreamInv, StreamTypes
<1>2. PICK at \in [0..FileCount -> Nat] : FilesFit(disk, at, starts) /\ WindowFits(at)
  BY DEF StreamInv
<1>3. shared.first <= at[FileCount]
  BY <1>2 DEF WindowFits
<1>4. <<>> \in Seq(BOOLEAN) /\ Scalars(<<>>)
  BY EmptySeq DEF Scalars
<1>5. CASE AppendFails
  <2>1. rest' = <<>> /\ UNCHANGED <<starts, tail, source, event>>
    BY <1>5 DEF AppendFails
  <2>2. CASE Unavailable(disk)
    BY <1>1, <1>2, <1>3, <1>4, <2>1, <2>2, UnavailableKeeps
  <2>3. CASE \E i \in 0..FileCount - 1 : Unavailable(Rotated(disk, i))
    <3>1. PICK i \in 0..FileCount - 1 : Unavailable(Rotated(disk, i))
      BY <2>3
    <3> DEFINE then == RotatedAt(at, i)
               new == Rotated(disk, i)
    <3>2. /\ new \in [0..FileCount - 1 -> Seq(Nat)] /\ FilesFit(new, then, starts)
          /\ then \in [0..FileCount -> Nat] /\ then[FileCount] = at[FileCount - 1]
      BY <1>1, <1>2, RotatedFits
    <3>3. at[FileCount] <= at[FileCount - 1] /\ at[FileCount] \in Nat /\ at[FileCount - 1] \in Nat
      <4>1. \A n \in 0..FileCount - 1 : at[n + 1] <= at[n]
        BY <1>2 DEF FilesFit
      <4>2. FileCount - 1 \in 0..FileCount - 1 /\ (FileCount - 1) + 1 = FileCount
            /\ FileCount \in 0..FileCount /\ FileCount - 1 \in 0..FileCount
        BY <1>1
      <4>3. at[FileCount] <= at[FileCount - 1]
        BY <4>1, <4>2
      <4> QED  BY <1>2, <4>2, <4>3
    <3>5. Unavailable(new)
      BY <3>1
    <3> HIDE DEF then, new
    <3>4. shared.first <= then[FileCount]
      BY <1>1, <1>3, <3>2, <3>3, SMTT(60)
    <3> QED  BY <1>4, <2>1, <3>2, <3>4, <3>5, UnavailableKeeps
  <2> QED  BY <1>5, <2>2, <2>3 DEF AppendFails
<1>6. CASE Flush
  <2>1. UNCHANGED <<starts, tail, rest, source, event>>
    BY <1>6 DEF Flush
  <2>2. CASE Unavailable(disk)
    BY <1>1, <1>2, <1>3, <2>1, <2>2, UnavailableKeeps
  <2>3. CASE UNCHANGED <<disk, shared, dirty, misjudged, failures>>
    <3>1. /\ shared \in [first : Nat, end : Nat, status : Statuses]
          /\ source \in [at : {"Wait", "Throttle", "Fill", "Ended"}, cursor : Nat,
                         backlog : BOOLEAN, disconnected : BOOLEAN, status : Statuses,
                         failed : BOOLEAN]
          /\ event \in [from : Nat, first : Nat, available : Nat, bytes : Seq(Nat),
                        status : Statuses, failed : BOOLEAN]
          /\ source.cursor <= shared.end /\ EventsAreFaithful
      BY DEF StreamInv, StreamTypes
    <3>2. EventsAreFaithful'
      BY <2>1, <3>1 DEF EventsAreFaithful
    <3> HIDE DEF EventsAreFaithful
    <3> QED  BY <1>1, <2>1, <2>3, <3>1, <3>2, OnlyReaders
  <2> QED  BY <1>6, <2>2, <2>3 DEF Flush
<1> QED  BY <1>5, <1>6

(* No file goes beyond what was written. *)
LEMMA FilesAreBehind ==
  ASSUME NEW d, NEW at, NEW text, FilesFit(d, at, text), NEW k \in 0..FileCount
  PROVE  at[k] <= Len(text)
<1>1. /\ at \in [0..FileCount -> Nat] /\ at[0] = Len(text) /\ FileCount \in Nat
      /\ \A n \in 0..FileCount - 1 : at[n + 1] <= at[n]
  BY StreamLimits DEF FilesFit
<1> DEFINE good == {n \in 0..k : at[n] <= Len(text)}
<1>2. 0 \in good
  BY <1>1
<1>3. ASSUME NEW n \in good, n < k PROVE n + 1 \in good
  <2>1. n \in 0..FileCount - 1 /\ n + 1 \in 0..k /\ n \in 0..FileCount /\ n + 1 \in 0..FileCount
    BY <1>1, <1>3
  <2>2. at[n + 1] <= at[n] /\ at[n] <= at[0] /\ at[n] \in Nat /\ at[n + 1] \in Nat /\ at[0] \in Nat
    BY <1>1, <2>1
  <2>3. at[n + 1] <= at[0]
    BY <2>2
  <2> QED  BY <1>1, <2>1, <2>3
<1>4. k \in good
  <2> HIDE DEF good
  <2>1. good \in SUBSET (0..k) /\ k \in Nat
    BY DEF good
  <2> QED  BY <1>2, <1>3, <2>1, UpTo
<1> QED  BY <1>4

(* utf8_prefix_len: whole scalars, as many as fit *)
LEMMA PrefixIs ==
  ASSUME NEW text \in Seq(BOOLEAN), text # <<>> => text[1] = TRUE, NEW most \in Nat
  PROVE  /\ Prefix(text, most) \in 0..Len(text)
         /\ Prefix(text, most) = Len(text) \/ text[Prefix(text, most) + 1] = TRUE
<1> DEFINE n == Least(Len(text), most)
           ends == {k \in 0..n : k = Len(text) \/ text[k + 1]}
           Good(k) == /\ k = Len(text) \/ text[k + 1]
                      /\ \A m \in k + 1..n : m # Len(text) /\ ~text[m + 1]
<1>1. n \in Nat /\ n <= Len(text)
  BY DEF Least
<1>2. 0 \in ends
  BY <1>1
<1> HIDE DEF n
<1>3. PICK k \in ends : \A j \in ends : j <= k
  BY <1>1, <1>2, GreatestExists
<1>4. k \in 0..n /\ (k = Len(text) \/ text[k + 1])
  OBVIOUS
<1>5. ASSUME NEW m \in k + 1..n PROVE m # Len(text) /\ ~text[m + 1]
  BY <1>1, <1>3, <1>4
<1>6. Good(k)
  BY <1>4, <1>5
<1> DEFINE p == CHOOSE c \in 0..n : Good(c)
<1> HIDE DEF Good
<1>7. p \in 0..n /\ Good(p)
  BY <1>4, <1>6
<1>8. Prefix(text, most) = p
  BY Zenon DEF Prefix, n, Good
<1> HIDE DEF p
<1>9. p \in 0..Len(text) /\ (p = Len(text) \/ text[p + 1])
  BY <1>1, <1>7 DEF Good
<1> QED
  <2>1. p # Len(text) => text[p + 1] = TRUE
    <3> SUFFICES ASSUME p # Len(text) PROVE text[p + 1] = TRUE
      OBVIOUS
    <3>1. p + 1 \in 1..Len(text)
      BY <1>9
    <3>2. text[p + 1] \in BOOLEAN
      BY <3>1
    <3> QED  BY <1>9, <3>2
  <2> QED  BY <1>8, <1>9, <2>1

(* The next scalar is one byte wide at least. *)
LEMMA WidthIs == ASSUME rest \in Seq(BOOLEAN), rest # <<>> PROVE NextWidth \in 1..Len(rest)
<1> DEFINE n == Len(rest)
           ends == {w \in 1..n : w = n \/ rest[w + 1]}
           Good(w) == /\ w = n \/ rest[w + 1]
                      /\ \A v \in 2..w : ~rest[v]
<1>1. n \in Nat /\ n > 0 /\ n \in ends /\ ends \in SUBSET Nat
  OBVIOUS
<1>2. PICK k \in ends : \A j \in ends : k <= j
  BY <1>1, SmallestExists
<1>3. k \in 1..n /\ (k = n \/ rest[k + 1])
  OBVIOUS
<1>4. ASSUME NEW v \in 2..k PROVE ~rest[v]
  <2>1. v - 1 \in 1..n /\ v - 1 # n /\ ~(k <= v - 1) /\ (v - 1) + 1 = v
    BY <1>1, <1>3
  <2>2. v - 1 \notin ends
    BY <1>2, <2>1
  <2> QED  BY <2>1, <2>2
<1>5. Good(k)
  BY <1>3, <1>4
<1> DEFINE p == CHOOSE c \in 1..n : Good(c)
<1> HIDE DEF Good
<1>6. p \in 1..n
  BY <1>3, <1>5
<1>7. NextWidth = p
  BY Zenon DEF NextWidth, Good
<1> QED  BY <1>6, <1>7

LEMMA WriteChunkKeeps == ASSUME StreamInv, WriteChunk PROVE StreamInv'
<1> DEFINE l == Len(starts)
           n == Prefix(rest, FreeBytes(disk))
           front == SubSeq(rest, 1, n)
           back == SubSeq(rest, n + 1, Len(rest))
           more == starts \o front
<1>1. /\ disk \in [0..FileCount - 1 -> Seq(Nat)] /\ starts \in Seq(BOOLEAN)
      /\ rest \in Seq(BOOLEAN) /\ Scalars(rest) /\ Scalars(starts)
      /\ FileCount \in Nat /\ FileCount > 0 /\ FileBytes \in Nat
      /\ shared \in [first : Nat, end : Nat, status : Statuses] /\ misjudged \in BOOLEAN
      /\ shared.end = l /\ shared.first <= l /\ l \in Nat
  <2>1. /\ disk \in [0..FileCount - 1 -> Seq(Nat)] /\ starts \in Seq(BOOLEAN)
        /\ rest \in Seq(BOOLEAN) /\ Scalars(rest) /\ Scalars(starts)
        /\ shared \in [first : Nat, end : Nat, status : Statuses] /\ misjudged \in BOOLEAN
        /\ shared.end = Len(starts) /\ shared.first <= shared.end
    BY DEF StreamInv, StreamTypes
  <2> QED  BY <2>1, StreamLimits
<1>2. PICK at \in [0..FileCount -> Nat] : FilesFit(disk, at, starts) /\ WindowFits(at)
  BY DEF StreamInv
<1>3. /\ rest # <<>> /\ ~NeedsRotation
      /\ disk' = [disk EXCEPT ![0] = @ \o Offsets(l, l + n)]
      /\ tail' = Appended(tail, front, l)
      /\ starts' = more /\ shared' = [shared EXCEPT !.end = @ + n] /\ rest' = back
      /\ UNCHANGED <<source, event, misjudged>>
  BY Zenon DEF WriteChunk
<1>4. /\ n \in 0..Len(rest) /\ (n = Len(rest) \/ rest[n + 1] = TRUE)
  <2>1. NextWidth \in 1..Len(rest)
    BY <1>1, <1>3, WidthIs
  <2>2. FreeBytes(disk) \in Int
    BY <1>1 DEF FreeBytes
  <2>3. FreeBytes(disk) \in Nat
    BY <1>3, <2>1, <2>2 DEF NeedsRotation
  <2>4. rest # <<>> => rest[1] = TRUE
    BY <1>1 DEF Scalars
  <2> QED  BY <1>1, <2>3, <2>4, PrefixIs
<1> HIDE DEF n
<1>5. /\ front \in Seq(BOOLEAN) /\ Len(front) = n /\ Scalars(front)
      /\ back \in Seq(BOOLEAN) /\ Scalars(back)
  BY <1>1, <1>4, ScalarsCut
<1> HIDE DEF front, back
<1>6. more \in Seq(BOOLEAN) /\ Scalars(more) /\ Len(more) = l + n
  BY <1>1, <1>5, ScalarsJoin, ConcatProperties
<1>7. \A o \in Nat : o <= l /\ Begins(starts, o) => Begins(more, o)
  BY <1>1, <1>5, BeginsStay
<1>8. /\ tail' \in [first : Nat, bytes : Seq(Nat)] /\ tail'.first <= Len(more)
      /\ tail'.bytes = Offsets(tail'.first, Len(more))
      /\ Len(tail'.bytes) <= MemoryBytes /\ Begins(more, tail'.first)
      /\ tail'.first = 0 \/ Len(tail'.bytes) + 4 > MemoryBytes
  BY <1>3, <1>5, AppendedIs
<1> HIDE DEF more
<1>9. TailIsSuffix'
  <2>1. StartsScalar(tail.first)'
    BY <1>3, <1>8 DEF Begins, StartsScalar
  <2> QED  BY <1>3, <1>8, <2>1 DEF TailIsSuffix
<1> HIDE DEF l
<1> DEFINE then == [at EXCEPT ![0] = l + n]
<1>10. /\ then \in [0..FileCount -> Nat] /\ then[0] = l + n
       /\ \A k \in 1..FileCount : then[k] = at[k]
  BY <1>1, <1>2, <1>4
<1> HIDE DEF then
<1>11. /\ at[0] = l /\ at[1] \in Nat /\ at[1] <= l /\ disk[0] = Offsets(at[1], l)
       /\ \A k \in 0..FileCount - 1 : at[k + 1] <= at[k] /\ disk[k] = Offsets(at[k + 1], at[k])
       /\ \A k \in 0..FileCount : Begins(starts, at[k])
  <2>1. /\ at[0] = l
        /\ \A k \in 0..FileCount - 1 : at[k + 1] <= at[k] /\ disk[k] = Offsets(at[k + 1], at[k])
        /\ \A k \in 0..FileCount : Begins(starts, at[k])
    BY <1>2 DEF FilesFit, l
  <2>2. 0 \in 0..FileCount - 1 /\ 0 + 1 = 1 /\ 1 \in 0..FileCount
    BY <1>1
  <2>3. at[1] <= at[0] /\ disk[0] = Offsets(at[1], at[0])
    BY <2>1, <2>2
  <2> QED  BY <1>2, <2>1, <2>2, <2>3
<1>12. disk'[0] = Offsets(at[1], l + n) /\ disk' \in [0..FileCount - 1 -> Seq(Nat)]
       /\ \A k \in 1..FileCount - 1 : disk'[k] = disk[k]
  <2>4. l + n \in Nat /\ l <= l + n /\ at[1] <= l + n
    BY <1>1, <1>4, <1>11
  <2>1. Offsets(at[1], l) \o Offsets(l, l + n) = Offsets(at[1], l + n)
    BY <1>1, <1>11, <2>4, OffsetsJoin, ZenonT(60)
  <2>2. disk' = [disk EXCEPT ![0] = Offsets(at[1], l + n)]
    BY <1>3, <1>11, <2>1
  <2>3. Offsets(at[1], l + n) \in Seq(Nat)
    BY <1>11, <2>4, OffsetsAre
  <2> QED  BY <1>1, <2>2, <2>3
<1>13. FilesFit(disk', then, starts')
  <2>1. then[0] = Len(starts')
    BY <1>3, <1>6, <1>10
  <2>2. ASSUME NEW k \in 0..FileCount - 1
        PROVE  then[k + 1] <= then[k] /\ disk'[k] = Offsets(then[k + 1], then[k])
    <3>1. CASE k = 0
      <4>1. then[1] = at[1]
        BY <1>1, <1>10
      <4> QED  BY <1>1, <1>4, <1>10, <1>11, <1>12, <3>1, <4>1
    <3>2. CASE k # 0
      <4>1. k \in 1..FileCount /\ k + 1 \in 1..FileCount /\ k \in 1..FileCount - 1
        BY <1>1, <3>2
      <4>2. then[k] = at[k] /\ then[k + 1] = at[k + 1] /\ disk'[k] = disk[k]
        BY <1>10, <1>12, <4>1
      <4> QED  BY <1>11, <4>2
    <3> QED  BY <3>1, <3>2
  <2>3. ASSUME NEW k \in 0..FileCount PROVE Begins(more, then[k])
    <3>1. CASE k = 0
      BY <1>1, <1>4, <1>6, <1>10, <3>1 DEF Begins
    <3>2. CASE k # 0
      <4>1. then[k] = at[k] /\ at[k] \in Nat /\ Begins(starts, at[k])
        BY <1>1, <1>2, <1>10, <1>11, <3>2
      <4>2. at[k] <= l
        BY <1>1, <4>1, <1>11, FilesAreBehind, <1>2 DEF l
      <4> QED  BY <1>7, <4>1, <4>2
    <3> QED  BY <3>1, <3>2
  <2> QED  BY <1>3, <1>10, <2>1, <2>2, <2>3 DEF FilesFit
<1>14. /\ shared' \in [first : Nat, end : Nat, status : Statuses]
       /\ shared'.end = l + n /\ shared'.first = shared.first
  <2> DEFINE e == l + n
  <2>1. e \in Nat /\ shared' = [shared EXCEPT !.end = e]
    BY <1>1, <1>3, <1>4
  <2> HIDE DEF e
  <2>2. /\ shared' \in [first : Nat, end : Nat, status : Statuses]
        /\ shared'.end = e /\ shared'.first = shared.first
    BY <1>1, <2>1
  <2> QED  BY <2>2 DEF e
<1>15. \E where \in [0..FileCount -> Nat] : FilesFit(disk', where, starts') /\ WindowFits(where)'
  <2>1. shared.first <= at[FileCount] /\ (misjudged \/ shared.first = at[FileCount])
    BY <1>2 DEF WindowFits
  <2>2. shared'.first <= then[FileCount] /\ (misjudged' \/ shared'.first = then[FileCount])
    <3>1. then[FileCount] = at[FileCount] /\ misjudged' = misjudged
      BY <1>1, <1>3, <1>10
    <3> QED  BY <1>14, <2>1, <3>1
  <2> QED  BY <1>10, <1>13, <2>2 DEF WindowFits
<1> HIDE DEF TailIsSuffix
<1>16. /\ shared'.end = Len(starts') /\ shared.end <= shared'.end /\ shared'.first <= shared'.end
       /\ tail'.first <= Len(starts')
  BY <1>1, <1>3, <1>4, <1>6, <1>8, <1>14
<1> QED  BY <1>1, <1>3, <1>5, <1>6, <1>8, <1>9, <1>12, <1>14, <1>15, <1>16, OnlyFiles

LEMMA StreamKeeps == StreamInv /\ [StreamNext]_streamVars => StreamInv'
<1> SUFFICES ASSUME StreamInv, [StreamNext]_streamVars PROVE StreamInv'
  OBVIOUS
<1>1. ASSUME NEW t \in Texts, Output(t) PROVE StreamInv'
  BY <1>1, OutputKeeps
<1>2. CASE EndOfFile
  BY <1>2, EndOfFileKeeps
<1>3. CASE Rotate
  BY <1>3, RotateKeeps
<1>4. CASE WriteChunk
  BY <1>4, WriteChunkKeeps
<1>5. CASE AppendFails \/ Flush
  BY <1>5, FailuresKeep
<1>6. CASE WaitForBatch \/ Throttle
  BY <1>6, TurnsKeep
<1>7. CASE EmitRange
  BY <1>7, EmitRangeKeeps
<1>8. CASE EmitFailure
  BY <1>8, EmitFailureKeeps
<1>9. CASE UNCHANGED streamVars
  <2>1. /\ UNCHANGED <<disk, starts, shared, tail, rest, source, event, misjudged>>
    BY <1>9 DEF streamVars
  <2>2. /\ shared \in [first : Nat, end : Nat, status : Statuses]
        /\ source \in [at : {"Wait", "Throttle", "Fill", "Ended"}, cursor : Nat,
                       backlog : BOOLEAN, disconnected : BOOLEAN, status : Statuses,
                       failed : BOOLEAN]
        /\ event \in [from : Nat, first : Nat, available : Nat, bytes : Seq(Nat),
                      status : Statuses, failed : BOOLEAN]
        /\ source.cursor <= shared.end /\ EventsAreFaithful
        /\ rest \in Seq(BOOLEAN) /\ Scalars(rest)
    BY DEF StreamInv, StreamTypes
  <2>3. EventsAreFaithful'
    BY <2>1, <2>2 DEF EventsAreFaithful
  <2> HIDE DEF EventsAreFaithful
  <2> QED  BY <2>1, <2>2, <2>3, OnlyReaders
<1> QED
  BY <1>1, <1>2, <1>3, <1>4, <1>5, <1>6, <1>7, <1>8, <1>9
  DEF StreamNext, Worker, Source, Append1, Fill

(* The invariant of one output stream holds always. *)
THEOREM StreamInvHolds == StreamSpec => []StreamInv
<1>1. StreamInit => StreamInv
  BY StreamStarts
<1>2. StreamInv /\ [StreamNext]_streamVars => StreamInv'
  BY StreamKeeps
<1> QED  BY <1>1, <1>2, PTL DEF StreamSpec

(* Who reads a log of a run, in ranges or by its events, reads what the   *)
(* process wrote in whole scalars, and misses nothing but what a rotation *)
(* dropped, whatever fails and however rotation, appends and readers      *)
(* interleave (ReadsAreFaithful), for files, windows and ranges of any    *)
(* size that holds a scalar.                                              *)
THEOREM ReadsStayFaithful == StreamSpec => []ReadsAreFaithful
<1>1. StreamInv => ReadsAreFaithful
  BY InvReadsFaithfully
<1> QED  BY <1>1, StreamInvHolds, PTL
=============================================================================
