------------------------ MODULE StoredChanges_proofs ------------------------
(***************************************************************************)
(* Changes of what clients store.  First the secrets of launch profiles: a *)
(* save, a replacement, a deletion and a cleanup, each interrupted at any  *)
(* step, neither leave a secret behind nor take one from a profile.  Then  *)
(* projects and classification rules, and the discovery actor that works   *)
(* with them: what it shows is current, what was asked of it is not lost,  *)
(* and it has what the database holds.                                     *)
(***************************************************************************)
EXTENDS ProfileCredentials, CatalogChanges, Filters_proofs, FiniteSetTheorems,
        WellFoundedInduction, TLAPS

Shape ==
  /\ profiles \in [Profiles -> [state : {"Unused", "Present", "Deleted"}, env : Environment]]
  /\ queue \subseteq References
  /\ secrets \subseteq References
  /\ pc \in {"Off", "Key", "Idle", "Stage", "Put", "Commit", "Select", "Delete", "Acknowledge"}
  /\ save \in [op : Operations \cup {Nil}, profile : Profiles \cup {Nil}, current : BOOLEAN,
               env : Environment, left : SUBSET Names, reference : References \cup {Nil}]
  /\ drain \in [pass : Nat, batch : SUBSET References, full : BOOLEAN]
  /\ slot \in [References -> (Profiles \X Names) \cup {Nil}]

Generated == {r \in References : slot[r] # Nil}

(* What makes the three properties inductive: a reference is new before it *)
(* is staged, a secret is put only under a staged reference, and a cleanup *)
(* deletes only what it read from the queue.                               *)
StepsAreSafe ==
  /\ queue \cup secrets \subseteq Generated
  /\ pc \in {"Stage", "Put", "Commit"} => save.profile \in Profiles
  /\ pc = "Put" => save.reference \in queue
  /\ pc \in {"Delete", "Acknowledge"} => drain.batch # {} /\ drain.batch \subseteq queue
  /\ pc = "Acknowledge" => Smallest(drain.batch) \notin secrets

Safe == NoSecretIsForgotten /\ ProfilesKeepTheirSecrets /\ QueueIsUnused

IInv == Shape /\ StepsAreSafe /\ Safe

(* A cleanup has a first reference to delete. *)
LEMMA SmallestIsMember ==
  ASSUME NEW refs \in SUBSET References, refs # {}
  PROVE  Smallest(refs) \in refs
<1> DEFINE less == {ss \in Nat \X Nat : ss[1] < ss[2]}
<1>1. IsWellFoundedOn(less, Nat)
  BY NatLessThanWellFounded DEF OpToRel
<1>2. refs \subseteq Nat
  BY ReferencesAreOrdered
<1>3. PICK r \in refs : \A q \in refs : ~ (<<q, r>> \in less)
  <2> HIDE DEF less
  <2> QED BY <1>1, <1>2, WFMin
<1>4. ASSUME NEW q \in refs PROVE r <= q
  <2>1. q \in Nat /\ r \in Nat
    BY <1>2
  <2>2. ~ (<<q, r>>[1] < <<q, r>>[2])
    BY <1>3, <2>1
  <2> QED BY <2>1, <2>2
<1> QED BY <1>4 DEF Smallest

(* What the profiles use when p gets another environment. *)
LEMMA UsedAfter ==
  ASSUME Shape, NEW p \in Profiles, NEW env \in Environment, NEW s
  PROVE  LET after == [profiles EXCEPT ![p] = [state |-> s, env |-> env]] IN
         /\ UsedBy(env) \subseteq Referenced(after)
         /\ Referenced(after) \subseteq UsedBy(env) \cup Referenced(profiles)
         /\ Referenced(profiles) \subseteq Referenced(after) \cup UsedBy(profiles[p].env)
<1> DEFINE after == [profiles EXCEPT ![p] = [state |-> s, env |-> env]]
<1>1. after[p].env = env /\ \A q \in Profiles \ {p} : after[q] = profiles[q]
  BY DEF Shape
<1> HIDE DEF after
<1>2. \A q \in Profiles : UsedBy(after[q].env) \subseteq Referenced(after)
  BY DEF Referenced
<1>3. \A q \in Profiles : UsedBy(profiles[q].env) \subseteq Referenced(profiles)
  BY DEF Referenced
<1>4. UsedBy(env) \subseteq Referenced(after)
  BY <1>1, <1>2
<1>5. ASSUME NEW r \in Referenced(after) PROVE r \in UsedBy(env) \cup Referenced(profiles)
  BY <1>1, <1>3, <1>5 DEF Referenced
<1>6. ASSUME NEW r \in Referenced(profiles)
      PROVE  r \in Referenced(after) \cup UsedBy(profiles[p].env)
  BY <1>1, <1>2, <1>6 DEF Referenced
<1> QED BY <1>4, <1>5, <1>6 DEF after

LEMMA UsedAreReferences ==
  ASSUME Shape PROVE Referenced(profiles) \subseteq References
BY DEF Shape, Environment, UsedBy, Referenced

LEMMA NoSecretsIsAnEnvironment == NoSecrets \in Environment /\ UsedBy(NoSecrets) = {}
BY DEF NoSecrets, Environment, UsedBy

LEMMA IdleRecords ==
  /\ NoSave \in [op : Operations \cup {Nil}, profile : Profiles \cup {Nil}, current : BOOLEAN,
                 env : Environment, left : SUBSET Names, reference : References \cup {Nil}]
  /\ NoDrain \in [pass : Nat, batch : SUBSET References, full : BOOLEAN]
BY NoSecretsIsAnEnvironment DEF NoSave, NoDrain

(* Steps that leave the database and the store alone, and rest or begin a *)
(* cleanup.                                                               *)
LEMMA TurningPoint ==
  ASSUME IInv, UNCHANGED <<profiles, queue, secrets, slot>>, pc' \in {"Off", "Key", "Idle", "Select"},
         save' \in {save, NoSave}, drain' \in {drain, NoDrain}
  PROVE  IInv'
<1>1. Shape'
  BY IdleRecords DEF IInv, Shape
<1>2. Safe'
  BY DEF IInv, Safe, NoSecretIsForgotten, ProfilesKeepTheirSecrets, QueueIsUnused, Referenced, UsedBy
<1>3. StepsAreSafe'
  BY DEF IInv, StepsAreSafe, Generated
<1> QED BY <1>1, <1>2, <1>3 DEF IInv

(* A mutation of p that gives it env, all of whose secrets are there. *)
LEMMA MutationIsSafe ==
  ASSUME IInv, NEW p \in Profiles, NEW env \in Environment, NEW s \in {"Present", "Deleted"},
         UsedBy(env) \subseteq secrets,
         NEW after, after = [profiles EXCEPT ![p] = [state |-> s, env |-> env]],
         profiles' = after, queue' = Enqueued(Adopted(env), p, after),
         pc' = "Select", save' = NoSave, drain' = NoDrain, UNCHANGED <<secrets, slot>>
  PROVE  IInv'
<1>1. /\ UsedBy(env) \subseteq Referenced(after)
      /\ Referenced(after) \subseteq UsedBy(env) \cup Referenced(profiles)
      /\ Referenced(profiles) \subseteq Referenced(after) \cup UsedBy(profiles[p].env)
  BY UsedAfter DEF IInv
<1>2. UsedBy(profiles[p].env) \subseteq Referenced(profiles)
  BY DEF Referenced
<1>3. /\ secrets \subseteq Referenced(profiles) \cup queue
      /\ Referenced(profiles) \subseteq secrets
      /\ queue \cap Referenced(profiles) = {}
  BY DEF IInv, Safe, NoSecretIsForgotten, ProfilesKeepTheirSecrets, QueueIsUnused
<1>4. queue' = (queue \ UsedBy(env)) \cup (UsedBy(profiles[p].env) \ Referenced(after))
  BY DEF Enqueued, Adopted
<1>5. Referenced(profiles') = Referenced(after)
  OBVIOUS
<1>6. Safe'
  <2>1. (Referenced(profiles))' = Referenced(after)
    BY DEF Referenced, UsedBy
  <2>2. secrets \subseteq Referenced(after) \cup queue'
    BY <1>1, <1>3, <1>4
  <2>3. Referenced(after) \subseteq secrets
    BY <1>1, <1>3
  <2>4. queue' \cap Referenced(after) = {}
    BY <1>1, <1>3, <1>4
  <2> QED
    BY <2>1, <2>2, <2>3, <2>4 DEF Safe, NoSecretIsForgotten, ProfilesKeepTheirSecrets, QueueIsUnused
<1>7. queue' \subseteq queue \cup secrets
  BY <1>2, <1>3, <1>4
<1>8. Shape'
  BY <1>7, IdleRecords DEF IInv, Shape
<1>9. StepsAreSafe'
  BY <1>7 DEF IInv, StepsAreSafe, Generated
<1> QED BY <1>6, <1>8, <1>9 DEF IInv

LEMMA InitIsSafe == Init => IInv
<1> SUFFICES ASSUME Init PROVE IInv
  OBVIOUS
<1>1. Shape
  BY IdleRecords, NoSecretsIsAnEnvironment DEF Init, Shape
<1>2. Referenced(profiles) = {}
  BY NoSecretsIsAnEnvironment DEF Init, Referenced
<1>3. Safe
  BY <1>2 DEF Init, Safe, NoSecretIsForgotten, ProfilesKeepTheirSecrets, QueueIsUnused
<1>4. StepsAreSafe
  BY DEF Init, StepsAreSafe
<1> QED BY <1>1, <1>3, <1>4 DEF IInv

(* The steps of a save that come before its commit. *)
LEMMA SaveStepsAreSafe ==
  ASSUME IInv,
         \/ \E o \in Operations, p \in Profiles : BeginSave(o, p)
         \/ StageReference \/ PutSecret
  PROVE  IInv'
<1>1. ASSUME NEW o \in Operations, NEW p \in Profiles, BeginSave(o, p) PROVE IInv'
  <2>1. PICK given \in SUBSET Names, current \in BOOLEAN, kept \in Environment :
          /\ save' = [op |-> o, profile |-> p, current |-> current, left |-> given,
                      env |-> [n \in Names |-> IF n \in given THEN Nil ELSE kept[n]],
                      reference |-> Nil]
          /\ pc' = IF given = {} THEN "Commit" ELSE "Stage"
    BY <1>1 DEF BeginSave
  <2>2. Shape'
    BY <1>1, <2>1 DEF BeginSave, IInv, Shape, Environment, database, store, history
  <2>3. Safe'
    BY <1>1 DEF BeginSave, database, store, IInv, Safe, NoSecretIsForgotten,
       ProfilesKeepTheirSecrets, QueueIsUnused, Referenced, UsedBy
  <2>4. StepsAreSafe'
    BY <1>1, <2>1 DEF BeginSave, database, store, history, IInv, StepsAreSafe, Generated
  <2> QED BY <2>2, <2>3, <2>4 DEF IInv
<1>2. ASSUME StageReference PROVE IInv'
  <2>1. PICK n \in save.left, r \in References :
          /\ slot[r] = Nil
          /\ slot' = [slot EXCEPT ![r] = <<save.profile, n>>]
          /\ queue' = queue \cup {r}
          /\ \/ pc' = "Put" /\ save' = [save EXCEPT !.reference = r] /\ UNCHANGED drain
             \/ CleanUp
    BY <1>2 DEF StageReference
  <2>2. UNCHANGED <<profiles, secrets>> /\ pc = "Stage"
    BY <1>2 DEF StageReference, store
  <2>3. n \in Names /\ save.profile \in Profiles
    BY <2>2 DEF IInv, Shape, StepsAreSafe
  <2>4. r \notin secrets /\ r \notin queue
    BY <2>1 DEF IInv, StepsAreSafe, Generated
  <2>5. slot' \in [References -> (Profiles \X Names) \cup {Nil}]
    BY <2>1, <2>3 DEF IInv, Shape
  <2>6. Generated' = Generated \cup {r}
    BY <2>1, <2>3, NilIsNew DEF Generated, IInv, Shape
  <2>7. Shape'
    BY <2>1, <2>2, <2>5, IdleRecords DEF CleanUp, IInv, Shape
  <2>8. Referenced(profiles)' = Referenced(profiles)
    BY <2>2 DEF Referenced, UsedBy
  <2>9. Safe'
    BY <2>1, <2>2, <2>4, <2>8 DEF IInv, Safe, NoSecretIsForgotten, ProfilesKeepTheirSecrets,
       QueueIsUnused
  <2>10. StepsAreSafe'
    <3>1. (queue \cup secrets \subseteq Generated)'
      BY <2>1, <2>2, <2>6 DEF IInv, StepsAreSafe
    <3>2. CASE CleanUp
      BY <3>1, <3>2 DEF CleanUp, StepsAreSafe
    <3>3. CASE pc' = "Put" /\ save' = [save EXCEPT !.reference = r]
      BY <2>1, <2>3, <3>1, <3>3 DEF IInv, Shape, StepsAreSafe
    <3> QED BY <3>2, <3>3, <2>1
  <2> QED BY <2>7, <2>9, <2>10 DEF IInv
<1>3. ASSUME PutSecret PROVE IInv'
  <2> DEFINE r == save.reference
             left == save.left \ {slot[r][2]}
             newSave == [save EXCEPT !.env[slot[r][2]] = r, !.left = left, !.reference = Nil]
  <2>1. pc = "Put" /\ UNCHANGED <<profiles, queue, slot>>
    BY <1>3 DEF PutSecret, database, history
  <2>2. r \in queue /\ save.profile \in Profiles
    BY <2>1 DEF IInv, StepsAreSafe
  <2>3. secrets' \in {secrets, secrets \cup {r}}
    BY <1>3 DEF PutSecret
  <2>4. \/ save' = newSave /\ pc' \in {"Commit", "Stage"} /\ UNCHANGED drain
        \/ CleanUp
    BY <1>3 DEF PutSecret
  <2>5. newSave \in [op : Operations \cup {Nil}, profile : Profiles \cup {Nil},
                     current : BOOLEAN, env : Environment, left : SUBSET Names,
                     reference : References \cup {Nil}]
        /\ newSave.profile = save.profile
    BY <2>2 DEF IInv, Shape, Environment
  <2>6. Shape'
    <3> HIDE DEF newSave
    <3> QED BY <2>1, <2>2, <2>3, <2>4, <2>5, IdleRecords DEF CleanUp, IInv, Shape
  <2>7. Referenced(profiles)' = Referenced(profiles)
    BY <2>1 DEF Referenced, UsedBy
  <2>8. Safe'
    BY <2>1, <2>2, <2>3, <2>7 DEF IInv, Safe, NoSecretIsForgotten, ProfilesKeepTheirSecrets,
       QueueIsUnused
  <2>9. StepsAreSafe'
    <3> HIDE DEF newSave
    <3> QED BY <2>1, <2>2, <2>3, <2>4, <2>5 DEF CleanUp, IInv, StepsAreSafe, Generated
  <2> QED BY <2>6, <2>8, <2>9 DEF IInv
<1> QED BY <1>1, <1>2, <1>3

(* The steps of a cleanup that change the store or the queue. *)
LEMMA CleanupStepsAreSafe ==
  ASSUME IInv, SelectBatch \/ DeleteSecret \/ AcknowledgeDeletion
  PROVE  IInv'
<1>1. Referenced(profiles)' = Referenced(profiles)
  BY DEF SelectBatch, DeleteSecret, AcknowledgeDeletion, database, Referenced, UsedBy
<1>2. /\ secrets \subseteq Referenced(profiles) \cup queue
      /\ Referenced(profiles) \subseteq secrets
      /\ queue \cap Referenced(profiles) = {}
  BY DEF IInv, Safe, NoSecretIsForgotten, ProfilesKeepTheirSecrets, QueueIsUnused
<1>3. ASSUME SelectBatch PROVE IInv'
  <2> DEFINE batch == FirstOf(queue \ Referenced(profiles), Limit)
  <2>1. batch \subseteq queue
    BY DEF FirstOf
  <2>2. Safe'
    BY <1>1, <1>2, <1>3 DEF SelectBatch, database, store, Safe, NoSecretIsForgotten,
       ProfilesKeepTheirSecrets, QueueIsUnused
  <2>3. CASE batch = {}
    BY <2>3, <1>3, TurningPoint DEF SelectBatch, Rest, database, store, history
  <2>4. CASE batch # {}
    <3>1. drain' = [drain EXCEPT !.batch = batch, !.full = Cardinality(batch) = Batch]
          /\ pc' = "Delete"
      BY <2>4, <1>3 DEF SelectBatch
    <3> HIDE DEF batch
    <3>2. drain'.batch = batch /\ drain' \in [pass : Nat, batch : SUBSET References, full : BOOLEAN]
      BY <3>1, <2>1 DEF IInv, Shape
    <3>3. UNCHANGED <<profiles, queue, secrets, slot, save>>
      BY <1>3 DEF SelectBatch, database, store, history
    <3>4. Shape'
      BY <3>1, <3>2, <3>3 DEF IInv, Shape
    <3>5. StepsAreSafe'
      BY <3>1, <3>2, <3>3, <2>1, <2>4 DEF IInv, StepsAreSafe, Generated
    <3> QED BY <2>2, <3>4, <3>5 DEF IInv
  <2> QED BY <2>3, <2>4
<1> DEFINE r == Smallest(drain.batch)
<1>4. ASSUME DeleteSecret PROVE IInv'
  <2>1. pc = "Delete" /\ pc' = "Acknowledge" /\ secrets' = secrets \ {r}
        /\ UNCHANGED <<profiles, queue, slot, save, drain>>
    BY <1>4 DEF DeleteSecret, database, history
  <2>2. drain.batch # {} /\ drain.batch \in SUBSET References /\ drain.batch \subseteq queue
    BY <2>1 DEF IInv, Shape, StepsAreSafe
  <2>3. r \in queue
    BY <2>2, SmallestIsMember
  <2>4. r' = r
    BY <2>1 DEF Smallest
  <2> HIDE DEF r
  <2>5. Safe'
    BY <1>1, <1>2, <2>1, <2>3 DEF Safe, NoSecretIsForgotten, ProfilesKeepTheirSecrets, QueueIsUnused
  <2>6. Shape'
    BY <2>1 DEF IInv, Shape
  <2>7. StepsAreSafe'
    BY <2>1, <2>2, <2>4 DEF r, IInv, StepsAreSafe, Generated
  <2> QED BY <2>5, <2>6, <2>7 DEF IInv
<1>5. ASSUME AcknowledgeDeletion PROVE IInv'
  <2> DEFINE left == drain.batch \ {r}
  <2>1. pc = "Acknowledge" /\ queue' = queue \ ({r} \ Referenced(profiles))
        /\ UNCHANGED <<profiles, secrets, slot, save>>
    BY <1>5 DEF AcknowledgeDeletion, store, history
  <2>2. \/ left # {} /\ pc' = "Delete" /\ drain' = [drain EXCEPT !.batch = left]
        \/ pc' = "Select" /\ drain' = [pass |-> drain.pass + 1, batch |-> {}, full |-> FALSE]
        \/ Rest
    BY <1>5 DEF AcknowledgeDeletion
  <2>3. r \notin secrets /\ drain.batch \subseteq queue
    BY <2>1 DEF IInv, StepsAreSafe
  <2> HIDE DEF r
  <2>4. Safe'
    BY <1>1, <1>2, <2>1, <2>3 DEF Safe, NoSecretIsForgotten, ProfilesKeepTheirSecrets, QueueIsUnused
  <2>5. [drain EXCEPT !.batch = left] \in [pass : Nat, batch : SUBSET References, full : BOOLEAN]
        /\ [drain EXCEPT !.batch = left].batch = left
    BY DEF IInv, Shape
  <2>6. [pass |-> drain.pass + 1, batch |-> {}, full |-> FALSE]
          \in [pass : Nat, batch : SUBSET References, full : BOOLEAN]
    BY DEF IInv, Shape
  <2>7. Shape'
    BY <2>1, <2>2, <2>5, <2>6, IdleRecords DEF IInv, Shape, Rest
  <2>8. left \subseteq queue'
    BY <2>1, <2>3
  <2>9. StepsAreSafe'
    BY <2>1, <2>2, <2>5, <2>8 DEF IInv, StepsAreSafe, Generated, Rest
  <2> QED BY <2>4, <2>7, <2>9 DEF IInv
<1> QED BY <1>3, <1>4, <1>5

(* A failing step, and a step that is refused, leave a secret or its row in *)
(* the queue, whether they took effect or not.                              *)
LEMMA FaultsAreSafe ==
  ASSUME IInv, RefuseStage \/ RefuseSave \/ DeferCleanup \/ Crash
  PROVE  IInv'
<1>1. CASE RefuseStage \/ RefuseSave \/ Crash
  BY <1>1, TurningPoint DEF RefuseStage, RefuseSave, Crash, CleanUp, database, store, history
<1>2. ASSUME DeferCleanup PROVE IInv'
  <2> DEFINE r == Smallest(drain.batch)
  <2>1. pc' = "Idle" /\ drain' = NoDrain /\ UNCHANGED <<profiles, slot, save>>
    BY <1>2 DEF DeferCleanup, Rest, history
  <2>2. \/ UNCHANGED <<secrets, queue>>
        \/ pc = "Delete" /\ secrets' = secrets \ {r} /\ UNCHANGED queue
        \/ pc = "Acknowledge" /\ queue' = queue \ {r} /\ UNCHANGED secrets
    BY <1>2 DEF DeferCleanup
  <2>3. pc = "Delete" => r \in queue
    BY SmallestIsMember DEF IInv, Shape, StepsAreSafe
  <2>4. pc = "Acknowledge" => r \notin secrets
    BY DEF IInv, StepsAreSafe
  <2>5. Referenced(profiles)' = Referenced(profiles)
    BY <2>1 DEF Referenced, UsedBy
  <2> HIDE DEF r
  <2>6. Safe'
    BY <2>2, <2>3, <2>4, <2>5 DEF IInv, Safe, NoSecretIsForgotten, ProfilesKeepTheirSecrets,
       QueueIsUnused
  <2>7. Shape'
    BY <2>1, <2>2, IdleRecords DEF IInv, Shape
  <2>8. StepsAreSafe'
    BY <2>1, <2>2 DEF IInv, StepsAreSafe, Generated
  <2> QED BY <2>6, <2>7, <2>8 DEF IInv
<1> QED BY <1>1, <1>2

LEMMA StepsKeepIInv == IInv /\ [Next]_vars => IInv'
<1> SUFFICES ASSUME IInv, [Next]_vars PROVE IInv'
  OBVIOUS
<1>1. CASE StartUp
  BY <1>1, TurningPoint DEF StartUp, Open, ReadKey, CreateKey, RefuseKey, CleanUp, database, store,
     history
<1>2. CASE \/ \E o \in Operations, p \in Profiles : BeginSave(o, p)
           \/ StageReference \/ PutSecret
  BY <1>2, SaveStepsAreSafe
<1>3. ASSUME NEW o \in Operations, NEW p \in Profiles, DeleteProfile(o, p) PROVE IInv'
  <2> DEFINE after == [profiles EXCEPT ![p] = [state |-> "Deleted", env |-> NoSecrets]]
  <2>1. /\ profiles' = after /\ queue' = Enqueued(queue, p, after)
        /\ CleanUp /\ UNCHANGED <<secrets, slot>>
    BY <1>3 DEF DeleteProfile, Removed, store
  <2>2. Adopted(NoSecrets) = queue
    BY NoSecretsIsAnEnvironment DEF Adopted
  <2> QED
    BY <2>1, <2>2, NoSecretsIsAnEnvironment, MutationIsSafe DEF CleanUp
<1>4. ASSUME CommitSave PROVE IInv'
  <2> DEFINE p == save.profile
             after == [profiles EXCEPT ![p] = [state |-> "Present", env |-> save.env]]
  <2>1. /\ pc = "Commit" /\ UsedBy(save.env) \subseteq secrets
        /\ profiles' = after /\ queue' = Enqueued(Adopted(save.env), p, after)
        /\ CleanUp /\ UNCHANGED <<secrets, slot>>
    BY <1>4 DEF CommitSave, Stored, Verified, store
  <2>2. p \in Profiles /\ save.env \in Environment
    BY <2>1 DEF IInv, Shape, StepsAreSafe
  <2> QED
    BY <2>1, <2>2, MutationIsSafe DEF CleanUp
<1>5. CASE RefuseStage \/ RefuseSave \/ DeferCleanup \/ Crash
  BY <1>5, FaultsAreSafe
<1>6. CASE SelectBatch \/ DeleteSecret \/ AcknowledgeDeletion
  BY <1>6, CleanupStepsAreSafe
<1>7. CASE OnlyCleanUp
  BY <1>7, TurningPoint DEF OnlyCleanUp, CleanUp, database, store, history
<1>8. CASE LoseKey \/ UNCHANGED vars
  <2>1. UNCHANGED <<profiles, queue, secrets, pc, save, drain, slot>>
    BY <1>8 DEF LoseKey, vars, database, store, history
  <2> QED
    BY <2>1 DEF IInv, Shape, StepsAreSafe, Generated, Safe, NoSecretIsForgotten,
       ProfilesKeepTheirSecrets, QueueIsUnused, Referenced, UsedBy, Smallest
<1> QED
  BY <1>1, <1>2, <1>3, <1>4, <1>5, <1>6, <1>7, <1>8 DEF Next, Mutate, Cleanup

(* Whatever fails or is interrupted, no secret is left behind: the queue *)
(* leads to each that no profile uses.                                   *)
THEOREM SecretsAreNeverForgotten == Spec => []NoSecretIsForgotten
<1>1. IInv => NoSecretIsForgotten
  BY DEF IInv, Safe
<1> QED BY <1>1, InitIsSafe, StepsKeepIInv, PTL DEF Spec

(* No cleanup takes a secret from a profile, and what a profile uses never *)
(* waits for one.                                                          *)
THEOREM ProfilesStayLaunchable == Spec => [](ProfilesKeepTheirSecrets /\ QueueIsUnused)
<1>1. IInv => ProfilesKeepTheirSecrets /\ QueueIsUnused
  BY DEF IInv, Safe
<1> QED BY <1>1, InitIsSafe, StepsKeepIInv, PTL DEF Spec

------------------------------------------------------------
(* The key of the request HMACs. *)

SavedWith(k) == \A o \in Operations : results[o].method = "Save" => results[o].key = k

(* The key of the store, while there is one, is the key of every recorded *)
(* save; and an open service has no other.                                *)
KeyInv ==
  /\ results \in [Operations -> [method : {"None", "Save", "Delete"}, key : Key]]
  /\ storedKey # 0 => SavedWith(storedKey)
  /\ pc \notin {"Off", "Key"} => SavedWith(key) /\ storedKey \in {0, key} /\ key \in Key
  /\ storedKey \in Key /\ faults \in 0..MaxFaults

(* Every step that records no save and touches no key keeps the invariant, *)
(* the fault it may be notwithstanding.                                    *)
LEMMA StepsBesideTheKey ==
  ASSUME KeyInv, UNCHANGED <<results, storedKey>>,
         pc' \in {"Off", "Key"} \/ (key' = key /\ pc \notin {"Off", "Key"}),
         faults' \in 0..MaxFaults
  PROVE  KeyInv'
BY DEF KeyInv, SavedWith

LEMMA FaultsAreCounted ==
  ASSUME KeyInv, faults' = faults \/ Fault
  PROVE  faults' \in 0..MaxFaults
BY LimitsOfCleanup DEF KeyInv, Fault

LEMMA StartUpKeepsKey ==
  ASSUME KeyInv, StartUp
  PROVE  KeyInv'
<1>1. CASE Open
  BY <1>1 DEF Open, database, store, KeyInv, SavedWith
<1>2. CASE ReadKey
  BY <1>2 DEF ReadKey, CleanUp, database, store, KeyInv, SavedWith
<1>3. CASE CreateKey
  BY <1>3, LimitsOfCleanup DEF CreateKey, MayCreateKey, database, KeyInv, Key, SavedWith
<1>4. CASE RefuseKey
  <2>1. /\ pc' = "Off" /\ UNCHANGED <<results, key>> /\ faults' \in 0..MaxFaults
    BY <1>4, FaultsAreCounted DEF RefuseKey, database
  <2>2. CASE storedKey' = storedKey
    BY <2>1, <2>2, StepsBesideTheKey
  <2>3. CASE MayCreateKey /\ storedKey' = faults + 1 /\ Fault
    BY <2>1, <2>3, LimitsOfCleanup DEF KeyInv, SavedWith, Key, Fault, MayCreateKey
  <2> QED BY <1>4, <2>2, <2>3 DEF RefuseKey
<1> QED BY <1>1, <1>2, <1>3, <1>4 DEF StartUp

(* A mutation is recorded with the key of the service that carries it out. *)
LEMMA RecordKeepsKey ==
  ASSUME KeyInv, pc \notin {"Off", "Key"}, NEW o, NEW m \in {"Save", "Delete"}, NEW k \in Key,
         m = "Save" => k = key,
         Record(o, m, k), UNCHANGED <<storedKey, key, faults>>
  PROVE  KeyInv'
BY DEF KeyInv, SavedWith, Record

LEMMA StepsKeepKey == KeyInv /\ [Next]_vars => KeyInv'
<1> SUFFICES ASSUME KeyInv, [Next]_vars PROVE KeyInv'
  OBVIOUS
<1>1. CASE StartUp
  BY <1>1, StartUpKeepsKey
<1>2. ASSUME NEW o \in Operations, NEW p \in Profiles, BeginSave(o, p) PROVE KeyInv'
  BY <1>2, StepsBesideTheKey, FaultsAreCounted DEF BeginSave, database, store
<1>3. ASSUME NEW o \in Operations, NEW p \in Profiles, DeleteProfile(o, p) PROVE KeyInv'
  <2>1. Record(o, "Delete", 0) /\ UNCHANGED <<storedKey, key, faults>> /\ pc = "Idle"
    BY <1>3 DEF DeleteProfile, store
  <2> QED BY <2>1, RecordKeepsKey, LimitsOfCleanup DEF Key
<1>4. CASE CommitSave
  BY <1>4, RecordKeepsKey DEF CommitSave, store, KeyInv
<1>5. CASE StageReference
  BY <1>5, StepsBesideTheKey, FaultsAreCounted DEF StageReference, store
<1>6. CASE PutSecret
  BY <1>6, StepsBesideTheKey, FaultsAreCounted DEF PutSecret, database
<1>7. CASE RefuseStage \/ RefuseSave
  BY <1>7, StepsBesideTheKey, FaultsAreCounted DEF RefuseStage, RefuseSave, database, store
<1>8. CASE Cleanup
  <2>1. /\ UNCHANGED <<results, storedKey, key>> /\ pc \in {"Idle", "Select", "Delete", "Acknowledge"}
        /\ faults' = faults \/ Fault
    BY <1>8 DEF Cleanup, OnlyCleanUp, SelectBatch, DeleteSecret, AcknowledgeDeletion, DeferCleanup,
                database, store
  <2> QED BY <2>1, StepsBesideTheKey, FaultsAreCounted
<1>9. CASE Crash
  BY <1>9, StepsBesideTheKey, FaultsAreCounted DEF Crash, database, store
<1>10. CASE LoseKey
  BY <1>10, FaultsAreCounted, LimitsOfCleanup DEF LoseKey, database, KeyInv, SavedWith, Key
<1>11. CASE UNCHANGED vars
  BY <1>11 DEF vars, database, store, KeyInv, SavedWith
<1> QED
  BY <1>1, <1>2, <1>3, <1>4, <1>5, <1>6, <1>7, <1>8, <1>9, <1>10, <1>11 DEF Next, Mutate

(* A repeated save is told from a different one by the key it was recorded *)
(* with: no restart, lost key or start-up that failed half-way puts        *)
(* another key in its place.                                               *)
THEOREM SavesStayRecognisable == Spec => []RepeatsAreRecognised
<1>1. Init => KeyInv
  BY LimitsOfCleanup DEF Init, KeyInv, SavedWith, Key
<1>2. KeyInv => RepeatsAreRecognised
  BY DEF KeyInv, SavedWith, RepeatsAreRecognised
<1> QED BY <1>1, <1>2, StepsKeepKey, PTL DEF Spec
------------------------------------------------------------
(***************************************************************************)
(* Loops of the discovery actor.                                           *)
(***************************************************************************)

(* How many turns the loops may take *)
Turns == Cardinality(Processes)
LEMMA TurnsAreNatural == Turns \in Nat
BY ProcessesAreOrdered, FS_CardinalityType DEF Turns

(* pump_enrichments, turn by turn *)
LEMMA EnrichmentTurns ==
  ASSUME NEW a
  PROVE  \E after : /\ after[0] = a /\ PumpEnrichments(a) = after[Turns]
                    /\ \A i \in 1..Turns : after[i] = StartEnrichment(after[i - 1])
<1> DEFINE Begins(f, k) == f = [i \in 0..k |-> IF i = 0 THEN a ELSE StartEnrichment(f[i - 1])]
           good == {k \in 0..Turns : \E f : Begins(f, k)}
<1> HIDE DEF Begins
<1>1. 0 \in good
  <2> DEFINE f == [i \in 0..0 |-> a]
  <2>1. f = [i \in 0..0 |-> IF i = 0 THEN a ELSE StartEnrichment(f[i - 1])]
    OBVIOUS
  <2>2. Begins(f, 0)
    BY <2>1, Zenon DEF Begins
  <2> QED  BY <2>2, TurnsAreNatural
<1>2. ASSUME NEW k \in good, k < Turns PROVE k + 1 \in good
  <2>1. PICK f : Begins(f, k)
    OBVIOUS
  <2> DEFINE g == [i \in 0..k + 1 |-> IF i <= k THEN f[i] ELSE StartEnrichment(f[k])]
  <2>2. k \in Nat /\ k + 1 \in 0..Turns
    BY <1>2, TurnsAreNatural
  <2>3. \A i \in 0..k : f[i] = IF i = 0 THEN a ELSE StartEnrichment(f[i - 1])
    <3>1. f = [i \in 0..k |-> IF i = 0 THEN a ELSE StartEnrichment(f[i - 1])]
      BY <2>1, Zenon DEF Begins
    <3> DEFINE step(i) == IF i = 0 THEN a ELSE StartEnrichment(f[i - 1])
    <3>2. f = [i \in 0..k |-> step(i)]
      BY <3>1
    <3> HIDE DEF step
    <3>3. \A i \in 0..k : f[i] = step(i)
      BY <3>2
    <3> QED  BY <3>3 DEF step
  <2>4. ASSUME NEW i \in 0..k + 1 PROVE g[i] = IF i = 0 THEN a ELSE StartEnrichment(g[i - 1])
    <3>1. CASE i <= k
      BY <2>2, <2>3, <3>1
    <3>2. CASE ~(i <= k)
      BY <2>2, <3>2
    <3> QED  BY <3>1, <3>2
  <2>5. Begins(g, k + 1)
    <3> DEFINE step(i) == IF i = 0 THEN a ELSE StartEnrichment(g[i - 1])
               other(i) == IF i <= k THEN f[i] ELSE StartEnrichment(f[k])
    <3>1. \A i \in 0..k + 1 : other(i) = step(i)
      BY <2>4
    <3>2. g = [i \in 0..k + 1 |-> other(i)]
      OBVIOUS
    <3> HIDE DEF g, step, other
    <3>3. g = [i \in 0..k + 1 |-> step(i)]
      BY <3>1, <3>2
    <3> QED  BY <3>3, Zenon DEF Begins, step
  <2> QED  BY <2>2, <2>5, Zenon
<1>3. Turns \in good
  BY <1>1, <1>2, TurnsAreNatural, UpTo
<1> DEFINE after == CHOOSE f : Begins(f, Turns)
<1>4. PumpEnrichments(a) = after[Turns]
  BY Zenon DEF PumpEnrichments, Turns, Begins
<1>5. Begins(after, Turns)
  BY <1>3, Zenon
<1> HIDE DEF after
<1>6. after[0] = a /\ \A i \in 1..Turns : after[i] = StartEnrichment(after[i - 1])
  <2> DEFINE step(i) == IF i = 0 THEN a ELSE StartEnrichment(after[i - 1])
  <2>1. after = [i \in 0..Turns |-> step(i)]
    BY <1>5 DEF Begins
  <2> HIDE DEF step
  <2>2. \A i \in 0..Turns : after[i] = step(i)
    BY <2>1
  <2>3. 0 \in 0..Turns /\ \A i \in 1..Turns : i \in 0..Turns /\ i # 0
    BY TurnsAreNatural
  <2> QED  BY <2>2, <2>3 DEF step
<1> QED  BY <1>4, <1>6, Zenon

(* pump_project_scans, turn by turn *)
LEMMA ProjectScanTurns ==
  ASSUME NEW a
  PROVE  \E after : /\ after[0] = a /\ PumpProjectScans(a) = after[Turns]
                    /\ \A i \in 1..Turns : after[i] = StartProjectScan(after[i - 1])
<1> DEFINE Begins(f, k) == f = [i \in 0..k |-> IF i = 0 THEN a ELSE StartProjectScan(f[i - 1])]
           good == {k \in 0..Turns : \E f : Begins(f, k)}
<1> HIDE DEF Begins
<1>1. 0 \in good
  <2> DEFINE f == [i \in 0..0 |-> a]
  <2>1. f = [i \in 0..0 |-> IF i = 0 THEN a ELSE StartProjectScan(f[i - 1])]
    OBVIOUS
  <2>2. Begins(f, 0)
    BY <2>1, Zenon DEF Begins
  <2> QED  BY <2>2, TurnsAreNatural
<1>2. ASSUME NEW k \in good, k < Turns PROVE k + 1 \in good
  <2>1. PICK f : Begins(f, k)
    OBVIOUS
  <2> DEFINE g == [i \in 0..k + 1 |-> IF i <= k THEN f[i] ELSE StartProjectScan(f[k])]
  <2>2. k \in Nat /\ k + 1 \in 0..Turns
    BY <1>2, TurnsAreNatural
  <2>3. \A i \in 0..k : f[i] = IF i = 0 THEN a ELSE StartProjectScan(f[i - 1])
    <3>1. f = [i \in 0..k |-> IF i = 0 THEN a ELSE StartProjectScan(f[i - 1])]
      BY <2>1, Zenon DEF Begins
    <3> DEFINE step(i) == IF i = 0 THEN a ELSE StartProjectScan(f[i - 1])
    <3>2. f = [i \in 0..k |-> step(i)]
      BY <3>1
    <3> HIDE DEF step
    <3>3. \A i \in 0..k : f[i] = step(i)
      BY <3>2
    <3> QED  BY <3>3 DEF step
  <2>4. ASSUME NEW i \in 0..k + 1 PROVE g[i] = IF i = 0 THEN a ELSE StartProjectScan(g[i - 1])
    <3>1. CASE i <= k
      <4>1. i \in 0..k /\ g[i] = f[i] /\ (i # 0 => i - 1 \in 0..k + 1 /\ i - 1 <= k)
        BY <2>2, <3>1
      <4>2. i # 0 => g[i - 1] = f[i - 1]
        BY <4>1
      <4> QED  BY <4>1, <4>2, <2>3
    <3>2. CASE ~(i <= k)
      BY <2>2, <3>2
    <3> QED  BY <3>1, <3>2
  <2>5. Begins(g, k + 1)
    <3> DEFINE step(i) == IF i = 0 THEN a ELSE StartProjectScan(g[i - 1])
               other(i) == IF i <= k THEN f[i] ELSE StartProjectScan(f[k])
    <3>1. \A i \in 0..k + 1 : other(i) = step(i)
      BY <2>4
    <3>2. g = [i \in 0..k + 1 |-> other(i)]
      OBVIOUS
    <3> HIDE DEF g, step, other
    <3>3. g = [i \in 0..k + 1 |-> step(i)]
      BY <3>1, <3>2
    <3> QED  BY <3>3, Zenon DEF Begins, step
  <2> QED  BY <2>2, <2>5, Zenon
<1>3. Turns \in good
  <2>1. good \in SUBSET (0..Turns)
    OBVIOUS
  <2> HIDE DEF good
  <2> QED  BY <1>1, <1>2, <2>1, TurnsAreNatural, UpTo
<1> DEFINE after == CHOOSE f : Begins(f, Turns)
<1>4. PumpProjectScans(a) = after[Turns]
  BY Zenon DEF PumpProjectScans, Turns, Begins
<1>5. Begins(after, Turns)
  BY <1>3, Zenon
<1> HIDE DEF after
<1>6. after[0] = a /\ \A i \in 1..Turns : after[i] = StartProjectScan(after[i - 1])
  <2> DEFINE step(i) == IF i = 0 THEN a ELSE StartProjectScan(after[i - 1])
  <2>1. after = [i \in 0..Turns |-> step(i)]
    BY <1>5 DEF Begins
  <2> HIDE DEF step
  <2>2. \A i \in 0..Turns : after[i] = step(i)
    BY <2>1
  <2>3. 0 \in 0..Turns /\ \A i \in 1..Turns : i \in 0..Turns /\ i # 0
    BY TurnsAreNatural
  <2> QED  BY <2>2, <2>3 DEF step
<1> QED  BY <1>4, <1>6, Zenon

NewTurn(a, keys, i) ==
  IF Nth(i) \in keys THEN QueueEnrichment(a, Nth(i), New, Metadata) ELSE a

QueueTurn(a, keys, i, priority) ==
  IF Nth(i) \in keys THEN QueueProjectScan(a, Nth(i), priority) ELSE a

(* What a fast scan queues of new processes, one by one *)
LEMMA NewEnrichmentTurns ==
  ASSUME NEW a, NEW keys
  PROVE  \E after : /\ after[0] = a /\ QueueNewEnrichments(a, keys) = after[Turns]
                    /\ \A i \in 1..Turns : after[i] = NewTurn(after[i - 1], keys, i)
<1> DEFINE Begins(f, k) == f = [i \in 0..k |-> IF i = 0 THEN a ELSE NewTurn(f[i - 1], keys, i)]
           good == {k \in 0..Turns : \E f : Begins(f, k)}
<1> HIDE DEF Begins
<1>1. 0 \in good
  <2> DEFINE f == [i \in 0..0 |-> a]
  <2>1. f = [i \in 0..0 |-> IF i = 0 THEN a ELSE NewTurn(f[i - 1], keys, i)]
    OBVIOUS
  <2>2. Begins(f, 0)
    BY <2>1, Zenon DEF Begins
  <2> QED  BY <2>2, TurnsAreNatural
<1>2. ASSUME NEW k \in good, k < Turns PROVE k + 1 \in good
  <2>1. PICK f : Begins(f, k)
    OBVIOUS
  <2> DEFINE g == [i \in 0..k + 1 |-> IF i <= k THEN f[i] ELSE NewTurn(f[k], keys, k + 1)]
  <2>2. k \in Nat /\ k + 1 \in 0..Turns
    BY <1>2, TurnsAreNatural
  <2>3. \A i \in 0..k : f[i] = IF i = 0 THEN a ELSE NewTurn(f[i - 1], keys, i)
    <3>1. f = [i \in 0..k |-> IF i = 0 THEN a ELSE NewTurn(f[i - 1], keys, i)]
      BY <2>1, Zenon DEF Begins
    <3> DEFINE step(i) == IF i = 0 THEN a ELSE NewTurn(f[i - 1], keys, i)
    <3>2. f = [i \in 0..k |-> step(i)]
      BY <3>1
    <3> HIDE DEF step
    <3>3. \A i \in 0..k : f[i] = step(i)
      BY <3>2
    <3> QED  BY <3>3 DEF step
  <2>4. ASSUME NEW i \in 0..k + 1 PROVE g[i] = IF i = 0 THEN a ELSE NewTurn(g[i - 1], keys, i)
    <3>1. CASE i <= k
      <4>1. i \in 0..k /\ g[i] = f[i] /\ (i # 0 => i - 1 \in 0..k + 1 /\ i - 1 <= k)
        BY <2>2, <3>1
      <4>2. i # 0 => g[i - 1] = f[i - 1]
        BY <4>1
      <4> QED  BY <4>1, <4>2, <2>3
    <3>2. CASE ~(i <= k)
      BY <2>2, <3>2
    <3> QED  BY <3>1, <3>2
  <2>5. Begins(g, k + 1)
    <3> DEFINE step(i) == IF i = 0 THEN a ELSE NewTurn(g[i - 1], keys, i)
               other(i) == IF i <= k THEN f[i] ELSE NewTurn(f[k], keys, k + 1)
    <3>1. \A i \in 0..k + 1 : other(i) = step(i)
      BY <2>4
    <3>2. g = [i \in 0..k + 1 |-> other(i)]
      OBVIOUS
    <3> HIDE DEF g, step, other
    <3>3. g = [i \in 0..k + 1 |-> step(i)]
      BY <3>1, <3>2
    <3> QED  BY <3>3, Zenon DEF Begins, step
  <2> QED  BY <2>2, <2>5, Zenon
<1>3. Turns \in good
  <2>1. good \in SUBSET (0..Turns)
    OBVIOUS
  <2> HIDE DEF good
  <2> QED  BY <1>1, <1>2, <2>1, TurnsAreNatural, UpTo
<1> DEFINE after == CHOOSE f : Begins(f, Turns)
<1>4. QueueNewEnrichments(a, keys) = after[Turns]
  BY Zenon DEF QueueNewEnrichments, OneEach, NewTurn, Turns, Begins
<1>5. Begins(after, Turns)
  BY <1>3, Zenon
<1> HIDE DEF after
<1>6. after[0] = a /\ \A i \in 1..Turns : after[i] = NewTurn(after[i - 1], keys, i)
  <2> DEFINE step(i) == IF i = 0 THEN a ELSE NewTurn(after[i - 1], keys, i)
  <2>1. after = [i \in 0..Turns |-> step(i)]
    BY <1>5 DEF Begins
  <2> HIDE DEF step
  <2>2. \A i \in 0..Turns : after[i] = step(i)
    BY <2>1
  <2>3. 0 \in 0..Turns /\ \A i \in 1..Turns : i \in 0..Turns /\ i # 0
    BY TurnsAreNatural
  <2> QED  BY <2>2, <2>3 DEF step
<1> QED  BY <1>4, <1>6, Zenon

(* queue_project_scan, one by one *)
LEMMA QueueTurns ==
  ASSUME NEW a, NEW keys, NEW priority
  PROVE  \E after : /\ after[0] = a /\ QueueProjectScans(a, keys, priority) = after[Turns]
                    /\ \A i \in 1..Turns : after[i] = QueueTurn(after[i - 1], keys, i, priority)
<1> DEFINE Begins(f, k) ==
             f = [i \in 0..k |-> IF i = 0 THEN a ELSE QueueTurn(f[i - 1], keys, i, priority)]
           good == {k \in 0..Turns : \E f : Begins(f, k)}
<1> HIDE DEF Begins
<1>1. 0 \in good
  <2> DEFINE f == [i \in 0..0 |-> a]
  <2>1. f = [i \in 0..0 |-> IF i = 0 THEN a ELSE QueueTurn(f[i - 1], keys, i, priority)]
    OBVIOUS
  <2>2. Begins(f, 0)
    BY <2>1, Zenon DEF Begins
  <2> QED  BY <2>2, TurnsAreNatural
<1>2. ASSUME NEW k \in good, k < Turns PROVE k + 1 \in good
  <2>1. PICK f : Begins(f, k)
    OBVIOUS
  <2> DEFINE g == [i \in 0..k + 1 |->
                    IF i <= k THEN f[i] ELSE QueueTurn(f[k], keys, k + 1, priority)]
  <2>2. k \in Nat /\ k + 1 \in 0..Turns
    BY <1>2, TurnsAreNatural
  <2>3. \A i \in 0..k : f[i] = IF i = 0 THEN a ELSE QueueTurn(f[i - 1], keys, i, priority)
    <3>1. f = [i \in 0..k |-> IF i = 0 THEN a ELSE QueueTurn(f[i - 1], keys, i, priority)]
      BY <2>1, Zenon DEF Begins
    <3> DEFINE step(i) == IF i = 0 THEN a ELSE QueueTurn(f[i - 1], keys, i, priority)
    <3>2. f = [i \in 0..k |-> step(i)]
      BY <3>1
    <3> HIDE DEF step
    <3>3. \A i \in 0..k : f[i] = step(i)
      BY <3>2
    <3> QED  BY <3>3 DEF step
  <2>4. ASSUME NEW i \in 0..k + 1
        PROVE  g[i] = IF i = 0 THEN a ELSE QueueTurn(g[i - 1], keys, i, priority)
    <3>1. CASE i <= k
      <4>1. i \in 0..k /\ g[i] = f[i] /\ (i # 0 => i - 1 \in 0..k + 1 /\ i - 1 <= k)
        BY <2>2, <3>1
      <4>2. i # 0 => g[i - 1] = f[i - 1]
        BY <4>1
      <4> QED  BY <4>1, <4>2, <2>3
    <3>2. CASE ~(i <= k)
      BY <2>2, <3>2
    <3> QED  BY <3>1, <3>2
  <2>5. Begins(g, k + 1)
    <3> DEFINE step(i) == IF i = 0 THEN a ELSE QueueTurn(g[i - 1], keys, i, priority)
               other(i) == IF i <= k THEN f[i] ELSE QueueTurn(f[k], keys, k + 1, priority)
    <3>1. \A i \in 0..k + 1 : other(i) = step(i)
      BY <2>4
    <3>2. g = [i \in 0..k + 1 |-> other(i)]
      OBVIOUS
    <3> HIDE DEF g, step, other
    <3>3. g = [i \in 0..k + 1 |-> step(i)]
      BY <3>1, <3>2
    <3> QED  BY <3>3, Zenon DEF Begins, step
  <2> QED  BY <2>2, <2>5, Zenon
<1>3. Turns \in good
  <2>1. good \in SUBSET (0..Turns)
    OBVIOUS
  <2> HIDE DEF good
  <2> QED  BY <1>1, <1>2, <2>1, TurnsAreNatural, UpTo
<1> DEFINE after == CHOOSE f : Begins(f, Turns)
<1>4. QueueProjectScans(a, keys, priority) = after[Turns]
  BY Zenon DEF QueueProjectScans, OneEach, QueueTurn, Turns, Begins
<1>5. Begins(after, Turns)
  BY <1>3, Zenon
<1> HIDE DEF after
<1>6. after[0] = a /\ \A i \in 1..Turns : after[i] = QueueTurn(after[i - 1], keys, i, priority)
  <2> DEFINE step(i) == IF i = 0 THEN a ELSE QueueTurn(after[i - 1], keys, i, priority)
  <2>1. after = [i \in 0..Turns |-> step(i)]
    BY <1>5 DEF Begins
  <2> HIDE DEF step
  <2>2. \A i \in 0..Turns : after[i] = step(i)
    BY <2>1
  <2>3. 0 \in 0..Turns /\ \A i \in 1..Turns : i \in 0..Turns /\ i # 0
    BY TurnsAreNatural
  <2> QED  BY <2>2, <2>3 DEF step
<1> QED  BY <1>4, <1>6, Zenon

(***************************************************************************)
(* The queues of the discovery actor.                                      *)
(***************************************************************************)

Actors ==
  [phase : {"Running", "Draining", "Stopped"}, projectCapacity : Nat \ {0},
   context : [catalog : NoneOr(Catalogs), rules : NoneOr(RuleSets)], generation : Nat,
   fast : {"Idle", "Running", "Cancelled"}, fastPending : BOOLEAN,
   records : [Processes -> NoneOr(Records)], staleRecords : SUBSET Processes,
   facts : [Processes -> NoneOr(Evidences)],
   enriched : [Processes -> NoneOr(Demands)], staleEnriched : SUBSET Processes,
   projects : [Processes -> NoneOr([dir : Known, generation : Nat])],
   staleProjects : SUBSET Processes,
   pendingE : Seq(WaitingEnrichments), runningE : [Processes -> NoneOr(EnrichmentTasks)],
   pendingP : Seq(WaitingScans), runningP : [Processes -> NoneOr(ScanTasks)],
   feed : [Processes -> NoneOr(Records)], owed : [Processes -> 0..2]]

(* None is not a record, a task or a request. *)
LEMMA NoneIsNoElement ==
  /\ \A r \in Records : r # None
  /\ \A w \in WaitingEnrichments : w # None
  /\ \A w \in WaitingScans : w # None
  /\ \A t \in EnrichmentTasks : t # None
  /\ \A t \in ScanTasks : t # None
  /\ \A q \in Asked : q # None
BY NoneIsNothing

Keys(pending) == {pending[i].key : i \in DOMAIN pending}
Distinct(pending) == \A i, j \in DOMAIN pending : pending[i].key = pending[j].key => i = j

(* The places of a sequence *)
LEMMA DomainOf == ASSUME NEW S, NEW q \in Seq(S)
                  PROVE  /\ Len(q) \in Nat /\ DOMAIN q = 1..Len(q)
                         /\ \A i \in DOMAIN q : q[i] \in S
OBVIOUS

(* What is left of a queue without some keys *)
LEMMA WithoutKeeps ==
  ASSUME NEW S, NEW pending \in Seq(S), NEW keys
  PROVE  LET left == Without(pending, keys) IN
         /\ left \in Seq(S)
         /\ \A k \in DOMAIN left : \E i \in DOMAIN pending :
              left[k] = pending[i] /\ pending[i].key \notin keys
         /\ \A i \in DOMAIN pending : pending[i].key \notin keys =>
              \E k \in DOMAIN left : left[k] = pending[i]
         /\ Keys(left) = Keys(pending) \ keys
         /\ Distinct(pending) => Distinct(left)
<1> DEFINE at == {i \in DOMAIN pending : pending[i].key \notin keys}
           left == Without(pending, keys)
<1>1. left = Filtered(pending, at) /\ at \in SUBSET DOMAIN pending
  BY DEF Without
<1> HIDE DEF left
<1>2. /\ left \in Seq(S)
      /\ \A k \in DOMAIN left : \E i \in at : left[k] = pending[i]
  <2> DEFINE f == Filtered(pending, at)
  <2> HIDE DEF at
  <2>1. f \in Seq(S) /\ \A k \in DOMAIN f : \E i \in at : f[k] = pending[i]
    BY <1>1, FilteredKeeps, ZenonT(60)
  <2>2. left = f
    BY <1>1
  <2> HIDE DEF f
  <2> QED  BY <2>1, <2>2, Zenon
<1>3. /\ {left[k] : k \in DOMAIN left} = {pending[i] : i \in at}
      /\ IsInjective(pending) => IsInjective(left)
  <2> HIDE DEF at
  <2>1. /\ {Filtered(pending, at)[k] : k \in DOMAIN Filtered(pending, at)} = {pending[i] : i \in at}
        /\ IsInjective(pending) => IsInjective(Filtered(pending, at))
    BY <1>1, FilteredSelects, Zenon
  <2> QED  BY <1>1, <2>1, Zenon
<1>4. \A k \in DOMAIN left : \E i \in DOMAIN pending :
        left[k] = pending[i] /\ pending[i].key \notin keys
  BY <1>2
<1>5. \A i \in DOMAIN pending : pending[i].key \notin keys =>
        \E k \in DOMAIN left : left[k] = pending[i]
  BY <1>3
<1>6. Keys(left) = Keys(pending) \ keys
  BY <1>4, <1>5 DEF Keys
<1>7. ASSUME Distinct(pending) PROVE Distinct(left)
  <2>1. IsInjective(pending)
    BY <1>7 DEF Distinct, IsInjective
  <2>2. IsInjective(left)
    BY <2>1, <1>3
  <2>3. ASSUME NEW k \in DOMAIN left, NEW l \in DOMAIN left, left[k].key = left[l].key PROVE k = l
    <3>1. PICK i \in DOMAIN pending : left[k] = pending[i]
      BY <1>4
    <3>2. PICK j \in DOMAIN pending : left[l] = pending[j]
      BY <1>4
    <3>3. i = j
      BY <1>7, <2>3, <3>1, <3>2 DEF Distinct
    <3> QED  BY <2>2, <3>1, <3>2, <3>3 DEF IsInjective
  <2> QED  BY <2>3 DEF Distinct
<1> QED  BY <1>2, <1>4, <1>5, <1>6, <1>7 DEF left

(* Whether something of a queue may start *)
Free(pending, running) == \E i \in DOMAIN pending : running[pending[i].key] = None

(* The loops find something to start if there is something. *)
LEMMA NextIsFree ==
  ASSUME NEW S, NEW pending \in Seq(S), NEW running, \A w \in S : w # None,
         \A w \in S : w.priority \in New..Selected
  PROVE  LET next == NextPending(pending, running) IN
         /\ next # None <=> Free(pending, running)
         /\ next # None => \E i \in DOMAIN pending : next = pending[i] /\ running[next.key] = None
<1> DEFINE free == {i \in DOMAIN pending : running[pending[i].key] = None}
           first(i) == \A j \in free :
                \/ pending[i].priority > pending[j].priority
                \/ pending[i].priority = pending[j].priority /\ i <= j
           best == CHOOSE i \in free : first(i)
           next == NextPending(pending, running)
<1>1. next = IF free = {} THEN None ELSE pending[best]
  BY DEF NextPending
<1>2. Len(pending) \in Nat /\ DOMAIN pending = 1..Len(pending)
      /\ \A i \in DOMAIN pending : pending[i] \in S
  BY DomainOf
<1>3. ASSUME free # {} PROVE best \in free
  <2> DEFINE ranks == {pending[i].priority + 1 : i \in free}
  <2>1. ranks \in SUBSET (1..4) /\ ranks # {}
    BY <1>2, <1>3 DEF New, Selected
  <2>2. PICK m \in ranks : \A n \in ranks : n <= m
    <3> HIDE DEF ranks
    <3> QED  BY <2>1, LargestExists
  <2> DEFINE top == {i \in free : pending[i].priority + 1 = m}
  <2>3. top \in SUBSET Nat /\ top # {}
    BY <1>2, <2>2
  <2>4. PICK i \in top : \A j \in top : i <= j
    <3> HIDE DEF top
    <3> QED  BY <2>3, SmallestExists
  <2>5. ASSUME NEW j \in free
        PROVE  \/ pending[i].priority > pending[j].priority
               \/ pending[i].priority = pending[j].priority /\ i <= j
    <3>1. pending[j].priority + 1 <= m /\ pending[i].priority + 1 = m
      BY <2>2, <2>4
    <3>2. pending[j].priority \in Nat /\ pending[i].priority \in Nat
      BY <1>2 DEF New, Selected
    <3>3. CASE pending[j].priority + 1 = m
      BY <2>4, <3>1, <3>2, <3>3
    <3>4. CASE pending[j].priority + 1 # m
      <4>1. m \in 1..4
        BY <2>1
      <4> QED  BY <3>1, <3>2, <3>4, <4>1
    <3> QED  BY <3>3, <3>4
  <2>6. i \in free /\ first(i)
    BY <2>4, <2>5
  <2> QED  BY <2>6, Zenon
<1>4. free # {} <=> Free(pending, running)
  BY DEF Free
<1> HIDE DEF best
<1>5. ASSUME free # {} PROVE next = pending[best] /\ pending[best] # None /\ best \in DOMAIN pending
                             /\ running[pending[best].key] = None
  BY <1>1, <1>2, <1>3, <1>5
<1>6. free = {} => next = None
  BY <1>1
<1> HIDE DEF free, next
<1> QED  BY <1>4, <1>5, <1>6 DEF next

(* Only the enrichments of b differ from those of a. *)
OnlyEnrichments(a, b) ==
  /\ b.phase = a.phase /\ b.projectCapacity = a.projectCapacity /\ b.context = a.context
  /\ b.generation = a.generation /\ b.fast = a.fast /\ b.fastPending = a.fastPending
  /\ b.records = a.records /\ b.staleRecords = a.staleRecords /\ b.facts = a.facts
  /\ b.projects = a.projects /\ b.staleProjects = a.staleProjects
  /\ b.pendingP = a.pendingP /\ b.runningP = a.runningP /\ b.feed = a.feed

Covered(a, p) == a.owed[p] > 0 =>
  \/ \E i \in DOMAIN a.pendingE : a.pendingE[i].key = p /\ a.pendingE[i].demand >= a.owed[p]
  \/ a.runningE[p] # None /\ ~a.runningE[p].cancelled /\ a.runningE[p].desired >= a.owed[p]

(* What the enrichments of a process satisfy; a task that runs looks for *)
(* more than the cache has.                                              *)
EnrichmentOf(a, p) ==
  /\ Covered(a, p)
  /\ a.records[p] = None => a.owed[p] = 0
  /\ a.runningE[p] # None => a.enriched[p] = None \/ a.enriched[p] < a.runningE[p].started

EnrichmentsKept(a) ==
  /\ \A p \in Processes : EnrichmentOf(a, p)
  /\ Distinct(a.pendingE)
  /\ Cardinality(Running(a.runningE)) <= EnrichmentConcurrency

EnrichmentsHalt(a) == \/ Cardinality(Running(a.runningE)) >= EnrichmentConcurrency
                      \/ ~Free(a.pendingE, a.runningE)

(* However many tasks run, they can be counted. *)
LEMMA RunningIsFinite ==
  ASSUME NEW tasks
  PROVE  IsFiniteSet(Running(tasks)) /\ Cardinality(Running(tasks)) \in Nat
BY ProcessesAreOrdered, FS_Subset, FS_CardinalityType DEF Running

(* One more task runs. *)
LEMMA OneMoreRuns ==
  ASSUME NEW tasks, NEW after, NEW p \in Processes, tasks[p] = None, after[p] # None,
         \A q \in Processes : q # p => after[q] = tasks[q]
  PROVE  Cardinality(Running(after)) = Cardinality(Running(tasks)) + 1
<1>1. Running(after) = Running(tasks) \cup {p} /\ p \notin Running(tasks)
  BY DEF Running
<1> QED  BY <1>1, RunningIsFinite, FS_AddElement, Zenon

(* The fields of a task that was started *)
StartedTask(next) == [cancelled |-> FALSE, priority |-> next.priority,
                      started |-> next.demand, desired |-> next.demand]

(* One turn of pump_enrichments either changes nothing, and only when  *)
(* nothing may start, or takes one pending task away; and no demand is *)
(* lost.                                                               *)
LEMMA StartEnrichmentStep ==
  ASSUME NEW a \in Actors
  PROVE  LET b == StartEnrichment(a) IN
         /\ b \in Actors /\ OnlyEnrichments(a, b)
         /\ EnrichmentsHalt(a) => b = a
         /\ ~EnrichmentsHalt(a) =>
              \E p \in Keys(a.pendingE) : Keys(b.pendingE) = Keys(a.pendingE) \ {p}
         /\ EnrichmentsKept(a) => EnrichmentsKept(b)
<1> DEFINE b == StartEnrichment(a)
           next == NextPending(a.pendingE, a.runningE)
           p == next.key
           left == Without(a.pendingE, {p})
           taken == [a EXCEPT !.pendingE = left]
           fresh == a.enriched[p] # None /\ p \notin a.staleEnriched
           full == Cardinality(Running(a.runningE)) >= EnrichmentConcurrency
<1>1. /\ a.pendingE \in Seq(WaitingEnrichments)
      /\ a.runningE \in [Processes -> NoneOr(EnrichmentTasks)]
      /\ a.owed \in [Processes -> 0..2] /\ a.enriched \in [Processes -> NoneOr(Demands)]
      /\ a.staleEnriched \in SUBSET Processes
  BY DEF Actors
<1>2. /\ next # None <=> Free(a.pendingE, a.runningE)
      /\ next # None => \E i \in DOMAIN a.pendingE :
                          next = a.pendingE[i] /\ a.runningE[next.key] = None
  <2>1. \A w \in WaitingEnrichments : w # None /\ w.priority \in New..Selected
    BY NoneIsNoElement DEF WaitingEnrichments
  <2> HIDE DEF next
  <2> QED  BY <1>1, <2>1, NextIsFree DEF next
<1>3. EnrichmentsHalt(a) <=> full \/ next = None
  BY <1>2 DEF EnrichmentsHalt
<1>4. CASE EnrichmentsHalt(a)
  BY <1>3, <1>4 DEF StartEnrichment, OnlyEnrichments
<1>5. CASE ~EnrichmentsHalt(a)
  <2>1. PICK at \in DOMAIN a.pendingE : next = a.pendingE[at] /\ a.runningE[next.key] = None
    BY <1>2, <1>3, <1>5
  <2>2. /\ next \in WaitingEnrichments /\ p \in Processes /\ a.runningE[p] = None
        /\ p \in Keys(a.pendingE) /\ next.demand \in Demands /\ next.priority \in New..Selected
    <3> HIDE DEF next
    <3>1. next \in WaitingEnrichments
      BY <1>1, <2>1, DomainOf
    <3>2. p \in Processes /\ next.demand \in Demands /\ next.priority \in New..Selected
      BY <3>1 DEF WaitingEnrichments
    <3> QED  BY <2>1, <3>1, <3>2 DEF Keys
  <2>3. /\ left \in Seq(WaitingEnrichments) /\ Keys(left) = Keys(a.pendingE) \ {p}
        /\ Distinct(a.pendingE) => Distinct(left)
        /\ \A i \in DOMAIN a.pendingE : a.pendingE[i].key \notin {p} =>
             \E k \in DOMAIN left : left[k] = a.pendingE[i]
    <3> DEFINE q == a.pendingE
               keys == {p}
    <3> HIDE DEF left, next, p, q, keys
    <3>1. q \in Seq(WaitingEnrichments) /\ left = Without(q, keys)
      BY <1>1 DEF left, q, keys
    <3>2. /\ left \in Seq(WaitingEnrichments) /\ Keys(left) = Keys(q) \ keys
          /\ Distinct(q) => Distinct(left)
          /\ \A i \in DOMAIN q : q[i].key \notin keys => \E k \in DOMAIN left : left[k] = q[i]
      BY <3>1, WithoutKeeps
    <3> QED  BY <3>2 DEF q, keys
  <2>0. ~(full \/ next = None)
    BY <1>3, <1>5
  <2> HIDE DEF next, p, left, b
  <2>4. ASSUME EnrichmentsKept(a), NEW q \in Processes
        PROVE  /\ a.owed[q] \in 0..2 /\ (a.records[q] = None => a.owed[q] = 0)
               /\ q # p /\ a.owed[q] > 0 =>
                    \/ \E k \in DOMAIN left : left[k].key = q /\ left[k].demand >= a.owed[q]
                    \/ a.runningE[q] # None /\ ~a.runningE[q].cancelled
                       /\ a.runningE[q].desired >= a.owed[q]
               /\ q = p => a.owed[q] <= next.demand
    <3>1. EnrichmentOf(a, q) /\ Distinct(a.pendingE)
      BY <2>4 DEF EnrichmentsKept
    <3>2. a.owed[q] \in 0..2
      BY <1>1
    <3>3. ASSUME q # p, a.owed[q] > 0, NEW i \in DOMAIN a.pendingE, a.pendingE[i].key = q,
                 a.pendingE[i].demand >= a.owed[q]
          PROVE  \E k \in DOMAIN left : left[k].key = q /\ left[k].demand >= a.owed[q]
      BY <2>3, <3>3
    <3>4. ASSUME q = p PROVE a.owed[q] <= next.demand
      <4>1. CASE a.owed[q] > 0
        <5>1. PICK i \in DOMAIN a.pendingE : a.pendingE[i].key = p
              /\ a.pendingE[i].demand >= a.owed[q]
          BY <2>2, <3>1, <3>4, <4>1 DEF EnrichmentOf, Covered
        <5>2. next = a.pendingE[i]
          BY <2>1, <3>1, <5>1 DEF Distinct, p
        <5>3. next.demand \in Nat
          BY <2>2 DEF Demands, Metadata, MetadataAndPorts
        <5> QED  BY <3>2, <5>1, <5>2, <5>3
      <4>2. CASE ~(a.owed[q] > 0)
        BY <2>2, <3>2, <4>2 DEF Demands, Metadata, MetadataAndPorts
      <4> QED  BY <4>1, <4>2
    <3> QED  BY <3>1, <3>2, <3>3, <3>4 DEF EnrichmentOf, Covered
  <2>5. CASE a.records[p] = None
    <3>1. b = [a EXCEPT !.pendingE = left]
      BY <2>0, <2>5 DEF StartEnrichment, b, p, next, left
    <3>2. b \in Actors /\ OnlyEnrichments(a, b) /\ b.pendingE = left /\ b.runningE = a.runningE
          /\ b.owed = a.owed /\ b.enriched = a.enriched
      BY <2>3, <3>1 DEF Actors, OnlyEnrichments
    <3>3. ASSUME EnrichmentsKept(a) PROVE EnrichmentsKept(b)
      <4>1. ASSUME NEW q \in Processes PROVE EnrichmentOf(b, q)
        BY <2>4, <2>5, <3>2, <3>3 DEF EnrichmentsKept, Covered, EnrichmentOf, OnlyEnrichments
      <4> QED  BY <2>3, <3>2, <3>3, <4>1 DEF EnrichmentsKept
    <3> QED  BY <1>5, <2>2, <2>3, <3>2, <3>3 DEF b
  <2>6. CASE a.records[p] # None /\ fresh /\ a.enriched[p] >= next.demand
    <3>1. b = [[a EXCEPT !.pendingE = left] EXCEPT !.owed = Settled(@, p, next.demand)]
      BY <2>0, <2>6 DEF StartEnrichment, b, p, next, left
    <3>2. Settled(a.owed, p, next.demand) \in [Processes -> 0..2]
      BY <1>1, <2>2 DEF Settled
    <3>3. b \in Actors /\ OnlyEnrichments(a, b) /\ b.pendingE = left /\ b.runningE = a.runningE
          /\ b.owed = Settled(a.owed, p, next.demand) /\ b.enriched = a.enriched
      BY <2>3, <3>1, <3>2 DEF Actors, OnlyEnrichments
    <3>4. ASSUME EnrichmentsKept(a) PROVE EnrichmentsKept(b)
      <4>1. ASSUME NEW q \in Processes PROVE EnrichmentOf(b, q)
        <5>1. EnrichmentOf(a, q) /\ b.owed[q] = IF q = p THEN 0 ELSE a.owed[q]
          BY <1>1, <2>2, <2>4, <3>3, <3>4 DEF EnrichmentsKept, Settled
        <5>2. Covered(b, q)
          BY <2>4, <3>3, <3>4, <5>1 DEF Covered
        <5> QED  BY <3>3, <5>1, <5>2 DEF EnrichmentOf, OnlyEnrichments
      <4> QED  BY <2>3, <3>3, <3>4, <4>1 DEF EnrichmentsKept
    <3> QED  BY <1>5, <2>2, <2>3, <3>3, <3>4 DEF b
  <2>7. CASE a.records[p] # None /\ ~(fresh /\ a.enriched[p] >= next.demand)
    <3> DEFINE enriched == [a.enriched EXCEPT ![p] = IF fresh THEN @ ELSE None]
               runningE == [a.runningE EXCEPT ![p] = StartedTask(next)]
    <3>1. b = [a EXCEPT !.pendingE = left, !.enriched = enriched,
                        !.staleEnriched = a.staleEnriched \ {p}, !.runningE = runningE]
      BY <2>0, <2>7 DEF StartEnrichment, b, p, next, left, StartedTask
    <3>2. /\ enriched \in [Processes -> NoneOr(Demands)]
          /\ enriched[p] = (IF fresh THEN a.enriched[p] ELSE None)
          /\ \A q \in Processes : q # p => enriched[q] = a.enriched[q]
          /\ a.staleEnriched \ {p} \in SUBSET Processes
      BY <1>1, <2>2 DEF NoneOr
    <3>3. StartedTask(next) \in EnrichmentTasks /\ StartedTask(next).started = next.demand
          /\ StartedTask(next).desired = next.demand /\ StartedTask(next).cancelled = FALSE
      BY <2>2 DEF StartedTask, EnrichmentTasks
    <3>4. /\ runningE \in [Processes -> NoneOr(EnrichmentTasks)] /\ runningE[p] = StartedTask(next)
          /\ runningE[p] # None
          /\ \A q \in Processes : q # p => runningE[q] = a.runningE[q]
      BY <1>1, <2>2, <3>3, NoneIsNoElement DEF NoneOr
    <3> HIDE DEF enriched, runningE
    <3>5. b \in Actors /\ OnlyEnrichments(a, b) /\ b.pendingE = left /\ b.runningE = runningE
          /\ b.owed = a.owed /\ b.enriched = enriched
      BY <2>3, <3>1, <3>2, <3>4 DEF Actors, OnlyEnrichments
    <3>6. ASSUME EnrichmentsKept(a) PROVE EnrichmentsKept(b)
      <4>1. ASSUME NEW q \in Processes PROVE EnrichmentOf(b, q)
        <5>1. EnrichmentOf(a, q)
          BY <3>6 DEF EnrichmentsKept
        <5>2. Covered(b, q)
          BY <2>4, <3>3, <3>4, <3>5, <3>6, <5>1 DEF Covered
        <5>3. b.runningE[q] # None => b.enriched[q] = None \/ b.enriched[q] < b.runningE[q].started
          <6>1. CASE q = p
            <7>1. enriched[p] = None \/ (enriched[p] \in Demands /\ ~(enriched[p] >= next.demand))
              BY <1>1, <2>2, <2>7, <3>2 DEF NoneOr
            <7>2. enriched[p] = None \/ enriched[p] < next.demand
              BY <7>1, <2>2 DEF Demands, Metadata, MetadataAndPorts
            <7> QED  BY <6>1, <7>2, <3>3, <3>4, <3>5
          <6>2. CASE q # p
            BY <6>2, <5>1, <3>2, <3>4, <3>5 DEF EnrichmentOf
          <6> QED  BY <6>1, <6>2
        <5> QED  BY <3>5, <5>1, <5>2, <5>3 DEF EnrichmentOf, OnlyEnrichments
      <4>2. Cardinality(Running(b.runningE)) <= EnrichmentConcurrency
        <5>1. Cardinality(Running(b.runningE)) = Cardinality(Running(a.runningE)) + 1
          BY <2>2, <3>4, <3>5, OneMoreRuns
        <5> QED  BY <5>1, <2>0, RunningIsFinite, CapacitiesArePositive
      <4> QED  BY <2>3, <3>5, <3>6, <4>1, <4>2 DEF EnrichmentsKept
    <3> QED  BY <1>5, <2>2, <2>3, <3>5, <3>6 DEF b
  <2> QED  BY <2>5, <2>6, <2>7 DEF b
<1> QED  BY <1>4, <1>5

LEMMA OnlyEnrichmentsCompose ==
  ASSUME NEW a, NEW b, NEW c, OnlyEnrichments(a, b), OnlyEnrichments(b, c)
  PROVE  OnlyEnrichments(a, c)
BY DEF OnlyEnrichments

(* A queue waits for no more keys than there are processes. *)
LEMMA KeysAreFinite ==
  ASSUME NEW S, NEW pending \in Seq(S), \A w \in S : w.key \in Processes
  PROVE  /\ IsFiniteSet(Keys(pending)) /\ Cardinality(Keys(pending)) \in Nat
         /\ Cardinality(Keys(pending)) <= Turns
BY DomainOf, ProcessesAreOrdered, FS_Subset, FS_CardinalityType DEF Keys, Turns

(* pump_enrichments goes on until nothing may start, and loses no demand. *)
LEMMA PumpEnrichmentsStep ==
  ASSUME NEW a \in Actors
  PROVE  LET b == PumpEnrichments(a) IN
         /\ b \in Actors /\ OnlyEnrichments(a, b)
         /\ EnrichmentsHalt(b)
         /\ EnrichmentsHalt(a) => b = a
         /\ EnrichmentsKept(a) => EnrichmentsKept(b)
<1> DEFINE b == PumpEnrichments(a)
           size(x) == Cardinality(Keys(x.pendingE))
<1>1. PICK after : /\ after[0] = a /\ b = after[Turns]
                   /\ \A i \in 1..Turns : after[i] = StartEnrichment(after[i - 1])
  BY EnrichmentTurns, Zenon
<1>2. \A x \in Actors : size(x) \in Nat /\ size(x) <= Turns /\ IsFiniteSet(Keys(x.pendingE))
  <2> SUFFICES ASSUME NEW x \in Actors
               PROVE  size(x) \in Nat /\ size(x) <= Turns /\ IsFiniteSet(Keys(x.pendingE))
    OBVIOUS
  <2>1. x.pendingE \in Seq(WaitingEnrichments) /\ \A w \in WaitingEnrichments : w.key \in Processes
    BY DEF Actors, WaitingEnrichments
  <2> QED  BY <2>1, KeysAreFinite
<1> DEFINE goes(i) == /\ after[i] \in Actors /\ OnlyEnrichments(a, after[i])
                      /\ EnrichmentsHalt(after[i]) \/ size(after[i]) <= Turns - i
                      /\ EnrichmentsHalt(a) => after[i] = a
                      /\ EnrichmentsKept(a) => EnrichmentsKept(after[i])
           good == {i \in 0..Turns : goes(i)}
<1>3. 0 \in good
  <2>1. OnlyEnrichments(a, a)
    BY DEF OnlyEnrichments
  <2>2. size(a) <= Turns - 0 /\ 0 \in 0..Turns
    BY <1>2, TurnsAreNatural
  <2> HIDE DEF size
  <2> QED  BY <1>1, <2>1, <2>2
<1>4. ASSUME NEW i \in good, i < Turns PROVE i + 1 \in good
  <2>1. i \in 0..Turns /\ goes(i) /\ i + 1 \in 0..Turns /\ i + 1 \in 1..Turns /\ i \in Nat
        /\ (i + 1) - 1 = i
    BY <1>4, TurnsAreNatural
  <2> DEFINE x == after[i]
             y == after[i + 1]
  <2>2. y = StartEnrichment(x)
    BY <1>1, <2>1
  <2> HIDE DEF x, y, size
  <2>3. /\ x \in Actors /\ OnlyEnrichments(a, x)
        /\ EnrichmentsHalt(x) \/ size(x) <= Turns - i
        /\ EnrichmentsHalt(a) => x = a
        /\ EnrichmentsKept(a) => EnrichmentsKept(x)
    BY <2>1 DEF x
  <2>4. /\ y \in Actors /\ OnlyEnrichments(x, y)
        /\ EnrichmentsHalt(x) => y = x
        /\ ~EnrichmentsHalt(x) =>
             \E p \in Keys(x.pendingE) : Keys(y.pendingE) = Keys(x.pendingE) \ {p}
        /\ EnrichmentsKept(x) => EnrichmentsKept(y)
    BY <2>2, <2>3, StartEnrichmentStep, Zenon
  <2>5. OnlyEnrichments(a, y)
    BY <2>3, <2>4, OnlyEnrichmentsCompose
  <2>6. EnrichmentsHalt(y) \/ size(y) <= Turns - (i + 1)
    <3>1. CASE EnrichmentsHalt(x)
      BY <3>1, <2>4
    <3>2. CASE ~EnrichmentsHalt(x)
      <4>1. PICK p \in Keys(x.pendingE) : Keys(y.pendingE) = Keys(x.pendingE) \ {p}
        BY <2>4, <3>2
      <4>2. size(y) = size(x) - 1
        <5>1. IsFiniteSet(Keys(x.pendingE))
          BY <1>2, <2>3
        <5> QED  BY <4>1, <5>1, FS_RemoveElement, Zenon DEF size
      <4>3. size(x) <= Turns - i /\ size(x) \in Nat
        BY <3>2, <2>3, <1>2
      <4> QED  BY <4>2, <4>3, <2>1, TurnsAreNatural
    <3> QED  BY <3>1, <3>2
  <2>7. goes(i + 1)
    BY <2>3, <2>4, <2>5, <2>6 DEF y
  <2> QED  BY <2>1, <2>7
<1>5. Turns \in good
  BY <1>3, <1>4, TurnsAreNatural, UpTo
<1>6. /\ b \in Actors /\ OnlyEnrichments(a, b)
      /\ EnrichmentsHalt(b) \/ size(b) <= Turns - Turns
      /\ EnrichmentsHalt(a) => b = a
      /\ EnrichmentsKept(a) => EnrichmentsKept(b)
  BY <1>1, <1>5
<1>7. EnrichmentsHalt(b)
  <2> SUFFICES ASSUME ~EnrichmentsHalt(b) PROVE FALSE
    OBVIOUS
  <2> HIDE DEF b, size
  <2>1. size(b) = 0
    BY <1>2, <1>6, TurnsAreNatural
  <2>2. Keys(b.pendingE) = {}
    BY <1>2, <1>6, <2>1, FS_EmptySet, Zenon DEF size
  <2> QED  BY <2>2 DEF Keys, EnrichmentsHalt, Free
<1> QED  BY <1>6, <1>7

(* Like EnrichmentsKept, but the demand of p may be what is asked for now. *)
NearlyKept(a, p, demand) ==
  /\ \A q \in Processes : q # p => EnrichmentOf(a, q)
  /\ a.records[p] = None => a.owed[p] = 0
  /\ a.runningE[p] # None => a.enriched[p] = None \/ a.enriched[p] < a.runningE[p].started
  /\ \/ Covered(a, p)
     \/ a.owed[p] <= demand /\ (a.enriched[p] = None \/ a.enriched[p] < demand)
  /\ Distinct(a.pendingE)
  /\ Cardinality(Running(a.runningE)) <= EnrichmentConcurrency

LEMMA KeptIsNearlyKept ==
  ASSUME NEW a, NEW p \in Processes, NEW demand, EnrichmentsKept(a)
  PROVE  NearlyKept(a, p, demand)
BY DEF EnrichmentsKept, EnrichmentOf, NearlyKept

(* The greater of two demands or of two priorities *)
LEMMA MaxOfDemands ==
  ASSUME NEW S \in {0..2, Demands, New..Selected}, NEW m \in S, NEW n \in S
  PROVE  MaxOf(m, n) \in S /\ MaxOf(m, n) >= m /\ MaxOf(m, n) >= n
         /\ (m <= n => MaxOf(m, n) = n) /\ (n <= m => MaxOf(m, n) = m)
BY DEF MaxOf, Demands, New, Selected, Metadata, MetadataAndPorts

(* Which tasks run, and what may start of a queue, depends on the keys. *)
LEMMA HaltDependsOnKeys ==
  ASSUME NEW a, NEW b, Running(a.runningE) = Running(b.runningE),
         Keys(a.pendingE) = Keys(b.pendingE), Keys(a.pendingE) \in SUBSET Processes,
         EnrichmentsHalt(a)
  PROVE  EnrichmentsHalt(b)
<1>1. Free(b.pendingE, b.runningE) => Free(a.pendingE, a.runningE)
  <2> SUFFICES ASSUME NEW i \in DOMAIN b.pendingE, b.runningE[b.pendingE[i].key] = None
               PROVE  Free(a.pendingE, a.runningE)
    BY DEF Free
  <2>1. b.pendingE[i].key \in Keys(a.pendingE)
    BY DEF Keys
  <2>2. PICK j \in DOMAIN a.pendingE : a.pendingE[j].key = b.pendingE[i].key
    BY <2>1 DEF Keys
  <2>3. b.pendingE[i].key \in Processes /\ b.pendingE[i].key \notin Running(b.runningE)
    BY <2>1 DEF Running
  <2>4. a.runningE[a.pendingE[j].key] = None
    BY <2>2, <2>3 DEF Running
  <2> QED  BY <2>4 DEF Free
<1> QED  BY <1>1 DEF EnrichmentsHalt

(* Queues and what waits in them *)
LEMMA EnrichmentKeys == ASSUME NEW x \in Actors PROVE Keys(x.pendingE) \in SUBSET Processes
<1>1. x.pendingE \in Seq(WaitingEnrichments)
  BY DEF Actors
<1>2. \A i \in DOMAIN x.pendingE : x.pendingE[i].key \in Processes
  <2> DEFINE pending == x.pendingE
  <2> HIDE DEF pending
  <2>1. \A i \in DOMAIN pending : pending[i] \in WaitingEnrichments
    BY <1>1, DomainOf DEF pending
  <2> QED  BY <2>1 DEF WaitingEnrichments, pending
<1> QED  BY <1>2 DEF Keys

(* queue_enrichment takes a demand over whatever the queues hold. *)
LEMMA QueueEnrichmentStep ==
  ASSUME NEW a \in Actors, NEW p \in Processes, NEW priority \in New..Selected,
         NEW demand \in Demands
  PROVE  LET b == QueueEnrichment(a, p, priority, demand) IN
         /\ b \in Actors /\ OnlyEnrichments(a, b)
         /\ EnrichmentsHalt(a) => EnrichmentsHalt(b)
         /\ NearlyKept(a, p, demand) => EnrichmentsKept(b)
<1> DEFINE b == QueueEnrichment(a, p, priority, demand)
           fresh == a.enriched[p] # None /\ p \notin a.staleEnriched
           enriched == [a.enriched EXCEPT ![p] = IF fresh THEN @ ELSE None]
           owed == [a.owed EXCEPT ![p] = MaxOf(@, demand)]
           m == [a EXCEPT !.enriched = enriched, !.staleEnriched = a.staleEnriched \ {p},
                          !.owed = owed]
<1>1. /\ a.pendingE \in Seq(WaitingEnrichments)
      /\ a.runningE \in [Processes -> NoneOr(EnrichmentTasks)]
      /\ a.owed \in [Processes -> 0..2] /\ a.enriched \in [Processes -> NoneOr(Demands)]
      /\ a.staleEnriched \in SUBSET Processes
  BY DEF Actors
<1>2. /\ demand \in 0..2 /\ demand \in 1..2 /\ a.owed[p] \in 0..2
      /\ a.enriched[p] = None \/ a.enriched[p] \in 1..2
  BY <1>1 DEF Demands, Metadata, MetadataAndPorts, NoneOr
<1>3. /\ owed \in [Processes -> 0..2] /\ owed[p] \in 1..2 /\ owed[p] >= demand
      /\ a.owed[p] <= demand => owed[p] = demand
      /\ demand <= a.owed[p] => owed[p] = a.owed[p]
      /\ \A q \in Processes : q # p => owed[q] = a.owed[q]
  BY <1>1, <1>2, MaxOfDemands
<1>4. /\ enriched \in [Processes -> NoneOr(Demands)] /\ a.staleEnriched \ {p} \in SUBSET Processes
      /\ enriched[p] = (IF fresh THEN a.enriched[p] ELSE None)
      /\ \A q \in Processes : q # p => enriched[q] = a.enriched[q]
  BY <1>1 DEF NoneOr
<1> HIDE DEF owed, enriched
<1>5. /\ m \in Actors /\ OnlyEnrichments(a, m) /\ m.owed = owed /\ m.enriched = enriched
      /\ m.pendingE = a.pendingE /\ m.runningE = a.runningE
  BY <1>3, <1>4 DEF Actors, OnlyEnrichments
<1>6. m = [a EXCEPT !.enriched[p] = IF fresh THEN @ ELSE None, !.staleEnriched = @ \ {p},
                    !.owed[p] = MaxOf(@, demand)]
  BY DEF Actors, enriched, owed
<1>7. ASSUME NearlyKept(a, p, demand), NEW q \in Processes, q # p PROVE EnrichmentOf(a, q)
  BY <1>7 DEF NearlyKept
<1>8. CASE a.records[p] = None
  <2>1. b = a
    BY <1>8 DEF QueueEnrichment
  <2>2. ASSUME NearlyKept(a, p, demand) PROVE EnrichmentsKept(a)
    BY <1>7, <1>8, <2>2 DEF NearlyKept, EnrichmentOf, Covered, EnrichmentsKept
  <2> QED  BY <2>1, <2>2 DEF OnlyEnrichments
<1>9. CASE a.records[p] # None /\ fresh /\ a.enriched[p] >= demand
  <2>1. b = a
    BY <1>9 DEF QueueEnrichment
  <2>2. ASSUME NearlyKept(a, p, demand) PROVE EnrichmentsKept(a)
    BY <1>2, <1>7, <1>9, <2>2 DEF NearlyKept, EnrichmentOf, EnrichmentsKept
  <2> QED  BY <2>1, <2>2 DEF OnlyEnrichments
<1> DEFINE misses == a.records[p] # None /\ ~(fresh /\ a.enriched[p] >= demand)
<1>10. ASSUME misses, NearlyKept(a, p, demand)
       PROVE  /\ a.runningE[p] # None => enriched[p] = None \/ enriched[p] < a.runningE[p].started
              /\ a.owed[p] <= demand \/ Covered(a, p)
              /\ Distinct(a.pendingE) /\ Cardinality(Running(a.runningE)) <= EnrichmentConcurrency
  BY <1>4, <1>10 DEF NearlyKept
<1>11. CASE misses /\ a.runningE[p] # None /\ ~a.runningE[p].cancelled
  <2> DEFINE t == Upgrade(a.runningE[p], priority, demand)
             runningE == [a.runningE EXCEPT ![p] = t]
  <2>1. b = [m EXCEPT !.runningE[p] = Upgrade(@, priority, demand)]
    BY <1>5, <1>6, <1>11 DEF QueueEnrichment
  <2>2. b = [m EXCEPT !.runningE = runningE]
    BY <2>1, <1>5 DEF Actors
  <2>3. a.runningE[p] \in EnrichmentTasks
    BY <1>1, <1>11 DEF NoneOr
  <2>4. /\ MaxOf(a.runningE[p].desired, demand) \in Demands
        /\ MaxOf(a.runningE[p].desired, demand) >= a.runningE[p].desired
        /\ MaxOf(a.runningE[p].desired, demand) >= demand
        /\ MaxOf(a.runningE[p].priority, priority) \in New..Selected
    BY <2>3, MaxOfDemands, ZenonT(60) DEF EnrichmentTasks
  <2>5. /\ t \in EnrichmentTasks /\ t # None /\ t.started = a.runningE[p].started /\ ~t.cancelled
        /\ t.desired = MaxOf(a.runningE[p].desired, demand)
    BY <1>11, <2>3, <2>4, NoneIsNoElement DEF EnrichmentTasks, Upgrade
  <2> HIDE DEF t
  <2>6. /\ runningE \in [Processes -> NoneOr(EnrichmentTasks)] /\ runningE[p] = t
        /\ \A q \in Processes : q # p => runningE[q] = a.runningE[q]
    BY <1>1, <2>5 DEF NoneOr
  <2> HIDE DEF runningE, m
  <2>7. /\ b \in Actors /\ OnlyEnrichments(m, b) /\ b.owed = owed /\ b.enriched = enriched
        /\ b.pendingE = a.pendingE /\ b.runningE = runningE
    BY <1>5, <2>2, <2>6, ZenonT(60) DEF Actors, OnlyEnrichments
  <2>8. OnlyEnrichments(a, b)
    BY <1>5, <2>7, OnlyEnrichmentsCompose
  <2>9. Running(b.runningE) = Running(a.runningE)
    BY <2>5, <2>6, <2>7, <1>11 DEF Running
  <2>10. EnrichmentsHalt(a) => EnrichmentsHalt(b)
    BY <2>7, <2>9, EnrichmentKeys, HaltDependsOnKeys
  <2>11. ASSUME NearlyKept(a, p, demand) PROVE EnrichmentsKept(b)
    <3>1. ASSUME NEW q \in Processes, q # p PROVE EnrichmentOf(b, q)
      <4>1. EnrichmentOf(a, q)
        BY <1>7, <2>11, <3>1
      <4>2. b.owed[q] = a.owed[q] /\ b.enriched[q] = a.enriched[q] /\ b.runningE[q] = a.runningE[q]
            /\ b.records = a.records /\ b.pendingE = a.pendingE
        BY <3>1, <1>3, <1>4, <2>6, <2>7, <2>8 DEF OnlyEnrichments
      <4> QED  BY <4>1, <4>2 DEF EnrichmentOf, Covered
    <3>2. Covered(b, p)
      <4>1. CASE a.owed[p] <= demand
        <5>1. b.owed[p] = demand /\ t.desired >= demand
          BY <4>1, <1>3, <2>4, <2>5, <2>7
        <5> QED  BY <5>1, <2>5, <2>6, <2>7 DEF Covered
      <4>2. CASE ~(a.owed[p] <= demand)
        <5>1. Covered(a, p) /\ a.owed[p] > 0 /\ b.owed[p] = a.owed[p]
          BY <4>2, <1>2, <1>3, <1>10, <1>11, <2>7, <2>11
        <5>2. CASE a.runningE[p].desired >= a.owed[p]
          <6>1. a.runningE[p].desired \in 1..2 /\ t.desired \in 1..2
            BY <2>3, <2>4, <2>5 DEF EnrichmentTasks, Demands, Metadata, MetadataAndPorts
          <6>2. t.desired >= a.owed[p]
            BY <5>2, <6>1, <1>2, <2>4, <2>5
          <6> QED  BY <5>1, <6>2, <2>5, <2>6, <2>7 DEF Covered
        <5>3. CASE ~(a.runningE[p].desired >= a.owed[p])
          BY <5>1, <5>3, <2>7 DEF Covered
        <5> QED  BY <5>2, <5>3
      <4> QED  BY <4>1, <4>2
    <3>3. b.runningE[p] # None => b.enriched[p] = None \/ b.enriched[p] < b.runningE[p].started
      BY <1>10, <1>11, <2>5, <2>6, <2>7, <2>11
    <3>4. b.records[p] # None
      BY <1>11, <2>8 DEF OnlyEnrichments
    <3> QED  BY <3>1, <3>2, <3>3, <3>4, <1>10, <1>11, <2>7, <2>9, <2>11 DEF EnrichmentsKept,
                    EnrichmentOf
  <2> QED  BY <2>7, <2>8, <2>10, <2>11
<1>12. CASE misses /\ ~(a.runningE[p] # None /\ ~a.runningE[p].cancelled) /\ Waits(a.pendingE, p)
  <2> DEFINE raised(w) == [w EXCEPT !.priority = MaxOf(@, priority), !.demand = MaxOf(@, demand)]
             pendingE == [i \in DOMAIN a.pendingE |->
                            IF a.pendingE[i].key # p THEN a.pendingE[i] ELSE raised(a.pendingE[i])]
  <2>1. b = [m EXCEPT !.pendingE = pendingE]
    <3>1. b = [m EXCEPT !.pendingE = Raised(@, p, priority, demand)]
      BY <1>5, <1>6, <1>12 DEF QueueEnrichment
    <3>2. Raised(a.pendingE, p, priority, demand) = pendingE
      BY DEF Raised
    <3> HIDE DEF pendingE, b
    <3> QED  BY <3>1, <3>2, <1>5 DEF Actors
  <2>2. ASSUME NEW i \in DOMAIN a.pendingE
        PROVE  /\ a.pendingE[i] \in WaitingEnrichments
               /\ raised(a.pendingE[i]) \in WaitingEnrichments
               /\ raised(a.pendingE[i]).key = a.pendingE[i].key
               /\ raised(a.pendingE[i]).demand >= a.pendingE[i].demand
               /\ raised(a.pendingE[i]).demand >= demand
               /\ raised(a.pendingE[i]).demand \in 1..2 /\ a.pendingE[i].demand \in 1..2
    <3> DEFINE w == a.pendingE[i]
    <3>1. w \in WaitingEnrichments
      BY <1>1, DomainOf
    <3> HIDE DEF w
    <3>2. /\ MaxOf(w.demand, demand) \in Demands /\ MaxOf(w.demand, demand) >= w.demand
          /\ MaxOf(w.demand, demand) >= demand /\ MaxOf(w.priority, priority) \in New..Selected
          /\ w.demand \in Demands
      BY <3>1, MaxOfDemands DEF WaitingEnrichments
    <3>3. raised(w) \in WaitingEnrichments /\ raised(w).key = w.key
          /\ raised(w).demand = MaxOf(w.demand, demand)
      BY <3>1, <3>2 DEF WaitingEnrichments
    <3>4. \A n \in Demands : n \in 1..2
      BY DEF Demands, Metadata, MetadataAndPorts
    <3> QED  BY <3>1, <3>2, <3>3, <3>4 DEF w
  <2> HIDE DEF raised, m
  <2>3. /\ pendingE \in Seq(WaitingEnrichments) /\ DOMAIN pendingE = DOMAIN a.pendingE
        /\ \A i \in DOMAIN a.pendingE : pendingE[i].key = a.pendingE[i].key
        /\ \A i \in DOMAIN a.pendingE : a.pendingE[i].key # p => pendingE[i] = a.pendingE[i]
        /\ \A i \in DOMAIN a.pendingE : a.pendingE[i].key = p =>
             pendingE[i].demand >= a.pendingE[i].demand /\ pendingE[i].demand >= demand
             /\ pendingE[i].demand \in 1..2 /\ a.pendingE[i].demand \in 1..2
    BY <1>1, <2>2, DomainOf
  <2> HIDE DEF pendingE
  <2>4. /\ b \in Actors /\ OnlyEnrichments(m, b) /\ b.owed = owed /\ b.enriched = enriched
        /\ b.pendingE = pendingE /\ b.runningE = a.runningE
    BY <1>5, <2>1, <2>3, ZenonT(60) DEF Actors, OnlyEnrichments
  <2>5. OnlyEnrichments(a, b)
    BY <1>5, <2>4, OnlyEnrichmentsCompose
  <2>6. EnrichmentsHalt(a) => EnrichmentsHalt(b)
    <3>1. Keys(a.pendingE) \in SUBSET Processes /\ Keys(a.pendingE) = Keys(b.pendingE)
      BY <2>3, <2>4, EnrichmentKeys DEF Keys
    <3> QED  BY <2>4, <3>1, HaltDependsOnKeys
  <2>7. ASSUME NearlyKept(a, p, demand) PROVE EnrichmentsKept(b)
    <3>1. ASSUME NEW q \in Processes, q # p PROVE EnrichmentOf(b, q)
      <4>1. EnrichmentOf(a, q)
        BY <1>7, <2>7, <3>1
      <4>2. b.owed[q] = a.owed[q] /\ b.enriched[q] = a.enriched[q] /\ b.runningE[q] = a.runningE[q]
            /\ b.records = a.records
        BY <3>1, <1>3, <1>4, <2>4, <2>5 DEF OnlyEnrichments
      <4>3. Covered(b, q)
        BY <3>1, <4>1, <4>2, <2>3, <2>4 DEF EnrichmentOf, Covered
      <4> QED  BY <4>1, <4>2, <4>3 DEF EnrichmentOf
    <3>2. Covered(b, p)
      <4>1. CASE a.owed[p] <= demand
        <5>1. PICK i \in DOMAIN a.pendingE : a.pendingE[i].key = p
          BY <1>12 DEF Waits
        <5>2. b.owed[p] = demand /\ b.pendingE[i].demand >= demand /\ b.pendingE[i].key = p
              /\ i \in DOMAIN b.pendingE
          BY <4>1, <5>1, <1>3, <2>3, <2>4
        <5> QED  BY <5>2 DEF Covered
      <4>2. CASE ~(a.owed[p] <= demand)
        <5>1. Covered(a, p) /\ a.owed[p] > 0 /\ b.owed[p] = a.owed[p]
          BY <4>2, <1>2, <1>3, <1>10, <1>12, <2>4, <2>7
        <5>2. PICK i \in DOMAIN a.pendingE : a.pendingE[i].key = p
              /\ a.pendingE[i].demand >= a.owed[p]
          BY <5>1, <1>12 DEF Covered
        <5>3. b.pendingE[i].demand >= b.owed[p] /\ b.pendingE[i].key = p /\ i \in DOMAIN b.pendingE
          BY <5>1, <5>2, <1>2, <2>3, <2>4
        <5> QED  BY <5>3 DEF Covered
      <4> QED  BY <4>1, <4>2
    <3>3. b.runningE[p] # None => b.enriched[p] = None \/ b.enriched[p] < b.runningE[p].started
      BY <1>10, <1>12, <2>4, <2>7
    <3>4. b.records[p] # None
      BY <1>12, <2>5 DEF OnlyEnrichments
    <3>5. Distinct(b.pendingE)
      BY <1>10, <1>12, <2>3, <2>4, <2>7 DEF Distinct
    <3> QED  BY <3>1, <3>2, <3>3, <3>4, <3>5, <1>10, <1>12, <2>4, <2>7 DEF EnrichmentsKept,
                    EnrichmentOf
  <2> QED  BY <2>4, <2>5, <2>6, <2>7
<1>13. CASE misses /\ ~(a.runningE[p] # None /\ ~a.runningE[p].cancelled) /\ ~Waits(a.pendingE, p)
  <2> DEFINE w == [key |-> p, priority |-> priority, demand |-> demand]
             pendingE == Append(a.pendingE, w)
             n == [m EXCEPT !.pendingE = pendingE]
  <2>1. b = PumpEnrichments(n)
    BY <1>5, <1>6, <1>13 DEF QueueEnrichment, Actors
  <2>2. w \in WaitingEnrichments /\ w.key = p /\ w.demand = demand
    BY DEF WaitingEnrichments
  <2>3. /\ pendingE \in Seq(WaitingEnrichments) /\ Len(pendingE) = Len(a.pendingE) + 1
        /\ \A i \in DOMAIN a.pendingE : i \in DOMAIN pendingE /\ pendingE[i] = a.pendingE[i]
        /\ Len(pendingE) \in DOMAIN pendingE /\ pendingE[Len(pendingE)] = w
        /\ \A i \in DOMAIN pendingE : i # Len(pendingE) => i \in DOMAIN a.pendingE
    <3> HIDE DEF w
    <3> QED  BY <1>1, <2>2
  <2> HIDE DEF w, pendingE, m
  <2>4. /\ n \in Actors /\ OnlyEnrichments(m, n) /\ n.owed = owed /\ n.enriched = enriched
        /\ n.pendingE = pendingE /\ n.runningE = a.runningE
    BY <1>5, <2>3 DEF Actors, OnlyEnrichments
  <2>5. OnlyEnrichments(a, n)
    BY <1>5, <2>4, OnlyEnrichmentsCompose
  <2> HIDE DEF n, b
  <2>6. b \in Actors /\ OnlyEnrichments(n, b) /\ EnrichmentsHalt(b)
        /\ (EnrichmentsKept(n) => EnrichmentsKept(b))
    BY <2>1, <2>4, PumpEnrichmentsStep
  <2>7. OnlyEnrichments(a, b)
    BY <2>5, <2>6, OnlyEnrichmentsCompose
  <2>8. ASSUME NearlyKept(a, p, demand) PROVE EnrichmentsKept(n)
    <3>1. ASSUME NEW q \in Processes, q # p PROVE EnrichmentOf(n, q)
      <4>1. EnrichmentOf(a, q)
        BY <1>7, <2>8, <3>1
      <4>2. n.owed[q] = a.owed[q] /\ n.enriched[q] = a.enriched[q] /\ n.runningE[q] = a.runningE[q]
            /\ n.records = a.records
        BY <3>1, <1>3, <1>4, <2>4, <2>5 DEF OnlyEnrichments
      <4>3. Covered(n, q)
        BY <4>1, <4>2, <2>3, <2>4 DEF EnrichmentOf, Covered
      <4> QED  BY <4>1, <4>2, <4>3 DEF EnrichmentOf
    <3>2. Covered(n, p)
      <4>1. a.owed[p] <= demand
        BY <1>2, <1>10, <1>13, <2>8 DEF Covered, Waits
      <4>2. n.owed[p] = demand /\ n.pendingE[Len(pendingE)].demand >= demand
            /\ n.pendingE[Len(pendingE)].key = p /\ Len(pendingE) \in DOMAIN n.pendingE
        BY <4>1, <1>2, <1>3, <2>2, <2>3, <2>4
      <4> QED  BY <4>2 DEF Covered
    <3>3. n.runningE[p] # None => n.enriched[p] = None \/ n.enriched[p] < n.runningE[p].started
      BY <1>10, <1>13, <2>4, <2>8
    <3>4. n.records[p] # None
      BY <1>13, <2>5 DEF OnlyEnrichments
    <3>5. Distinct(n.pendingE)
      <4>1. \A i \in DOMAIN a.pendingE : a.pendingE[i].key # p
        BY <1>13 DEF Waits
      <4> QED  BY <4>1, <1>10, <1>13, <2>2, <2>3, <2>4, <2>8 DEF Distinct
    <3> QED  BY <3>1, <3>2, <3>3, <3>4, <3>5, <1>10, <1>13, <2>4, <2>8 DEF EnrichmentsKept,
                    EnrichmentOf
  <2> QED  BY <2>6, <2>7, <2>8 DEF b
<1> QED  BY <1>8, <1>9, <1>11, <1>12, <1>13

(* Only the project scans of b differ from those of a. *)
OnlyScans(a, b) ==
  /\ b.phase = a.phase /\ b.projectCapacity = a.projectCapacity /\ b.context = a.context
  /\ b.generation = a.generation /\ b.fast = a.fast /\ b.fastPending = a.fastPending
  /\ b.records = a.records /\ b.staleRecords = a.staleRecords /\ b.facts = a.facts
  /\ b.enriched = a.enriched /\ b.staleEnriched = a.staleEnriched
  /\ b.pendingE = a.pendingE /\ b.runningE = a.runningE /\ b.feed = a.feed /\ b.owed = a.owed

(* A scan that runs is one of the catalog in force, or of an earlier *)
(* generation.                                                       *)
ScanIsPinned(a, p) == a.runningP[p] # None =>
  /\ a.runningP[p].generation <= a.generation
  /\ a.runningP[p].generation = a.generation => a.runningP[p].catalog = a.context.catalog

ScansKept(a) ==
  /\ \A p \in Processes : ScanIsPinned(a, p)
  /\ Cardinality(Running(a.runningP)) <= ProjectConcurrency

ScansHalt(a) == \/ Cardinality(Running(a.runningP)) >= ProjectConcurrency
                \/ ~Free(a.pendingP, a.runningP)

LEMMA ScanKeys == ASSUME NEW x \in Actors PROVE Keys(x.pendingP) \in SUBSET Processes
<1>1. x.pendingP \in Seq(WaitingScans)
  BY DEF Actors
<1>2. \A i \in DOMAIN x.pendingP : x.pendingP[i].key \in Processes
  <2> DEFINE pending == x.pendingP
  <2> HIDE DEF pending
  <2>1. \A i \in DOMAIN pending : pending[i] \in WaitingScans
    BY <1>1, DomainOf DEF pending
  <2> QED  BY <2>1 DEF WaitingScans, pending
<1> QED  BY <1>2 DEF Keys

LEMMA OnlyScansCompose ==
  ASSUME NEW a, NEW b, NEW c, OnlyScans(a, b), OnlyScans(b, c)
  PROVE  OnlyScans(a, c)
BY DEF OnlyScans

(* One turn of pump_project_scans *)
LEMMA StartProjectScanStep ==
  ASSUME NEW a \in Actors
  PROVE  LET b == StartProjectScan(a) IN
         /\ b \in Actors /\ OnlyScans(a, b)
         /\ ScansHalt(a) => b = a
         /\ ~ScansHalt(a) => \E p \in Keys(a.pendingP) : Keys(b.pendingP) = Keys(a.pendingP) \ {p}
         /\ ScansKept(a) => ScansKept(b)
<1> DEFINE b == StartProjectScan(a)
           next == NextPending(a.pendingP, a.runningP)
           p == next.key
           left == Without(a.pendingP, {p})
           fresh == a.projects[p] # None /\ p \notin a.staleProjects
           full == Cardinality(Running(a.runningP)) >= ProjectConcurrency
           skips == \/ a.records[p] = None
                    \/ ScanOf(next) # Wanted(a, p) \/ (fresh /\ a.projects[p] = ScanOf(next))
           task == [cancelled |-> FALSE, dir |-> next.dir, generation |-> next.generation,
                    catalog |-> a.context.catalog]
<1>1. /\ a.pendingP \in Seq(WaitingScans)
      /\ a.runningP \in [Processes -> NoneOr(ScanTasks)]
      /\ a.staleProjects \in SUBSET Processes /\ a.generation \in Nat
      /\ a.context.catalog \in NoneOr(Catalogs)
      /\ a.projects \in [Processes -> NoneOr([dir : Known, generation : Nat])]
  BY DEF Actors
<1>2. /\ next # None <=> Free(a.pendingP, a.runningP)
      /\ next # None => \E i \in DOMAIN a.pendingP :
                          next = a.pendingP[i] /\ a.runningP[next.key] = None
  <2>1. \A w \in WaitingScans : w # None /\ w.priority \in New..Selected
    BY NoneIsNoElement DEF WaitingScans
  <2> HIDE DEF next
  <2> QED  BY <1>1, <2>1, NextIsFree DEF next
<1>3. ScansHalt(a) <=> full \/ next = None
  BY <1>2 DEF ScansHalt
<1>4. CASE ScansHalt(a)
  BY <1>3, <1>4 DEF StartProjectScan, OnlyScans
<1>5. CASE ~ScansHalt(a)
  <2>1. PICK at \in DOMAIN a.pendingP : next = a.pendingP[at] /\ a.runningP[next.key] = None
    BY <1>2, <1>3, <1>5
  <2>2. /\ next \in WaitingScans /\ p \in Processes /\ a.runningP[p] = None
        /\ p \in Keys(a.pendingP) /\ next.dir \in Known /\ next.generation \in Nat
    <3> HIDE DEF next
    <3>1. next \in WaitingScans
      BY <1>1, <2>1, DomainOf
    <3>2. p \in Processes /\ next.dir \in Known /\ next.generation \in Nat
      BY <3>1 DEF WaitingScans
    <3> QED  BY <2>1, <3>1, <3>2 DEF Keys
  <2>3. left \in Seq(WaitingScans) /\ Keys(left) = Keys(a.pendingP) \ {p}
    <3> DEFINE q == a.pendingP
               keys == {p}
    <3> HIDE DEF left, next, p, q, keys
    <3>1. q \in Seq(WaitingScans) /\ left = Without(q, keys)
      BY <1>1 DEF left, q, keys
    <3>2. left \in Seq(WaitingScans) /\ Keys(left) = Keys(q) \ keys
      BY <3>1, WithoutKeeps
    <3> QED  BY <3>2 DEF q, keys
  <2>4. ~(full \/ next = None)
    BY <1>3, <1>5
  <2> HIDE DEF next, p, left, b
  <2>5. CASE skips
    <3>1. b = [a EXCEPT !.pendingP = left]
      BY <2>4, <2>5 DEF StartProjectScan, b, p, next, left
    <3>2. b \in Actors /\ OnlyScans(a, b) /\ b.pendingP = left /\ b.runningP = a.runningP
      BY <2>3, <3>1 DEF Actors, OnlyScans
    <3>3. ScansKept(a) => ScansKept(b)
      BY <3>2 DEF ScansKept, ScanIsPinned, OnlyScans
    <3> QED  BY <1>5, <2>2, <2>3, <3>2, <3>3 DEF b
  <2>6. CASE ~skips
    <3> DEFINE projects == [a.projects EXCEPT ![p] = None]
               runningP == [a.runningP EXCEPT ![p] = task]
    <3>1. b = [a EXCEPT !.pendingP = left, !.projects = projects,
                        !.staleProjects = a.staleProjects \ {p}, !.runningP = runningP]
      BY <2>4, <2>6 DEF StartProjectScan, b, p, next, left
    <3>2. projects \in [Processes -> NoneOr([dir : Known, generation : Nat])]
          /\ a.staleProjects \ {p} \in SUBSET Processes
      BY <1>1, <2>2 DEF NoneOr
    <3>3. task \in ScanTasks /\ task # None
      BY <1>1, <2>2, NoneIsNoElement DEF ScanTasks
    <3>4. task.generation = a.generation /\ task.catalog = a.context.catalog
      BY <2>6 DEF ScanOf, Wanted
    <3> HIDE DEF task
    <3>5. /\ runningP \in [Processes -> NoneOr(ScanTasks)] /\ runningP[p] = task
          /\ \A q \in Processes : q # p => runningP[q] = a.runningP[q]
      BY <1>1, <2>2, <3>3 DEF NoneOr
    <3> HIDE DEF projects, runningP
    <3>6. b \in Actors /\ OnlyScans(a, b) /\ b.pendingP = left /\ b.runningP = runningP
      BY <2>3, <3>1, <3>2, <3>5 DEF Actors, OnlyScans
    <3>7. ASSUME ScansKept(a) PROVE ScansKept(b)
      <4>1. ASSUME NEW q \in Processes PROVE ScanIsPinned(b, q)
        <5>1. CASE q = p
          BY <5>1, <1>1, <3>4, <3>5, <3>6 DEF ScanIsPinned, OnlyScans
        <5>2. CASE q # p
          BY <5>2, <3>5, <3>6, <3>7 DEF ScansKept, ScanIsPinned, OnlyScans
        <5> QED  BY <5>1, <5>2
      <4>2. Cardinality(Running(b.runningP)) = Cardinality(Running(a.runningP)) + 1
        BY <2>2, <3>3, <3>5, <3>6, OneMoreRuns
      <4> QED  BY <2>4, <4>1, <4>2, RunningIsFinite, CapacitiesArePositive DEF ScansKept
    <3> QED  BY <1>5, <2>2, <2>3, <3>6, <3>7 DEF b
  <2> QED  BY <2>5, <2>6 DEF b
<1> QED  BY <1>4, <1>5

(* pump_project_scans goes on until nothing may start. *)
LEMMA PumpProjectScansStep ==
  ASSUME NEW a \in Actors
  PROVE  LET b == PumpProjectScans(a) IN
         /\ b \in Actors /\ OnlyScans(a, b)
         /\ ScansHalt(b)
         /\ ScansHalt(a) => b = a
         /\ ScansKept(a) => ScansKept(b)
<1> DEFINE b == PumpProjectScans(a)
           size(x) == Cardinality(Keys(x.pendingP))
<1>1. PICK after : /\ after[0] = a /\ b = after[Turns]
                   /\ \A i \in 1..Turns : after[i] = StartProjectScan(after[i - 1])
  BY ProjectScanTurns, Zenon
<1>2. \A x \in Actors : size(x) \in Nat /\ size(x) <= Turns /\ IsFiniteSet(Keys(x.pendingP))
  <2> SUFFICES ASSUME NEW x \in Actors
               PROVE  size(x) \in Nat /\ size(x) <= Turns /\ IsFiniteSet(Keys(x.pendingP))
    OBVIOUS
  <2>1. x.pendingP \in Seq(WaitingScans) /\ \A w \in WaitingScans : w.key \in Processes
    BY DEF Actors, WaitingScans
  <2> QED  BY <2>1, KeysAreFinite
<1> DEFINE goes(i) == /\ after[i] \in Actors /\ OnlyScans(a, after[i])
                      /\ ScansHalt(after[i]) \/ size(after[i]) <= Turns - i
                      /\ ScansHalt(a) => after[i] = a
                      /\ ScansKept(a) => ScansKept(after[i])
           good == {i \in 0..Turns : goes(i)}
<1>3. 0 \in good
  <2>1. OnlyScans(a, a)
    BY DEF OnlyScans
  <2>2. size(a) <= Turns - 0 /\ 0 \in 0..Turns
    BY <1>2, TurnsAreNatural
  <2> HIDE DEF size
  <2> QED  BY <1>1, <2>1, <2>2
<1>4. ASSUME NEW i \in good, i < Turns PROVE i + 1 \in good
  <2>1. i \in 0..Turns /\ goes(i) /\ i + 1 \in 0..Turns /\ i + 1 \in 1..Turns /\ i \in Nat
        /\ (i + 1) - 1 = i
    BY <1>4, TurnsAreNatural
  <2> DEFINE x == after[i]
             y == after[i + 1]
  <2>2. y = StartProjectScan(x)
    BY <1>1, <2>1
  <2> HIDE DEF x, y, size
  <2>3. /\ x \in Actors /\ OnlyScans(a, x)
        /\ ScansHalt(x) \/ size(x) <= Turns - i
        /\ ScansHalt(a) => x = a
        /\ ScansKept(a) => ScansKept(x)
    BY <2>1 DEF x
  <2>4. /\ y \in Actors /\ OnlyScans(x, y)
        /\ ScansHalt(x) => y = x
        /\ ~ScansHalt(x) => \E p \in Keys(x.pendingP) : Keys(y.pendingP) = Keys(x.pendingP) \ {p}
        /\ ScansKept(x) => ScansKept(y)
    BY <2>2, <2>3, StartProjectScanStep, Zenon
  <2>5. OnlyScans(a, y)
    BY <2>3, <2>4, OnlyScansCompose
  <2>6. ScansHalt(y) \/ size(y) <= Turns - (i + 1)
    <3>1. CASE ScansHalt(x)
      BY <3>1, <2>4
    <3>2. CASE ~ScansHalt(x)
      <4>1. PICK p \in Keys(x.pendingP) : Keys(y.pendingP) = Keys(x.pendingP) \ {p}
        BY <2>4, <3>2
      <4>2. size(y) = size(x) - 1
        <5>1. IsFiniteSet(Keys(x.pendingP))
          BY <1>2, <2>3
        <5> QED  BY <4>1, <5>1, FS_RemoveElement, Zenon DEF size
      <4>3. size(x) <= Turns - i /\ size(x) \in Nat
        BY <3>2, <2>3, <1>2
      <4> QED  BY <4>2, <4>3, <2>1, TurnsAreNatural
    <3> QED  BY <3>1, <3>2
  <2>7. goes(i + 1)
    BY <2>3, <2>4, <2>5, <2>6 DEF y
  <2> QED  BY <2>1, <2>7
<1>5. Turns \in good
  <2>1. good \in SUBSET (0..Turns)
    OBVIOUS
  <2> HIDE DEF good
  <2> QED  BY <1>3, <1>4, <2>1, TurnsAreNatural, UpTo
<1>6. /\ b \in Actors /\ OnlyScans(a, b)
      /\ ScansHalt(b) \/ size(b) <= Turns - Turns
      /\ ScansHalt(a) => b = a
      /\ ScansKept(a) => ScansKept(b)
  BY <1>1, <1>5
<1>7. ScansHalt(b)
  <2> SUFFICES ASSUME ~ScansHalt(b) PROVE FALSE
    OBVIOUS
  <2> HIDE DEF b, size
  <2>1. size(b) = 0
    BY <1>2, <1>6, TurnsAreNatural
  <2>2. Keys(b.pendingP) = {}
    BY <1>2, <1>6, <2>1, FS_EmptySet, Zenon DEF size
  <2> QED  BY <2>2 DEF Keys, ScansHalt, Free
<1> QED  BY <1>6, <1>7

(* A scan that is cancelled still runs, and nothing may start that could *)
(* not before.                                                           *)
LEMMA ScansStillHalt ==
  ASSUME NEW a \in Actors, NEW b, Running(a.runningP) = Running(b.runningP),
         Keys(b.pendingP) \subseteq Keys(a.pendingP), ScansHalt(a)
  PROVE  ScansHalt(b)
<1>1. Free(b.pendingP, b.runningP) => Free(a.pendingP, a.runningP)
  <2> SUFFICES ASSUME NEW i \in DOMAIN b.pendingP, b.runningP[b.pendingP[i].key] = None
               PROVE  Free(a.pendingP, a.runningP)
    BY DEF Free
  <2>1. b.pendingP[i].key \in Keys(a.pendingP)
    BY DEF Keys
  <2>2. PICK j \in DOMAIN a.pendingP : a.pendingP[j].key = b.pendingP[i].key
    BY <2>1 DEF Keys
  <2>3. b.pendingP[i].key \in Processes /\ b.pendingP[i].key \notin Running(b.runningP)
    BY <2>1, ScanKeys DEF Running
  <2>4. a.runningP[a.pendingP[j].key] = None
    BY <2>2, <2>3 DEF Running
  <2> QED  BY <2>4 DEF Free
<1> QED  BY <1>1 DEF ScansHalt

(* A task that is cancelled stays the task it was. *)
LEMMA CancelledTask ==
  ASSUME NEW S \in {EnrichmentTasks, ScanTasks}, NEW t \in NoneOr(S)
  PROVE  /\ Cancelled(t) \in NoneOr(S) /\ (Cancelled(t) = None <=> t = None)
         /\ t # None => Cancelled(t) = [t EXCEPT !.cancelled = TRUE] /\ Cancelled(t).cancelled
<1>1. CASE t = None
  BY <1>1 DEF Cancelled, NoneOr
<1>2. CASE t # None
  <2>1. t \in S /\ Cancelled(t) = [t EXCEPT !.cancelled = TRUE]
    BY <1>2 DEF Cancelled, NoneOr
  <2>2. CASE S = EnrichmentTasks
    BY <1>2, <2>1, <2>2, NoneIsNoElement DEF EnrichmentTasks, NoneOr
  <2>3. CASE S = ScanTasks
    BY <1>2, <2>1, <2>3, NoneIsNoElement DEF ScanTasks, NoneOr
  <2> QED  BY <2>2, <2>3
<1> QED  BY <1>1, <1>2

(* The places of the queue whose scan is the one wanted *)
LEMMA PreferredKeeps ==
  ASSUME NEW pending \in Seq(WaitingScans), NEW places, NEW priority \in New..Selected
  PROVE  LET q == Preferred(pending, places, priority) IN
         q \in Seq(WaitingScans) /\ Keys(q) = Keys(pending)
<1> DEFINE raised(w) == [w EXCEPT !.priority = MaxOf(@, priority)]
           q == Preferred(pending, places, priority)
<1>1. Len(pending) \in Nat /\ DOMAIN pending = 1..Len(pending)
      /\ \A i \in DOMAIN pending : pending[i] \in WaitingScans
  BY DomainOf
<1>2. \A w \in WaitingScans : raised(w) \in WaitingScans /\ raised(w).key = w.key
  BY MaxOfDemands DEF WaitingScans
<1>3. q = [i \in DOMAIN pending |-> IF i \in places THEN raised(pending[i]) ELSE pending[i]]
  BY DEF Preferred
<1> HIDE DEF raised, q
<1>4. q \in [1..Len(pending) -> WaitingScans] /\ DOMAIN q = DOMAIN pending
      /\ \A i \in DOMAIN pending : q[i].key = pending[i].key
  BY <1>1, <1>2, <1>3
<1>5. q \in Seq(WaitingScans)
  BY <1>1, <1>4
<1> QED  BY <1>4, <1>5 DEF Keys, q

(* queue_project_scan *)
LEMMA QueueProjectScanStep ==
  ASSUME NEW a \in Actors, NEW p \in Processes, NEW priority \in New..Selected
  PROVE  LET b == QueueProjectScan(a, p, priority) IN
         /\ b \in Actors /\ OnlyScans(a, b)
         /\ ScansHalt(a) => ScansHalt(b)
         /\ ScansKept(a) => ScansKept(b)
<1> DEFINE r == QueueProjectScan(a, p, priority)
           want == Wanted(a, p)
           fresh == a.projects[p] # None /\ p \notin a.staleProjects
           b == [a EXCEPT !.projects[p] = None, !.staleProjects = @ \ {p}]
           runs == b.runningP[p] # None /\ ~b.runningP[p].cancelled /\ ScanOf(b.runningP[p]) = want
           c == [b EXCEPT !.runningP[p] = Cancelled(@)]
           waits == {i \in DOMAIN c.pendingP : c.pendingP[i].key = p
             /\ ScanOf(c.pendingP[i]) = want}
           d == [c EXCEPT !.pendingP = Without(@, {p})]
           w == [key |-> p, priority |-> priority, dir |-> want.dir, generation |-> want.generation]
           full == Len(d.pendingP) + Cardinality(Running(d.runningP)) >= d.projectCapacity
<1>1. /\ a.pendingP \in Seq(WaitingScans)
      /\ a.runningP \in [Processes -> NoneOr(ScanTasks)]
      /\ a.staleProjects \in SUBSET Processes /\ a.generation \in Nat
      /\ a.projects \in [Processes -> NoneOr([dir : Known, generation : Nat])]
      /\ a.records \in [Processes -> NoneOr(Records)]
  BY DEF Actors
<1>2. CASE a.records[p] = None \/ a.records[p].dir \notin Directories
  <2>1. r = a
    BY <1>2 DEF QueueProjectScan
  <2> QED  BY <2>1 DEF OnlyScans
<1>3. CASE ~(a.records[p] = None \/ a.records[p].dir \notin Directories)
  <2>1. r = IF fresh /\ a.projects[p] = want THEN a
            ELSE IF runs THEN b
            ELSE IF waits # {} THEN [c EXCEPT !.pendingP = Preferred(@, waits, priority)]
            ELSE IF full THEN d
            ELSE PumpProjectScans([d EXCEPT !.pendingP = Append(@, w)])
    BY <1>3 DEF QueueProjectScan
  <2>2. w \in WaitingScans /\ w.key = p
    BY <1>1, <1>3 DEF NoneOr, WaitingScans, Records, Wanted
  <2>3. /\ b \in Actors /\ OnlyScans(a, b) /\ b.pendingP = a.pendingP /\ b.runningP = a.runningP
    BY <1>1 DEF NoneOr, Actors, OnlyScans
  <2> DEFINE runningP == [a.runningP EXCEPT ![p] = Cancelled(a.runningP[p])]
             left == Without(a.pendingP, {p})
  <2>4. Cancelled(a.runningP[p]) \in NoneOr(ScanTasks)
        /\ (Cancelled(a.runningP[p]) = None <=> a.runningP[p] = None)
        /\ (a.runningP[p] # None => Cancelled(a.runningP[p]).generation = a.runningP[p].generation
              /\ Cancelled(a.runningP[p]).catalog = a.runningP[p].catalog)
    BY <1>1, CancelledTask DEF NoneOr, ScanTasks
  <2>5. /\ runningP \in [Processes -> NoneOr(ScanTasks)] /\ Running(runningP) = Running(a.runningP)
        /\ \A q \in Processes : q # p => runningP[q] = a.runningP[q]
        /\ runningP[p] = Cancelled(a.runningP[p])
    BY <1>1, <2>4 DEF Running
  <2>6. left \in Seq(WaitingScans) /\ Keys(left) = Keys(a.pendingP) \ {p}
    <3> DEFINE q == a.pendingP
               keys == {p}
    <3> HIDE DEF left, q, keys
    <3>1. q \in Seq(WaitingScans) /\ left = Without(q, keys)
      BY <1>1 DEF left, q, keys
    <3>2. left \in Seq(WaitingScans) /\ Keys(left) = Keys(q) \ keys
      BY <3>1, WithoutKeeps
    <3> QED  BY <3>2 DEF q, keys
  <2> HIDE DEF w, b, want, fresh
  <2>7. /\ c \in Actors /\ OnlyScans(a, c) /\ c.pendingP = a.pendingP /\ c.runningP = runningP
    BY <2>3, <2>5 DEF Actors, runningP, OnlyScans
  <2> HIDE DEF runningP, left, c
  <2>8. /\ d \in Actors /\ OnlyScans(a, d) /\ d.pendingP = left /\ d.runningP = runningP
    BY <2>6, <2>7 DEF Actors, left, OnlyScans
  <2> HIDE DEF d, waits, full
  <2>9. ASSUME NEW x, OnlyScans(a, x), x.runningP = a.runningP \/ x.runningP = runningP,
               Keys(x.pendingP) \subseteq Keys(a.pendingP)
        PROVE  /\ ScansHalt(a) => ScansHalt(x)
               /\ ScansKept(a) => ScansKept(x)
    <3>1. Running(x.runningP) = Running(a.runningP)
      BY <2>5, <2>9
    <3>2. ScansHalt(a) => ScansHalt(x)
      BY <2>9, <3>1, ScansStillHalt
    <3>3. ASSUME ScansKept(a), NEW q \in Processes PROVE ScanIsPinned(x, q)
      BY <2>4, <2>5, <2>9, <3>3 DEF ScansKept, ScanIsPinned, OnlyScans
    <3> QED  BY <3>1, <3>2, <3>3 DEF ScansKept
  <2>10. CASE fresh /\ a.projects[p] = want
    BY <2>1, <2>10 DEF OnlyScans
  <2>11. CASE ~(fresh /\ a.projects[p] = want) /\ runs
    BY <2>1, <2>3, <2>9, <2>11 DEF r
  <2>12. CASE ~(fresh /\ a.projects[p] = want) /\ ~runs /\ waits # {}
    <3>1. r = [c EXCEPT !.pendingP = Preferred(@, waits, priority)]
      BY <2>1, <2>12
    <3> DEFINE q == Preferred(a.pendingP, waits, priority)
    <3>2. q \in Seq(WaitingScans) /\ Keys(q) = Keys(a.pendingP)
      BY <1>1, PreferredKeeps
    <3> HIDE DEF r, q
    <3>3. r = [c EXCEPT !.pendingP = q]
      BY <3>1, <2>7 DEF Actors, q
    <3>4. r \in Actors /\ OnlyScans(a, r) /\ r.pendingP = q /\ r.runningP = runningP
      BY <2>7, <3>2, <3>3 DEF Actors, OnlyScans
    <3> QED  BY <2>9, <3>2, <3>4 DEF r
  <2>13. CASE ~(fresh /\ a.projects[p] = want) /\ ~runs /\ ~(waits # {}) /\ full
    <3>1. r = d
      BY <2>1, <2>13
    <3> HIDE DEF r
    <3> QED  BY <2>6, <2>8, <2>9, <3>1 DEF r
  <2>14. CASE ~(fresh /\ a.projects[p] = want) /\ ~runs /\ ~(waits # {}) /\ ~full
    <3> DEFINE e == [d EXCEPT !.pendingP = Append(@, w)]
               q == Append(left, w)
    <3>1. r = PumpProjectScans(e)
      BY <2>1, <2>14
    <3>2. q \in Seq(WaitingScans)
      BY <2>2, <2>6
    <3>3. e = [d EXCEPT !.pendingP = q]
      BY <2>8 DEF Actors
    <3> HIDE DEF r, q, e
    <3>4. e \in Actors /\ OnlyScans(a, e) /\ e.runningP = runningP
      BY <2>8, <3>2, <3>3 DEF Actors, OnlyScans
    <3>5. r \in Actors /\ OnlyScans(e, r) /\ ScansHalt(r) /\ (ScansKept(e) => ScansKept(r))
      BY <3>1, <3>4, PumpProjectScansStep
    <3>6. ScansKept(a) => ScansKept(e)
      BY <2>4, <2>5, <3>4 DEF ScansKept, ScanIsPinned, OnlyScans
    <3>7. OnlyScans(a, r)
      BY <3>4, <3>5, OnlyScansCompose
    <3> QED  BY <3>5, <3>6, <3>7 DEF r
  <2> QED  BY <2>10, <2>11, <2>12, <2>13, <2>14
<1> QED  BY <1>2, <1>3

(* queue_project_scan of several processes *)
LEMMA QueueProjectScansStep ==
  ASSUME NEW a \in Actors, NEW keys \in SUBSET Processes, NEW priority \in New..Selected
  PROVE  LET b == QueueProjectScans(a, keys, priority) IN
         /\ b \in Actors /\ OnlyScans(a, b)
         /\ ScansHalt(a) => ScansHalt(b)
         /\ ScansKept(a) => ScansKept(b)
<1> DEFINE b == QueueProjectScans(a, keys, priority)
<1>1. PICK after : /\ after[0] = a /\ b = after[Turns]
                   /\ \A i \in 1..Turns : after[i] = QueueTurn(after[i - 1], keys, i, priority)
  BY QueueTurns
<1> DEFINE goes(i) == /\ after[i] \in Actors /\ OnlyScans(a, after[i])
                      /\ ScansHalt(a) => ScansHalt(after[i])
                      /\ ScansKept(a) => ScansKept(after[i])
           good == {i \in 0..Turns : goes(i)}
<1>2. 0 \in good
  <2>1. OnlyScans(a, a)
    BY DEF OnlyScans
  <2>2. after[0] = a
    BY <1>1
  <2>3. goes(0)
    BY <2>1, <2>2
  <2> HIDE DEF goes
  <2> QED  BY <2>3, TurnsAreNatural
<1>3. ASSUME NEW i \in good, i < Turns PROVE i + 1 \in good
  <2>1. i \in 0..Turns /\ goes(i) /\ i + 1 \in 0..Turns /\ i + 1 \in 1..Turns /\ (i + 1) - 1 = i
    BY <1>3, TurnsAreNatural
  <2> DEFINE x == after[i]
             y == after[i + 1]
             p == Nth(i + 1)
  <2>2. y = QueueTurn(x, keys, i + 1, priority)
    BY <1>1, <2>1
  <2> HIDE DEF x, y
  <2>3. x \in Actors /\ OnlyScans(a, x) /\ (ScansHalt(a) => ScansHalt(x))
        /\ (ScansKept(a) => ScansKept(x))
    BY <2>1 DEF x
  <2>4. y \in Actors /\ OnlyScans(x, y) /\ (ScansHalt(x) => ScansHalt(y))
        /\ (ScansKept(x) => ScansKept(y))
    <3> HIDE DEF p
    <3>1. CASE p \in keys
      BY <2>2, <2>3, <3>1, QueueProjectScanStep DEF QueueTurn, p
    <3>2. CASE p \notin keys
      BY <2>2, <2>3, <3>2 DEF QueueTurn, p, OnlyScans
    <3> QED  BY <3>1, <3>2
  <2>5. OnlyScans(a, y)
    BY <2>3, <2>4, OnlyScansCompose
  <2>6. goes(i + 1)
    BY <2>3, <2>4, <2>5 DEF y
  <2> QED  BY <2>1, <2>6
<1>4. Turns \in good
  BY <1>2, <1>3, TurnsAreNatural, UpTo
<1> QED  BY <1>1, <1>4

(* What a fast scan queues of processes it sees for the first time *)
LEMMA QueueNewEnrichmentsStep ==
  ASSUME NEW a \in Actors, NEW keys \in SUBSET Processes
  PROVE  LET b == QueueNewEnrichments(a, keys) IN
         /\ b \in Actors /\ OnlyEnrichments(a, b)
         /\ EnrichmentsHalt(a) => EnrichmentsHalt(b)
         /\ EnrichmentsKept(a) => EnrichmentsKept(b)
<1> DEFINE b == QueueNewEnrichments(a, keys)
<1>1. PICK after : /\ after[0] = a /\ b = after[Turns]
                   /\ \A i \in 1..Turns : after[i] = NewTurn(after[i - 1], keys, i)
  BY NewEnrichmentTurns
<1> DEFINE goes(i) == /\ after[i] \in Actors /\ OnlyEnrichments(a, after[i])
                      /\ EnrichmentsHalt(a) => EnrichmentsHalt(after[i])
                      /\ EnrichmentsKept(a) => EnrichmentsKept(after[i])
           good == {i \in 0..Turns : goes(i)}
<1>2. 0 \in good
  <2>1. OnlyEnrichments(a, a)
    BY DEF OnlyEnrichments
  <2>2. after[0] = a
    BY <1>1
  <2>3. goes(0)
    BY <2>1, <2>2
  <2> HIDE DEF goes
  <2> QED  BY <2>3, TurnsAreNatural
<1>3. ASSUME NEW i \in good, i < Turns PROVE i + 1 \in good
  <2>1. i \in 0..Turns /\ goes(i) /\ i + 1 \in 0..Turns /\ i + 1 \in 1..Turns /\ (i + 1) - 1 = i
    BY <1>3, TurnsAreNatural
  <2> DEFINE x == after[i]
             y == after[i + 1]
             p == Nth(i + 1)
  <2>2. y = NewTurn(x, keys, i + 1)
    BY <1>1, <2>1
  <2> HIDE DEF x, y
  <2>3. /\ x \in Actors /\ OnlyEnrichments(a, x)
        /\ EnrichmentsHalt(a) => EnrichmentsHalt(x)
        /\ EnrichmentsKept(a) => EnrichmentsKept(x)
    BY <2>1 DEF x
  <2>4. /\ y \in Actors /\ OnlyEnrichments(x, y)
        /\ EnrichmentsHalt(x) => EnrichmentsHalt(y)
        /\ EnrichmentsKept(x) => EnrichmentsKept(y)
    <3> HIDE DEF p
    <3>1. CASE p \in keys
      <4>1. y = QueueEnrichment(x, p, New, Metadata) /\ p \in Processes
        BY <2>2, <3>1 DEF NewTurn, p
      <4>2. New \in New..Selected /\ Metadata \in Demands
        BY DEF New, Selected, Demands
      <4>3. EnrichmentsKept(x) => NearlyKept(x, p, Metadata)
        BY <4>1, KeptIsNearlyKept
      <4> QED  BY <2>3, <4>1, <4>2, <4>3, QueueEnrichmentStep
    <3>2. CASE p \notin keys
      BY <2>2, <2>3, <3>2 DEF NewTurn, p, OnlyEnrichments
    <3> QED  BY <3>1, <3>2
  <2>5. OnlyEnrichments(a, y)
    BY <2>3, <2>4, OnlyEnrichmentsCompose
  <2>6. goes(i + 1)
    BY <2>3, <2>4, <2>5 DEF y
  <2> QED  BY <2>1, <2>6
<1>4. Turns \in good
  <2>1. good \in SUBSET (0..Turns)
    OBVIOUS
  <2> HIDE DEF good
  <2> QED  BY <1>2, <1>3, <2>1, TurnsAreNatural, UpTo
<1> QED  BY <1>1, <1>4

(* Only the records of b, what was published of them, and the facts that *)
(* are kept differ from those of a; and the same processes have one.     *)
OnlyRecords(a, b) ==
  /\ b.phase = a.phase /\ b.projectCapacity = a.projectCapacity /\ b.context = a.context
  /\ b.generation = a.generation /\ b.fast = a.fast /\ b.fastPending = a.fastPending
  /\ b.enriched = a.enriched /\ b.staleEnriched = a.staleEnriched
  /\ b.projects = a.projects /\ b.staleProjects = a.staleProjects
  /\ b.pendingE = a.pendingE /\ b.runningE = a.runningE /\ b.owed = a.owed
  /\ b.pendingP = a.pendingP /\ b.runningP = a.runningP
  /\ \A p \in Processes : b.records[p] = None <=> a.records[p] = None

(* What EvidenceIsCurrent says of one process, and that nothing is kept of *)
(* the others                                                              *)
RecordIsCurrent(a, p) ==
  /\ a.feed[p] = a.records[p]
  /\ a.records[p] = None => a.facts[p] = None
  /\ a.records[p] # None =>
       LET r == a.records[p] IN
       /\ r.evidence.state \in {"Found", "Missing"} =>
            r.evidence.dir = r.dir /\ r.evidence.catalog = a.context.catalog
       /\ a.facts[p] = FactsOf(r.evidence)
       /\ r.class = [rules |-> a.context.rules, facts |-> a.facts[p], dir |-> r.dir]

RecordsKept(a) == \A p \in Processes : RecordIsCurrent(a, p)

(* What is known of a directory that was not scanned *)
LEMMA UnscannedHasNoFacts ==
  ASSUME NEW dir \in Known
  PROVE  /\ Unscanned(dir) \in Evidences /\ FactsOf(Unscanned(dir)) = None
         /\ Unscanned(dir).state \notin {"Found", "Missing"}
BY DEF Unscanned, Evidences, FactsOf, NoneOr

(* Two steps of the classification of a record *)
LEMMA ClassifiedRecord ==
  ASSUME NEW a \in Actors, NEW facts \in NoneOr(Evidences), NEW dir \in Known,
         NEW evidence \in Evidences,
         NEW r, r = [dir |-> dir, evidence |-> evidence, class |-> r.class]
  PROVE  Classified(a, facts, r) =
           [dir |-> dir, evidence |-> evidence,
            class |-> [rules |-> a.context.rules, facts |-> facts, dir |-> dir]]
         /\ Classified(a, facts, r) \in Records
<1>1. Classified(a, facts, r) =
           [dir |-> dir, evidence |-> evidence,
            class |-> [rules |-> a.context.rules, facts |-> facts, dir |-> dir]]
  BY DEF Classified
<1>2. a.context.rules \in NoneOr(RuleSets)
  BY DEF Actors
<1> QED  BY <1>1, <1>2 DEF Records, Classes

(* reset_project_evidence *)
LEMMA WithoutEvidenceRecord ==
  ASSUME NEW a \in Actors, NEW r \in Records
  PROVE  LET x == WithoutEvidence(a, r) IN
         /\ x \in Records /\ x # None /\ x.dir = r.dir /\ x.evidence = Unscanned(r.dir)
         /\ x.class = [rules |-> a.context.rules, facts |-> None, dir |-> r.dir]
<1> DEFINE y == [r EXCEPT !.evidence = Unscanned(r.dir)]
           x == WithoutEvidence(a, r)
<1>1. r.dir \in Known /\ r.class \in Classes /\ Unscanned(r.dir) \in Evidences
  BY UnscannedHasNoFacts DEF Records
<1>2. y = [dir |-> r.dir, evidence |-> Unscanned(r.dir), class |-> y.class]
  BY DEF Records
<1>3. x = Classified(a, None, y)
  BY DEF WithoutEvidence
<1> HIDE DEF y, x
<1>4. None \in NoneOr(Evidences)
  BY DEF NoneOr
<1>5. x = [dir |-> r.dir, evidence |-> Unscanned(r.dir),
           class |-> [rules |-> a.context.rules, facts |-> None, dir |-> r.dir]] /\ x \in Records
  BY <1>1, <1>2, <1>3, <1>4, ClassifiedRecord
<1> QED  BY <1>5, NoneIsNoElement DEF x

(* A record without evidence is current when no facts are kept. *)
LEMMA WithoutEvidenceIsCurrent ==
  ASSUME NEW a \in Actors, NEW b, NEW r \in Records, NEW p, b.records[p] = WithoutEvidence(a, r),
         b.context.rules = a.context.rules, b.facts[p] = None, b.feed[p] = b.records[p]
  PROVE  RecordIsCurrent(b, p) /\ b.records[p] # None
<1>1. r.dir \in Known
  BY DEF Records
<1>2. /\ b.records[p] # None /\ b.records[p].dir = r.dir /\ b.records[p].evidence = Unscanned(r.dir)
      /\ b.records[p].class = [rules |-> b.context.rules, facts |-> None, dir |-> r.dir]
  BY WithoutEvidenceRecord
<1>3. FactsOf(Unscanned(r.dir)) = None /\ Unscanned(r.dir).state \notin {"Found", "Missing"}
  BY <1>1, UnscannedHasNoFacts
<1> QED  BY <1>2, <1>3 DEF RecordIsCurrent

(* clear_project_evidence *)
LEMMA ClearProjectEvidenceStep ==
  ASSUME NEW a \in Actors, NEW keys \in SUBSET Processes
  PROVE  LET b == ClearProjectEvidence(a, keys) IN
         /\ b \in Actors /\ OnlyRecords(a, b) /\ b.staleRecords = a.staleRecords
         /\ RecordsKept(a) => RecordsKept(b)
<1> DEFINE b == ClearProjectEvidence(a, keys)
           facts == Cleared(a.facts, keys)
           records == [p \in Processes |-> IF p \in keys /\ a.records[p] # None
                         THEN WithoutEvidence(a, a.records[p]) ELSE a.records[p]]
           feed == [p \in Processes |-> IF p \in keys /\ a.records[p] # records[p]
                      THEN records[p] ELSE a.feed[p]]
           c == [a EXCEPT !.facts = facts, !.records = records]
<1>1. /\ a.records \in [Processes -> NoneOr(Records)] /\ a.feed \in [Processes -> NoneOr(Records)]
      /\ a.facts \in [Processes -> NoneOr(Evidences)]
  BY DEF Actors
<1>2. ASSUME NEW p \in Processes, a.records[p] # None
      PROVE  WithoutEvidence(a, a.records[p]) \in NoneOr(Records)
             /\ WithoutEvidence(a, a.records[p]) # None /\ a.records[p] \in Records
  <2>1. a.records[p] \in Records
    BY <1>1, <1>2 DEF NoneOr
  <2> QED  BY <2>1, WithoutEvidenceRecord DEF NoneOr
<1>3. facts \in [Processes -> NoneOr(Evidences)]
  BY <1>1 DEF Cleared, NoneOr
<1>4. records \in [Processes -> NoneOr(Records)]
      /\ \A p \in Processes : records[p] = None <=> a.records[p] = None
  BY <1>1, <1>2
<1>5. feed \in [Processes -> NoneOr(Records)]
  BY <1>1, <1>4
<1>6. \A p \in Processes :
        /\ records[p] = IF p \in keys /\ a.records[p] # None
                          THEN WithoutEvidence(a, a.records[p]) ELSE a.records[p]
        /\ facts[p] = IF p \in keys THEN None ELSE a.facts[p]
        /\ feed[p] = IF p \in keys /\ a.records[p] # records[p] THEN records[p] ELSE a.feed[p]
  BY DEF Cleared
<1>7. b = [c EXCEPT !.feed = [p \in Processes |->
             IF p \in keys /\ a.records[p] # c.records[p] THEN c.records[p] ELSE @[p]]]
  BY DEF Actors, ClearProjectEvidence, Published
<1> HIDE DEF records, facts, b
<1>8. c \in Actors /\ c.records = records /\ c.feed = a.feed /\ c.facts = facts /\ OnlyRecords(a, c)
      /\ c.staleRecords = a.staleRecords
  BY <1>3, <1>4 DEF Actors, OnlyRecords
<1>9. b = [c EXCEPT !.feed = feed]
  <2> HIDE DEF c
  <2> QED  BY <1>7, <1>8 DEF Actors
<1> HIDE DEF c, feed
<1>10. b \in Actors /\ b.records = records /\ b.feed = feed /\ b.facts = facts /\ OnlyRecords(a, b)
       /\ b.staleRecords = a.staleRecords
  BY <1>5, <1>8, <1>9 DEF Actors, OnlyRecords
<1>11. ASSUME RecordsKept(a), NEW p \in Processes PROVE RecordIsCurrent(b, p)
  <2>1. RecordIsCurrent(a, p) /\ a.feed[p] = a.records[p]
    BY <1>11 DEF RecordsKept, RecordIsCurrent
  <2>2. b.feed[p] = b.records[p] /\ b.context = a.context
    BY <2>1, <1>6, <1>10 DEF OnlyRecords
  <2>3. CASE p \in keys /\ a.records[p] # None
    <3>1. b.records[p] = WithoutEvidence(a, a.records[p]) /\ b.facts[p] = None
      BY <1>6, <1>10, <2>3
    <3> QED  BY <1>2, <2>2, <2>3, <3>1, WithoutEvidenceIsCurrent
  <2>4. CASE p \notin keys
    <3>1. b.records[p] = a.records[p] /\ b.facts[p] = a.facts[p]
      BY <1>6, <1>10, <2>4
    <3> QED  BY <2>1, <2>2, <3>1 DEF RecordIsCurrent
  <2>5. CASE p \in keys /\ a.records[p] = None
    BY <2>2, <2>5, <1>6, <1>10 DEF RecordIsCurrent
  <2> QED  BY <2>3, <2>4, <2>5
<1> QED  BY <1>10, <1>11 DEF RecordsKept, b

(* Tasks that are cancelled still run, and are what they were otherwise. *)
LEMMA CancelledTasks ==
  ASSUME NEW S \in {EnrichmentTasks, ScanTasks}, NEW tasks \in [Processes -> NoneOr(S)],
         NEW keys \in SUBSET Processes
  PROVE  LET after == CancelledOf(tasks, keys) IN
         /\ after \in [Processes -> NoneOr(S)]
         /\ Running(after) = Running(tasks)
         /\ \A p \in Processes \ keys : after[p] = tasks[p]
         /\ \A p \in keys : after[p] = Cancelled(tasks[p])
         /\ \A p \in keys : tasks[p] # None => after[p].cancelled
<1> DEFINE after == CancelledOf(tasks, keys)
<1>1. after = [p \in Processes |-> IF p \in keys THEN Cancelled(tasks[p]) ELSE tasks[p]]
  BY DEF CancelledOf
<1>2. ASSUME NEW p \in Processes
      PROVE  /\ Cancelled(tasks[p]) \in NoneOr(S)
             /\ (Cancelled(tasks[p]) = None <=> tasks[p] = None)
             /\ tasks[p] # None => Cancelled(tasks[p]).cancelled
  BY CancelledTask
<1> HIDE DEF after
<1>3. \A p \in Processes : after[p] = IF p \in keys THEN Cancelled(tasks[p]) ELSE tasks[p]
  BY <1>1
<1>4. after \in [Processes -> NoneOr(S)]
  BY <1>1, <1>2
<1>5. Running(after) = Running(tasks)
  BY <1>2, <1>3 DEF Running
<1> QED  BY <1>2, <1>3, <1>4, <1>5 DEF after

(* cancel_enrichment *)
LEMMA CancelEnrichmentsStep ==
  ASSUME NEW a \in Actors, NEW keys \in SUBSET Processes
  PROVE  LET b == CancelEnrichments(a, keys) IN
         /\ b \in Actors /\ OnlyEnrichments(a, b) /\ b.enriched = a.enriched
         /\ \A p \in Processes : b.owed[p] = IF p \in keys THEN 0 ELSE a.owed[p]
         /\ EnrichmentsHalt(a) => EnrichmentsHalt(b)
         /\ EnrichmentsKept(a) => EnrichmentsKept(b)
<1> DEFINE b == CancelEnrichments(a, keys)
           left == Without(a.pendingE, keys)
           runningE == CancelledOf(a.runningE, keys)
           owed == [p \in Processes |-> IF p \in keys THEN 0 ELSE a.owed[p]]
<1>1. /\ a.pendingE \in Seq(WaitingEnrichments)
      /\ a.runningE \in [Processes -> NoneOr(EnrichmentTasks)]
      /\ a.owed \in [Processes -> 0..2]
  BY DEF Actors
<1>2. /\ left \in Seq(WaitingEnrichments) /\ Keys(left) = Keys(a.pendingE) \ keys
      /\ Distinct(a.pendingE) => Distinct(left)
      /\ \A i \in DOMAIN a.pendingE : a.pendingE[i].key \notin keys =>
           \E k \in DOMAIN left : left[k] = a.pendingE[i]
  <2> DEFINE q == a.pendingE
  <2> HIDE DEF left, q
  <2>1. q \in Seq(WaitingEnrichments) /\ left = Without(q, keys)
    BY <1>1 DEF left, q
  <2>2. /\ left \in Seq(WaitingEnrichments) /\ Keys(left) = Keys(q) \ keys
        /\ Distinct(q) => Distinct(left)
        /\ \A i \in DOMAIN q : q[i].key \notin keys => \E k \in DOMAIN left : left[k] = q[i]
    BY <2>1, WithoutKeeps
  <2> QED  BY <2>2 DEF q
<1>3. /\ runningE \in [Processes -> NoneOr(EnrichmentTasks)]
      /\ Running(runningE) = Running(a.runningE)
      /\ \A p \in Processes \ keys : runningE[p] = a.runningE[p]
      /\ \A p \in keys : runningE[p] = Cancelled(a.runningE[p])
  BY <1>1, CancelledTasks
<1>4. owed \in [Processes -> 0..2]
      /\ \A p \in Processes : owed[p] = IF p \in keys THEN 0 ELSE a.owed[p]
  BY <1>1
<1>5. b = [a EXCEPT !.pendingE = left, !.runningE = runningE, !.owed = owed]
  BY DEF CancelEnrichments, Actors
<1> HIDE DEF b, left, runningE, owed
<1>6. /\ b \in Actors /\ OnlyEnrichments(a, b) /\ b.enriched = a.enriched
      /\ b.owed = owed /\ b.pendingE = left /\ b.runningE = runningE
  BY <1>2, <1>3, <1>4, <1>5 DEF Actors, OnlyEnrichments
<1>7. ASSUME EnrichmentsHalt(a) PROVE EnrichmentsHalt(b)
  <2>1. Free(b.pendingE, b.runningE) => Free(a.pendingE, a.runningE)
    <3> SUFFICES ASSUME NEW i \in DOMAIN b.pendingE, b.runningE[b.pendingE[i].key] = None
                 PROVE  Free(a.pendingE, a.runningE)
      BY DEF Free
    <3>1. b.pendingE[i].key \in Keys(a.pendingE)
      BY <1>2, <1>6 DEF Keys
    <3>2. PICK j \in DOMAIN a.pendingE : a.pendingE[j].key = b.pendingE[i].key
      BY <3>1 DEF Keys
    <3>3. b.pendingE[i].key \in Processes /\ b.pendingE[i].key \notin Running(b.runningE)
      BY <3>1, EnrichmentKeys DEF Running
    <3>4. a.runningE[a.pendingE[j].key] = None
      BY <1>3, <1>6, <3>2, <3>3 DEF Running
    <3> QED  BY <3>4 DEF Free
  <2> QED  BY <1>3, <1>6, <1>7, <2>1 DEF EnrichmentsHalt
<1>8. ASSUME EnrichmentsKept(a) PROVE EnrichmentsKept(b)
  <2>1. ASSUME NEW p \in Processes PROVE EnrichmentOf(b, p)
    <3>1. EnrichmentOf(a, p) /\ b.records = a.records
          /\ b.owed[p] = IF p \in keys THEN 0 ELSE a.owed[p]
      BY <1>4, <1>6, <1>8 DEF EnrichmentsKept, OnlyEnrichments
    <3>2. CASE p \in keys
      <4>1. b.runningE[p] # None => a.runningE[p] # None
            /\ b.runningE[p].started = a.runningE[p].started
        <5>1. a.runningE[p] \in NoneOr(EnrichmentTasks) /\ b.runningE[p] = Cancelled(a.runningE[p])
          BY <1>1, <1>3, <1>6, <3>2
        <5>2. CASE a.runningE[p] = None
          BY <5>1, <5>2 DEF Cancelled
        <5>3. CASE a.runningE[p] # None
          BY <5>1, <5>3 DEF Cancelled, NoneOr, EnrichmentTasks
        <5> QED  BY <5>2, <5>3
      <4> QED  BY <3>1, <3>2, <4>1, <1>6 DEF EnrichmentOf, Covered
    <3>3. CASE p \notin keys
      <4>1. b.runningE[p] = a.runningE[p] /\ b.owed[p] = a.owed[p]
        BY <1>3, <1>6, <3>1, <3>3
      <4>2. Covered(b, p)
        BY <1>2, <1>6, <3>1, <3>3, <4>1 DEF EnrichmentOf, Covered
      <4> QED  BY <3>1, <4>1, <4>2, <1>6 DEF EnrichmentOf
    <3> QED  BY <3>2, <3>3
  <2> QED  BY <1>2, <1>3, <1>6, <1>8, <2>1 DEF EnrichmentsKept
<1> QED  BY <1>4, <1>6, <1>7, <1>8 DEF b

(* A change of the scans that only takes away from their queue and cancels *)
(* tasks                                                                   *)
LEMMA FewerScans ==
  ASSUME NEW a \in Actors, NEW keys \in SUBSET Processes, NEW b,
         b.runningP = CancelledOf(a.runningP, keys), Keys(b.pendingP) \subseteq Keys(a.pendingP),
         b.generation = a.generation, b.context = a.context
  PROVE  /\ ScansHalt(a) => ScansHalt(b)
         /\ ScansKept(a) => ScansKept(b)
<1> DEFINE runningP == CancelledOf(a.runningP, keys)
<1>1. a.runningP \in [Processes -> NoneOr(ScanTasks)]
  BY DEF Actors
<1>2. /\ Running(runningP) = Running(a.runningP)
      /\ \A p \in Processes \ keys : runningP[p] = a.runningP[p]
      /\ \A p \in keys : runningP[p] = Cancelled(a.runningP[p])
  BY <1>1, CancelledTasks
<1> HIDE DEF runningP
<1>3. ScansHalt(a) => ScansHalt(b)
  BY <1>2, ScansStillHalt DEF runningP
<1>4. ASSUME ScansKept(a), NEW p \in Processes PROVE ScanIsPinned(b, p)
  <2>1. ScanIsPinned(a, p)
    BY <1>4 DEF ScansKept
  <2>2. CASE p \in keys /\ a.runningP[p] # None
    <3>1. a.runningP[p] \in ScanTasks /\ b.runningP[p] = [a.runningP[p] EXCEPT !.cancelled = TRUE]
      BY <1>1, <1>2, <2>2 DEF Cancelled, NoneOr, runningP
    <3>2. b.runningP[p].generation = a.runningP[p].generation
          /\ b.runningP[p].catalog = a.runningP[p].catalog
      BY <3>1 DEF ScanTasks
    <3> QED  BY <2>1, <2>2, <3>2 DEF ScanIsPinned
  <2>3. CASE ~(p \in keys /\ a.runningP[p] # None)
    <3>1. b.runningP[p] = a.runningP[p]
      BY <1>2, <2>3 DEF Cancelled, runningP
    <3> QED  BY <2>1, <3>1 DEF ScanIsPinned
  <2> QED  BY <2>2, <2>3
<1> QED  BY <1>2, <1>3, <1>4 DEF ScansKept, runningP

(* What cancel_project_scan leaves in the queue *)
LEMMA WithoutScans ==
  ASSUME NEW a \in Actors, NEW keys
  PROVE  Without(a.pendingP, keys) \in Seq(WaitingScans)
         /\ Keys(Without(a.pendingP, keys)) = Keys(a.pendingP) \ keys
<1> DEFINE q == a.pendingP
<1>1. q \in Seq(WaitingScans)
  BY DEF Actors
<1> HIDE DEF q
<1>2. Without(q, keys) \in Seq(WaitingScans) /\ Keys(Without(q, keys)) = Keys(q) \ keys
  BY <1>1, WithoutKeeps
<1> QED  BY <1>2 DEF q

(* cancel_project_scan *)
LEMMA CancelProjectScansStep ==
  ASSUME NEW a \in Actors, NEW keys \in SUBSET Processes
  PROVE  LET b == CancelProjectScans(a, keys) IN
         /\ b \in Actors /\ OnlyScans(a, b)
         /\ b.projects = a.projects /\ b.staleProjects = a.staleProjects
         /\ a.pendingP = <<>> => b.pendingP = <<>>
         /\ ScansHalt(a) => ScansHalt(b)
         /\ ScansKept(a) => ScansKept(b)
<1> DEFINE b == CancelProjectScans(a, keys)
           left == Without(a.pendingP, keys)
           runningP == CancelledOf(a.runningP, keys)
<1>1. a.runningP \in [Processes -> NoneOr(ScanTasks)]
  BY DEF Actors
<1>2. left \in Seq(WaitingScans) /\ Keys(left) = Keys(a.pendingP) \ keys
  BY WithoutScans
<1>3. runningP \in [Processes -> NoneOr(ScanTasks)]
  BY <1>1, CancelledTasks
<1>4. b = [a EXCEPT !.pendingP = left, !.runningP = runningP]
  BY DEF CancelProjectScans, Actors
<1> HIDE DEF b, left, runningP
<1>5. /\ b \in Actors /\ OnlyScans(a, b) /\ b.pendingP = left /\ b.runningP = runningP
      /\ b.projects = a.projects /\ b.staleProjects = a.staleProjects
  BY <1>2, <1>3, <1>4 DEF Actors, OnlyScans
<1>6. (ScansHalt(a) => ScansHalt(b)) /\ (ScansKept(a) => ScansKept(b))
  BY <1>2, <1>5, FewerScans DEF OnlyScans, runningP
<1>7. a.pendingP = <<>> => left = <<>>
  <2> SUFFICES ASSUME a.pendingP = <<>> PROVE left = <<>>
    OBVIOUS
  <2>1. Keys(left) = {}
    BY <1>2 DEF Keys
  <2>2. DOMAIN left = {}
    BY <2>1 DEF Keys
  <2> QED  BY <1>2, <2>2
<1> QED  BY <1>5, <1>6, <1>7 DEF b

(* cancel_all_project_scans *)
LEMMA CancelAllProjectScansStep ==
  ASSUME NEW a \in Actors
  PROVE  LET b == CancelAllProjectScans(a) IN
         /\ b \in Actors /\ OnlyScans(a, b)
         /\ b.projects = a.projects /\ b.staleProjects = a.staleProjects /\ b.pendingP = <<>>
         /\ ScansHalt(b)
         /\ ScansKept(a) => ScansKept(b)
<1> DEFINE b == CancelAllProjectScans(a)
           runningP == CancelledOf(a.runningP, Processes)
           nothing == <<>>
<1>1. a.runningP \in [Processes -> NoneOr(ScanTasks)]
  BY DEF Actors
<1>2. nothing \in Seq(WaitingScans)
  OBVIOUS
<1>3. runningP \in [Processes -> NoneOr(ScanTasks)]
  BY <1>1, CancelledTasks
<1>4. b = [a EXCEPT !.pendingP = nothing, !.runningP = runningP]
  BY DEF CancelAllProjectScans, Actors
<1> HIDE DEF b, runningP, nothing
<1>5. /\ b \in Actors /\ OnlyScans(a, b) /\ b.pendingP = nothing /\ b.runningP = runningP
      /\ b.projects = a.projects /\ b.staleProjects = a.staleProjects
  BY <1>2, <1>3, <1>4 DEF Actors, OnlyScans
<1>6. Keys(b.pendingP) = {} /\ ScansHalt(b) /\ b.pendingP = <<>>
  BY <1>5 DEF Keys, ScansHalt, Free, nothing
<1>7. ScansKept(a) => ScansKept(b)
  BY <1>5, <1>6, FewerScans DEF OnlyScans, runningP
<1> QED  BY <1>5, <1>6, <1>7 DEF b

(* The state of the actor as a whole is the same. *)
SameMode(a, b) ==
  /\ b.phase = a.phase /\ b.projectCapacity = a.projectCapacity /\ b.context = a.context
  /\ b.generation = a.generation /\ b.fast = a.fast /\ b.fastPending = a.fastPending

(* What the invariants of the queues look at *)
LEMMA EnrichmentsDepend ==
  ASSUME NEW a, NEW b, b.pendingE = a.pendingE, b.runningE = a.runningE
  PROVE  /\ EnrichmentsHalt(a) => EnrichmentsHalt(b)
         /\ /\ EnrichmentsKept(a) /\ b.owed = a.owed
            /\ \A p \in Processes : b.enriched[p] = None \/ b.enriched[p] = a.enriched[p]
            /\ \A p \in Processes : b.records[p] = None => b.owed[p] = 0
            => EnrichmentsKept(b)
<1>1. EnrichmentsHalt(a) => EnrichmentsHalt(b)
  BY DEF EnrichmentsHalt
<1>2. ASSUME EnrichmentsKept(a), b.owed = a.owed,
             \A p \in Processes : b.enriched[p] = None \/ b.enriched[p] = a.enriched[p],
             \A p \in Processes : b.records[p] = None => b.owed[p] = 0
      PROVE  EnrichmentsKept(b)
  <2>1. ASSUME NEW p \in Processes PROVE EnrichmentOf(b, p)
    BY <1>2 DEF EnrichmentsKept, EnrichmentOf, Covered
  <2> QED  BY <1>2, <2>1 DEF EnrichmentsKept
<1> QED  BY <1>1, <1>2

(* The same of the scans *)
LEMMA ScansDepend ==
  ASSUME NEW a, NEW b, b.pendingP = a.pendingP, b.runningP = a.runningP
  PROVE  /\ ScansHalt(a) => ScansHalt(b)
         /\ ScansKept(a) /\ b.generation = a.generation /\ b.context = a.context => ScansKept(b)
BY DEF ScansHalt, ScansKept, ScanIsPinned

(* What processes that are gone leave behind: nothing *)
LEMMA ForgetStep ==
  ASSUME NEW a \in Actors, NEW keys \in SUBSET Processes
  PROVE  LET b == Forget(a, keys) IN
         /\ b \in Actors /\ SameMode(a, b)
         /\ b.records = Cleared(a.records, keys) /\ b.facts = Cleared(a.facts, keys)
         /\ b.feed = Cleared(a.feed, keys)
         /\ \A p \in Processes : b.owed[p] = IF p \in keys THEN 0 ELSE a.owed[p]
         /\ EnrichmentsHalt(a) => EnrichmentsHalt(b)
         /\ EnrichmentsKept(a) => EnrichmentsKept(b)
         /\ ScansHalt(a) => ScansHalt(b)
         /\ ScansKept(a) => ScansKept(b)
<1> DEFINE b == Forget(a, keys)
           c == CancelEnrichments(a, keys)
           d == CancelProjectScans(c, keys)
<1>1. /\ c \in Actors /\ OnlyEnrichments(a, c) /\ c.enriched = a.enriched
      /\ \A p \in Processes : c.owed[p] = IF p \in keys THEN 0 ELSE a.owed[p]
      /\ EnrichmentsHalt(a) => EnrichmentsHalt(c)
      /\ EnrichmentsKept(a) => EnrichmentsKept(c)
  BY CancelEnrichmentsStep
<1> HIDE DEF c
<1>2. /\ d \in Actors /\ OnlyScans(c, d)
      /\ ScansHalt(c) => ScansHalt(d)
      /\ ScansKept(c) => ScansKept(d)
  BY <1>1, CancelProjectScansStep
<1> DEFINE enriched == Cleared(d.enriched, keys)
           projects == Cleared(d.projects, keys)
           facts == Cleared(d.facts, keys)
           records == Cleared(d.records, keys)
           feed == Cleared(d.feed, keys)
<1>3. b = [d EXCEPT !.enriched = Cleared(@, keys), !.staleEnriched = @ \ keys,
               !.projects = Cleared(@, keys), !.staleProjects = @ \ keys,
               !.facts = Cleared(@, keys), !.records = Cleared(@, keys),
               !.staleRecords = @ \ keys, !.feed = Cleared(@, keys)]
  BY DEF Forget, c
<1> HIDE DEF d, b
<1>4. b = [d EXCEPT !.enriched = enriched, !.staleEnriched = d.staleEnriched \ keys,
               !.projects = projects, !.staleProjects = d.staleProjects \ keys,
               !.facts = facts, !.records = records,
               !.staleRecords = d.staleRecords \ keys, !.feed = feed]
  BY <1>2, <1>3 DEF Actors
<1>5. /\ d.enriched \in [Processes -> NoneOr(Demands)]
      /\ d.projects \in [Processes -> NoneOr([dir : Known, generation : Nat])]
      /\ d.facts \in [Processes -> NoneOr(Evidences)]
      /\ d.records \in [Processes -> NoneOr(Records)] /\ d.feed \in [Processes -> NoneOr(Records)]
      /\ d.staleEnriched \ keys \in SUBSET Processes /\ d.staleProjects \ keys \in SUBSET Processes
      /\ d.staleRecords \ keys \in SUBSET Processes
  BY <1>2 DEF Actors
<1>6. /\ enriched \in [Processes -> NoneOr(Demands)]
      /\ projects \in [Processes -> NoneOr([dir : Known, generation : Nat])]
      /\ facts \in [Processes -> NoneOr(Evidences)]
      /\ records \in [Processes -> NoneOr(Records)] /\ feed \in [Processes -> NoneOr(Records)]
      /\ \A p \in Processes : enriched[p] = None \/ enriched[p] = d.enriched[p]
      /\ \A p \in Processes : records[p] = IF p \in keys THEN None ELSE d.records[p]
  BY <1>5 DEF Cleared, NoneOr
<1> HIDE DEF enriched, projects, facts, records, feed
<1>7. /\ b \in Actors /\ SameMode(d, b)
      /\ b.records = records /\ b.facts = facts /\ b.feed = feed /\ b.enriched = enriched
      /\ b.pendingE = d.pendingE /\ b.runningE = d.runningE /\ b.owed = d.owed
      /\ b.pendingP = d.pendingP /\ b.runningP = d.runningP
  BY <1>2, <1>4, <1>5, <1>6, ZenonT(60) DEF Actors, SameMode
<1>8. SameMode(a, b) /\ b.pendingE = c.pendingE /\ b.runningE = c.runningE /\ b.owed = c.owed
      /\ d.enriched = c.enriched /\ d.records = a.records /\ d.facts = a.facts /\ d.feed = a.feed
      /\ c.pendingP = a.pendingP /\ c.runningP = a.runningP /\ c.generation = a.generation
      /\ c.context = a.context
  BY <1>1, <1>2, <1>7 DEF SameMode, OnlyEnrichments, OnlyScans
<1>9. ASSUME EnrichmentsKept(a) PROVE EnrichmentsKept(b)
  <2>1. ASSUME NEW p \in Processes, b.records[p] = None PROVE b.owed[p] = 0
    <3>1. p \in keys \/ a.records[p] = None
      BY <1>6, <1>7, <1>8, <2>1
    <3>2. a.records[p] = None => a.owed[p] = 0
      BY <1>9 DEF EnrichmentsKept, EnrichmentOf
    <3> QED  BY <1>1, <1>8, <3>1, <3>2
  <2>2. \A p \in Processes : b.enriched[p] = None \/ b.enriched[p] = c.enriched[p]
    BY <1>6, <1>7, <1>8
  <2> QED  BY <1>1, <1>8, <1>9, <2>1, <2>2, EnrichmentsDepend
<1>10. EnrichmentsHalt(a) => EnrichmentsHalt(b)
  BY <1>1, <1>8, EnrichmentsDepend
<1>11. (ScansHalt(a) => ScansHalt(b)) /\ (ScansKept(a) => ScansKept(b))
  BY <1>2, <1>7, <1>8, ScansDepend DEF SameMode
<1> QED  BY <1>1, <1>7, <1>8, <1>9, <1>10, <1>11 DEF b, records, facts, feed

(* Project evidence of processes whose directory is another one now *)
LEMMA DropEvidenceStep ==
  ASSUME NEW a \in Actors, NEW keys \in SUBSET Processes
  PROVE  LET b == DropEvidence(a, keys) IN
         /\ b \in Actors /\ SameMode(a, b)
         /\ b.records = a.records /\ b.feed = a.feed /\ b.facts = Cleared(a.facts, keys)
         /\ b.staleRecords = a.staleRecords
         /\ b.pendingE = a.pendingE /\ b.runningE = a.runningE /\ b.owed = a.owed
         /\ b.enriched = a.enriched /\ b.staleEnriched = a.staleEnriched
         /\ ScansHalt(a) => ScansHalt(b)
         /\ ScansKept(a) => ScansKept(b)
<1> DEFINE b == DropEvidence(a, keys)
           d == CancelProjectScans(a, keys)
<1>1. /\ d \in Actors /\ OnlyScans(a, d)
      /\ ScansHalt(a) => ScansHalt(d)
      /\ ScansKept(a) => ScansKept(d)
  BY CancelProjectScansStep
<1> DEFINE projects == Cleared(d.projects, keys)
           facts == Cleared(d.facts, keys)
<1>2. b = [d EXCEPT !.projects = Cleared(@, keys), !.staleProjects = @ \ keys,
                    !.facts = Cleared(@, keys)]
  BY DEF DropEvidence
<1> HIDE DEF d, b
<1>3. b = [d EXCEPT !.projects = projects, !.staleProjects = d.staleProjects \ keys,
      !.facts = facts]
  BY <1>1, <1>2 DEF Actors
<1>4. /\ d.projects \in [Processes -> NoneOr([dir : Known, generation : Nat])]
      /\ d.facts \in [Processes -> NoneOr(Evidences)] /\ d.staleProjects \ keys \in SUBSET Processes
  BY <1>1 DEF Actors
<1>5. /\ projects \in [Processes -> NoneOr([dir : Known, generation : Nat])]
      /\ facts \in [Processes -> NoneOr(Evidences)]
  BY <1>4 DEF Cleared, NoneOr
<1> HIDE DEF projects, facts
<1>6. /\ b \in Actors /\ SameMode(d, b) /\ b.facts = facts /\ b.records = d.records
      /\ b.feed = d.feed
      /\ b.staleRecords = d.staleRecords
      /\ b.pendingE = d.pendingE /\ b.runningE = d.runningE /\ b.owed = d.owed
      /\ b.enriched = d.enriched /\ b.staleEnriched = d.staleEnriched
      /\ b.pendingP = d.pendingP /\ b.runningP = d.runningP
  BY <1>1, <1>3, <1>4, <1>5 DEF Actors, SameMode
<1>7. (ScansHalt(d) => ScansHalt(b)) /\ (ScansKept(d) => ScansKept(b))
  BY <1>6, ScansDepend DEF SameMode
<1>8. facts = Cleared(a.facts, keys)
  BY <1>1 DEF OnlyScans, facts
<1> QED  BY <1>1, <1>6, <1>7, <1>8 DEF b, OnlyScans, SameMode

(* What a fast scan makes of one process *)
LEMMA ObservedRecord ==
  ASSUME NEW a \in Actors, NEW p \in Processes, NEW seen \in Known
  PROVE  LET x == Observed(a, p, seen)
             old == a.records[p]
         IN
         /\ x \in Records /\ x # None
         /\ old = None =>
              /\ x.evidence = Unscanned(x.dir)
              /\ x.class = [rules |-> a.context.rules, facts |-> a.facts[p], dir |-> x.dir]
         /\ old # None => \/ x = old
                          \/ x.dir # old.dir /\ \E r \in Records : x = WithoutEvidence(a, r)
<1> DEFINE x == Observed(a, p, seen)
           old == a.records[p]
           dir == IF old # None /\ seen = "Unknown" THEN old.dir ELSE seen
<1>1. old \in NoneOr(Records) /\ a.facts[p] \in NoneOr(Evidences)
  BY DEF Actors
<1>2. dir \in Known
  BY <1>1 DEF NoneOr, Records
<1>3. CASE old = None
  <2> DEFINE r == [dir |-> dir, evidence |-> Unscanned(dir), class |-> None]
  <2>1. x = Classified(a, a.facts[p], r)
    BY <1>3 DEF Observed
  <2>2. Unscanned(dir) \in Evidences
    BY <1>2, UnscannedHasNoFacts
  <2>3. r = [dir |-> dir, evidence |-> Unscanned(dir), class |-> r.class]
    OBVIOUS
  <2> HIDE DEF dir, x, r
  <2>4. /\ x = [dir |-> dir, evidence |-> Unscanned(dir),
                class |-> [rules |-> a.context.rules, facts |-> a.facts[p], dir |-> dir]]
        /\ x \in Records
    BY <1>1, <1>2, <2>1, <2>2, <2>3, ClassifiedRecord
  <2> QED  BY <1>3, <2>4, NoneIsNoElement DEF x
<1>4. CASE old # None /\ old.dir = dir
  BY <1>1, <1>4, NoneIsNoElement DEF Observed, NoneOr
<1>5. CASE old # None /\ old.dir # dir
  <2> DEFINE r == [old EXCEPT !.dir = dir]
  <2>1. x = WithoutEvidence(a, r)
    BY <1>5 DEF Observed
  <2>2. r \in Records /\ r.dir = dir
    BY <1>1, <1>2, <1>5 DEF NoneOr, Records
  <2> HIDE DEF r, dir, x
  <2>3. x \in Records /\ x # None /\ x.dir = r.dir
    BY <2>1, <2>2, WithoutEvidenceRecord
  <2> QED  BY <1>5, <2>1, <2>2, <2>3 DEF x
<1> QED  BY <1>3, <1>4, <1>5

(* apply_fast_scan *)
LEMMA ApplyFastScanStep ==
  ASSUME NEW a \in Actors, NEW scan, DOMAIN scan \in SUBSET Processes,
         \A p \in DOMAIN scan : scan[p] \in Known, RecordsKept(a)
  PROVE  LET b == ApplyFastScan(a, scan) IN
         /\ b \in Actors /\ SameMode(a, b)
         /\ RecordsKept(b)
         /\ EnrichmentsHalt(a) => EnrichmentsHalt(b)
         /\ EnrichmentsKept(a) => EnrichmentsKept(b)
         /\ ScansHalt(a) => ScansHalt(b)
         /\ ScansKept(a) => ScansKept(b)
<1> DEFINE seen    == DOMAIN scan
           newKeys == {p \in seen : a.records[p] = None}
           record  == [p \in seen |-> Observed(a, p, scan[p])]
           moved   == {p \in seen \ newKeys : record[p].dir # a.records[p].dir}
           gone    == Cached(a) \ seen
           d       == DropEvidence(a, moved)
           b       == Forget(d, gone)
           records == [p \in Processes |-> IF p \in seen THEN record[p] ELSE None]
           c       == [b EXCEPT !.records = records, !.staleRecords = {}]
           feed    == [p \in Processes |-> IF p \in seen /\ a.records[p] # records[p]
                                           THEN records[p] ELSE b.feed[p]]
           e       == [c EXCEPT !.feed = feed]
           f       == QueueNewEnrichments(e, newKeys)
           g       == QueueProjectScans(f, newKeys \cup moved, New)
<1>1. /\ a.records \in [Processes -> NoneOr(Records)] /\ a.feed \in [Processes -> NoneOr(Records)]
      /\ a.facts \in [Processes -> NoneOr(Evidences)]
  BY DEF Actors
<1>2. /\ seen \in SUBSET Processes /\ newKeys \in SUBSET Processes /\ moved \in SUBSET Processes
      /\ gone \in SUBSET Processes /\ Cached(a) = {p \in Processes : a.records[p] # None}
  BY DEF Cached
<1>3. ASSUME NEW p \in seen
      PROVE  /\ p \in Processes /\ record[p] \in Records /\ record[p] # None
             /\ a.records[p] = None =>
                  /\ record[p].evidence = Unscanned(record[p].dir)
                  /\ record[p].class = [rules |-> a.context.rules, facts |-> a.facts[p],
                     dir |-> record[p].dir]
             /\ a.records[p] # None =>
                  \/ record[p] = a.records[p]
                  \/ record[p].dir # a.records[p].dir
                     /\ \E r \in Records : record[p] = WithoutEvidence(a, r)
  BY <1>2, ObservedRecord
<1> HIDE DEF record, d, b
<1>4. /\ d \in Actors /\ SameMode(a, d)
      /\ d.records = a.records /\ d.feed = a.feed /\ d.facts = Cleared(a.facts, moved)
      /\ d.pendingE = a.pendingE /\ d.runningE = a.runningE /\ d.owed = a.owed
      /\ d.enriched = a.enriched
      /\ ScansHalt(a) => ScansHalt(d)
      /\ ScansKept(a) => ScansKept(d)
  <2> HIDE DEF moved
  <2> QED  BY <1>2, DropEvidenceStep DEF d
<1>5. /\ b \in Actors /\ SameMode(d, b)
      /\ b.facts = Cleared(d.facts, gone) /\ b.feed = Cleared(d.feed, gone)
      /\ \A p \in Processes : b.owed[p] = IF p \in gone THEN 0 ELSE d.owed[p]
      /\ EnrichmentsHalt(d) => EnrichmentsHalt(b)
      /\ EnrichmentsKept(d) => EnrichmentsKept(b)
      /\ ScansHalt(d) => ScansHalt(b)
      /\ ScansKept(d) => ScansKept(b)
  <2> HIDE DEF gone
  <2> QED  BY <1>2, <1>4, ForgetStep DEF b
<1>6. (EnrichmentsHalt(a) => EnrichmentsHalt(d)) /\ (EnrichmentsKept(a) => EnrichmentsKept(d))
  <2>1. EnrichmentsHalt(a) => EnrichmentsHalt(d)
    BY <1>4, EnrichmentsDepend
  <2>2. ASSUME EnrichmentsKept(a) PROVE EnrichmentsKept(d)
    BY <1>4, <2>2, EnrichmentsDepend DEF EnrichmentsKept, EnrichmentOf
  <2> QED  BY <2>1, <2>2
<1> DEFINE facts == [p \in Processes |-> IF p \in moved \cup gone THEN None ELSE a.facts[p]]
<1>7. b.facts = facts
  BY <1>4, <1>5 DEF Cleared
<1>8. \A p \in Processes : b.feed[p] = IF p \in gone THEN None ELSE a.feed[p]
  BY <1>4, <1>5 DEF Cleared
<1>9. records \in [Processes -> NoneOr(Records)]
      /\ \A p \in Processes : records[p] = IF p \in seen THEN record[p] ELSE None
  BY <1>3 DEF NoneOr
<1>10. b.feed \in [Processes -> NoneOr(Records)]
  BY <1>5 DEF Actors
<1>11. feed \in [Processes -> NoneOr(Records)]
       /\ \A p \in Processes : feed[p] = IF p \in seen /\ a.records[p] # records[p]
                                           THEN records[p] ELSE b.feed[p]
  BY <1>9, <1>10
<1> HIDE DEF records, feed, facts
<1>12. /\ e \in Actors /\ SameMode(b, e) /\ e.records = records /\ e.feed = feed /\ e.facts = facts
       /\ e.pendingE = b.pendingE /\ e.runningE = b.runningE /\ e.owed = b.owed
       /\ e.enriched = b.enriched
       /\ e.pendingP = b.pendingP /\ e.runningP = b.runningP
  BY <1>5, <1>7, <1>9, <1>11 DEF Actors, SameMode
<1>13. ApplyFastScan(a, scan) = g
  <2>1. ApplyFastScan(a, scan) =
          QueueProjectScans(QueueNewEnrichments(Published(a, c, seen), newKeys), newKeys \cup moved,
            New)
    BY DEF ApplyFastScan, record, d, b, records
  <2>2. Published(a, c, seen) = [c EXCEPT !.feed = [p \in Processes |->
           IF p \in seen /\ a.records[p] # c.records[p] THEN c.records[p] ELSE @[p]]]
    BY DEF Published
  <2>3. c.records = records /\ c.feed = b.feed /\ c \in Actors
    BY <1>5, <1>9 DEF Actors
  <2> HIDE DEF c
  <2>4. Published(a, c, seen) = e
    BY <2>2, <2>3 DEF Actors, feed
  <2> QED  BY <2>1, <2>4
<1>14. RecordsKept(e)
  <2> SUFFICES ASSUME NEW p \in Processes PROVE RecordIsCurrent(e, p)
    BY DEF RecordsKept
  <2>1. RecordIsCurrent(a, p)
    BY DEF RecordsKept
  <2>2. e.context = a.context
    BY <1>4, <1>5, <1>12 DEF SameMode
  <2>3. e.facts[p] = IF p \in moved \cup gone THEN None ELSE a.facts[p]
    BY <1>12 DEF facts
  <2>4. e.records[p] = IF p \in seen THEN record[p] ELSE None
    BY <1>9, <1>12
  <2>5. e.feed[p] = e.records[p]
    <3>1. a.feed[p] = a.records[p]
      BY <2>1 DEF RecordIsCurrent
    <3>2. CASE p \in seen
      BY <3>1, <3>2, <1>8, <1>11, <1>12, <2>4
    <3>3. CASE p \notin seen
      <4>1. e.feed[p] = IF p \in gone THEN None ELSE a.feed[p]
        BY <3>3, <1>8, <1>11, <1>12
      <4> QED  BY <3>1, <3>3, <4>1, <1>2, <2>4
    <3> QED  BY <3>2, <3>3
  <2> HIDE DEF e, c
  <2>6. CASE p \notin seen
    <3>1. e.records[p] = None /\ e.facts[p] = None
      <4>1. CASE a.records[p] = None
        BY <2>1, <2>3, <2>4, <2>6, <4>1 DEF RecordIsCurrent
      <4>2. CASE a.records[p] # None
        BY <2>3, <2>4, <2>6, <4>2, <1>2
      <4> QED  BY <4>1, <4>2
    <3> QED  BY <3>1, <2>5 DEF RecordIsCurrent
  <2>7. CASE p \in seen /\ a.records[p] = None
    <3>1. e.facts[p] = None /\ a.facts[p] = None
      BY <2>1, <2>3, <2>7, <1>2 DEF RecordIsCurrent
    <3>2. e.records[p] = record[p] /\ record[p].dir \in Known
      BY <2>4, <2>7, <1>3 DEF Records
    <3>3. /\ record[p].evidence = Unscanned(record[p].dir)
          /\ record[p].class = [rules |-> a.context.rules, facts |-> None, dir |-> record[p].dir]
      BY <2>7, <3>1, <1>3
    <3>4. FactsOf(record[p].evidence) = None /\ record[p].evidence.state \notin {"Found", "Missing"}
      BY <3>2, <3>3, UnscannedHasNoFacts
    <3> QED  BY <2>2, <2>5, <3>1, <3>2, <3>3, <3>4 DEF RecordIsCurrent
  <2>8. CASE p \in seen /\ a.records[p] # None /\ record[p] = a.records[p]
    <3>1. e.records[p] = a.records[p] /\ e.facts[p] = a.facts[p]
      BY <2>3, <2>4, <2>8, <1>2
    <3> QED  BY <2>1, <2>2, <2>5, <3>1 DEF RecordIsCurrent
  <2>9. CASE p \in seen /\ a.records[p] # None /\ record[p] # a.records[p]
    <3>1. PICK r \in Records : record[p] = WithoutEvidence(a, r)
      BY <2>9, <1>3
    <3>2. p \in moved
      BY <2>9, <1>3
    <3>3. e.records[p] = WithoutEvidence(a, r) /\ e.facts[p] = None
          /\ e.context.rules = a.context.rules
      BY <2>2, <2>3, <2>4, <2>9, <3>1, <3>2
    <3> QED  BY <2>5, <3>3, WithoutEvidenceIsCurrent
  <2> QED  BY <2>6, <2>7, <2>8, <2>9
<1>15. (EnrichmentsHalt(a) => EnrichmentsHalt(e)) /\ (EnrichmentsKept(a) => EnrichmentsKept(e))
  <2> HIDE DEF e
  <2>1. EnrichmentsHalt(b) => EnrichmentsHalt(e)
    BY <1>12, EnrichmentsDepend
  <2>2. ASSUME EnrichmentsKept(a) PROVE EnrichmentsKept(e)
    <3>1. EnrichmentsKept(b)
      BY <1>5, <1>6, <2>2
    <3>2. ASSUME NEW p \in Processes, e.records[p] = None PROVE e.owed[p] = 0
      <4>1. p \notin seen
        BY <3>2, <1>3, <1>9, <1>12
      <4>2. p \in gone \/ a.records[p] = None
        BY <4>1, <1>2
      <4>3. a.records[p] = None => a.owed[p] = 0
        BY <2>2 DEF EnrichmentsKept, EnrichmentOf
      <4> QED  BY <4>2, <4>3, <1>4, <1>5, <1>12
    <3> QED  BY <1>12, <3>1, <3>2, EnrichmentsDepend
  <2> QED  BY <2>1, <2>2, <1>5, <1>6
<1>16. (ScansHalt(a) => ScansHalt(e)) /\ (ScansKept(a) => ScansKept(e))
  <2> HIDE DEF e
  <2>1. e.generation = b.generation /\ e.context = b.context
    BY <1>12 DEF SameMode
  <2>2. (ScansHalt(b) => ScansHalt(e)) /\ (ScansKept(b) => ScansKept(e))
    BY <2>1, <1>12, ScansDepend
  <2> QED  BY <2>2, <1>4, <1>5
<1> HIDE DEF e, f, g
<1>17. /\ f \in Actors /\ OnlyEnrichments(e, f)
       /\ EnrichmentsHalt(e) => EnrichmentsHalt(f)
       /\ EnrichmentsKept(e) => EnrichmentsKept(f)
  BY <1>2, <1>12, QueueNewEnrichmentsStep DEF f
<1>18. (ScansHalt(e) => ScansHalt(f)) /\ (ScansKept(e) => ScansKept(f)) /\ RecordsKept(f)
  BY <1>14, <1>17, ScansDepend DEF OnlyEnrichments, RecordsKept, RecordIsCurrent
<1>19. /\ g \in Actors /\ OnlyScans(f, g)
       /\ ScansHalt(f) => ScansHalt(g)
       /\ ScansKept(f) => ScansKept(g)
  BY <1>2, <1>17, QueueProjectScansStep DEF New, Selected, g
<1>20. (EnrichmentsHalt(f) => EnrichmentsHalt(g)) /\ (EnrichmentsKept(f) => EnrichmentsKept(g))
       /\ RecordsKept(g)
  <2>1. g.pendingE = f.pendingE /\ g.runningE = f.runningE /\ g.owed = f.owed
        /\ g.enriched = f.enriched
        /\ g.records = f.records /\ g.feed = f.feed /\ g.facts = f.facts /\ g.context = f.context
    BY <1>19 DEF OnlyScans
  <2>2. EnrichmentsHalt(f) => EnrichmentsHalt(g)
    BY <2>1, EnrichmentsDepend
  <2>3. EnrichmentsKept(f) => EnrichmentsKept(g)
    BY <2>1 DEF EnrichmentsKept, EnrichmentOf, Covered
  <2> QED  BY <1>18, <2>1, <2>2, <2>3 DEF RecordsKept, RecordIsCurrent
<1>21. SameMode(a, g)
  BY <1>4, <1>5, <1>12, <1>17, <1>19 DEF SameMode, OnlyEnrichments, OnlyScans
<1> QED  BY <1>13, <1>15, <1>16, <1>17, <1>18, <1>19, <1>20, <1>21

(* What the invariant of the records looks at *)
LEMMA RecordsDepend ==
  ASSUME NEW a, NEW b, RecordsKept(a), b.records = a.records, b.feed = a.feed, b.facts = a.facts,
         b.context = a.context
  PROVE  RecordsKept(b)
BY DEF RecordsKept, RecordIsCurrent

(* Enrichments do not depend on what the records say. *)
LEMMA EnrichmentsSame ==
  ASSUME NEW a, NEW b, b.pendingE = a.pendingE, b.runningE = a.runningE, b.owed = a.owed,
         b.enriched = a.enriched, \A p \in Processes : b.records[p] = None <=> a.records[p] = None
  PROVE  (EnrichmentsHalt(a) => EnrichmentsHalt(b)) /\ (EnrichmentsKept(a) => EnrichmentsKept(b))
BY DEF EnrichmentsHalt, EnrichmentsKept, EnrichmentOf, Covered

(* What holds of the others and of p between the end of a task and what *)
(* follows it                                                           *)
TaskEnded(a, p, task) ==
  /\ \A q \in Processes : q # p => EnrichmentOf(a, q)
  /\ a.records[p] = None => a.owed[p] = 0
  /\ a.runningE[p] = None
  /\ Covered(a, p) \/ (~task.cancelled /\ a.owed[p] <= task.desired)
  /\ Distinct(a.pendingE)
  /\ Cardinality(Running(a.runningE)) <= EnrichmentConcurrency

(* What is met of the demand was met, and the cache has no more than that. *)
DemandMet(a, p, task) ==
  \/ Covered(a, p)
  \/ /\ a.enriched[p] = None \/ a.enriched[p] <= task.started
     /\ task.started >= task.desired => a.owed[p] = 0

(* handle_task_completion takes the task away *)
LEMMA TaskIsTakenAway ==
  ASSUME NEW a \in Actors, NEW p \in Processes, a.runningE[p] # None
  PROVE  LET b == [a EXCEPT !.runningE[p] = None]
             task == a.runningE[p]
         IN
         /\ task \in EnrichmentTasks
         /\ b \in Actors /\ OnlyEnrichments(a, b) /\ b.pendingE = a.pendingE /\ b.owed = a.owed
         /\ b.enriched = a.enriched /\ b.runningE[p] = None
         /\ \A q \in Processes : q # p => b.runningE[q] = a.runningE[q]
         /\ EnrichmentsKept(a) => /\ TaskEnded(b, p, task)
                                  /\ b.enriched[p] = None \/ b.enriched[p] < task.started
<1> DEFINE runningE == [a.runningE EXCEPT ![p] = None]
           b == [a EXCEPT !.runningE = runningE]
           task == a.runningE[p]
<1>1. a.runningE \in [Processes -> NoneOr(EnrichmentTasks)] /\ a.owed \in [Processes -> 0..2]
      /\ a.enriched \in [Processes -> NoneOr(Demands)]
  BY DEF Actors
<1>2. task \in EnrichmentTasks
  BY <1>1 DEF NoneOr
<1>3. /\ runningE \in [Processes -> NoneOr(EnrichmentTasks)] /\ runningE[p] = None
      /\ \A q \in Processes : q # p => runningE[q] = a.runningE[q]
  BY <1>1 DEF NoneOr
<1>4. b = [a EXCEPT !.runningE[p] = None]
  BY DEF Actors
<1> HIDE DEF runningE
<1>5. /\ b \in Actors /\ OnlyEnrichments(a, b) /\ b.pendingE = a.pendingE /\ b.owed = a.owed
      /\ b.enriched = a.enriched /\ b.runningE = runningE
  BY <1>3 DEF Actors, OnlyEnrichments
<1> HIDE DEF b, task
<1>6. ASSUME EnrichmentsKept(a)
      PROVE  TaskEnded(b, p, task) /\ (b.enriched[p] = None \/ b.enriched[p] < task.started)
  <2>1. EnrichmentOf(a, p)
    BY <1>6 DEF EnrichmentsKept
  <2>2. ASSUME NEW q \in Processes, q # p PROVE EnrichmentOf(b, q)
    BY <1>3, <1>5, <1>6, <2>2 DEF EnrichmentsKept, OnlyEnrichments, EnrichmentOf, Covered
  <2>3. a.records[p] = None => b.owed[p] = 0
    BY <2>1, <1>5 DEF EnrichmentOf
  <2>4. Covered(b, p) \/ (~task.cancelled /\ b.owed[p] <= task.desired)
    <3>1. a.owed[p] \in 0..2 /\ task.desired \in 1..2
      BY <1>1, <1>2 DEF EnrichmentTasks, Demands, Metadata, MetadataAndPorts
    <3>2. CASE a.owed[p] > 0
      BY <1>5, <2>1, <3>1, <3>2 DEF EnrichmentOf, Covered, task
    <3>3. CASE ~(a.owed[p] > 0)
      BY <3>3, <1>5 DEF Covered
    <3> QED  BY <3>2, <3>3
  <2>5. b.enriched[p] = None \/ b.enriched[p] < task.started
    BY <2>1, <1>5 DEF EnrichmentOf, task
  <2>6. Cardinality(Running(b.runningE)) <= EnrichmentConcurrency
    <3>1. Running(b.runningE) \in SUBSET Running(a.runningE)
      BY <1>3, <1>5 DEF Running
    <3>2. Cardinality(Running(b.runningE)) <= Cardinality(Running(a.runningE))
      BY <3>1, RunningIsFinite, FS_Subset, Zenon
    <3> QED  BY <3>2, <1>6, RunningIsFinite, CapacitiesArePositive DEF EnrichmentsKept
  <2> QED  BY <2>2, <2>3, <2>4, <2>5, <2>6, <1>3, <1>5, <1>6 DEF TaskEnded, EnrichmentsKept,
                  OnlyEnrichments
<1> QED  BY <1>2, <1>3, <1>4, <1>5, <1>6 DEF b, task

(* queue_enrichment_follow_up *)
LEMMA FollowUpStep ==
  ASSUME NEW a \in Actors, NEW p \in Processes, NEW task \in EnrichmentTasks
  PROVE  LET b == FollowUp(a, p, task) IN
         /\ b \in Actors /\ OnlyEnrichments(a, b)
         /\ task.cancelled => b = a
         /\ TaskEnded(a, p, task) /\ DemandMet(a, p, task) => EnrichmentsKept(b)
<1> DEFINE b == FollowUp(a, p, task)
<1>1. /\ task.priority \in New..Selected /\ task.desired \in Demands /\ task.desired \in 1..2
      /\ task.started \in 1..2 /\ a.owed[p] \in 0..2
      /\ a.enriched[p] = None \/ a.enriched[p] \in 1..2
  BY DEF EnrichmentTasks, Demands, Metadata, MetadataAndPorts, Actors, NoneOr
<1>2. CASE task.cancelled \/ task.started >= task.desired
  <2>1. b = a
    BY <1>2 DEF FollowUp
  <2>2. ASSUME TaskEnded(a, p, task), DemandMet(a, p, task) PROVE EnrichmentsKept(a)
    <3>1. Covered(a, p)
      BY <1>2, <2>2 DEF TaskEnded, DemandMet, Covered
    <3>2. EnrichmentOf(a, p)
      BY <3>1, <2>2 DEF TaskEnded, EnrichmentOf
    <3> QED  BY <3>2, <2>2 DEF TaskEnded, EnrichmentsKept
  <2> QED  BY <2>1, <2>2 DEF OnlyEnrichments
<1>3. CASE ~(task.cancelled \/ task.started >= task.desired)
  <2>1. b = QueueEnrichment(a, p, task.priority, task.desired)
    BY <1>3 DEF FollowUp
  <2>2. ASSUME TaskEnded(a, p, task), DemandMet(a, p, task) PROVE NearlyKept(a, p, task.desired)
    BY <1>1, <1>3, <2>2 DEF TaskEnded, DemandMet, NearlyKept
  <2> HIDE DEF b
  <2>3. b \in Actors /\ OnlyEnrichments(a, b)
        /\ (NearlyKept(a, p, task.desired) => EnrichmentsKept(b))
    BY <1>1, <2>1, QueueEnrichmentStep
  <2> QED  BY <1>3, <2>2, <2>3 DEF b
<1> QED  BY <1>2, <1>3

(* apply_enrichment *)
LEMMA ApplyEnrichmentStep ==
  ASSUME NEW a \in Actors, NEW p \in Processes, NEW task \in EnrichmentTasks, NEW dir \in Known,
         NEW victim, RecordsKept(a)
  PROVE  LET b == ApplyEnrichment(a, p, task, dir, victim) IN
         /\ b \in Actors /\ SameMode(a, b) /\ RecordsKept(b)
         /\ b.pendingE = a.pendingE /\ b.runningE = a.runningE
         /\ \A q \in Processes : b.records[q] = None <=> a.records[q] = None
         /\ \A q \in Processes : q # p =>
              b.owed[q] = a.owed[q] /\ (b.enriched[q] = None \/ b.enriched[q] = a.enriched[q])
         /\ a.records[p] = None => b = a
         /\ a.records[p] # None =>
              b.enriched[p] = task.started /\ b.owed[p] = Settled(a.owed, p, task.started)[p]
         /\ ScansHalt(a) => ScansHalt(b)
         /\ ScansKept(a) => ScansKept(b)
<1> DEFINE x == ApplyEnrichment(a, p, task, dir, victim)
<1>1. CASE a.records[p] = None
  BY <1>1 DEF ApplyEnrichment, SameMode
<1>2. CASE a.records[p] # None
  <2> DEFINE old == a.records[p]
             moved == old.dir # dir
             b == IF moved THEN DropEvidence(a, {p}) ELSE a
             r == IF moved THEN [old EXCEPT !.dir = dir, !.evidence = Unscanned(dir)] ELSE old
             k == Classified(b, b.facts[p], r)
             records == [b.records EXCEPT ![p] = k]
             m == [b EXCEPT !.records = records]
             feed == [q \in Processes |-> IF q \in {p} /\ a.records[q] # records[q]
                                          THEN records[q] ELSE b.feed[q]]
             c == [m EXCEPT !.feed = feed]
             gone == Evicted(c.enriched, c.staleEnriched, p, EnrichmentCapacity, victim)
             enriched == [q \in Processes |-> IF q = p THEN task.started
                                              ELSE IF q \in gone THEN None ELSE c.enriched[q]]
             owed == Settled(c.owed, p, task.started)
             stale == c.staleEnriched \ (gone \cup {p})
             d == [c EXCEPT !.enriched = enriched, !.staleEnriched = stale, !.owed = owed]
  <2>1. /\ old \in Records /\ old.dir \in Known /\ old.evidence \in Evidences
        /\ old.class \in Classes
        /\ old = [dir |-> old.dir, evidence |-> old.evidence, class |-> old.class]
        /\ RecordIsCurrent(a, p)
    BY <1>2 DEF Actors, NoneOr, Records, RecordsKept
  <2> HIDE DEF old, b
  <2>2. /\ b \in Actors /\ SameMode(a, b) /\ b.records = a.records /\ b.feed = a.feed
        /\ \A q \in Processes : b.facts[q] = IF q = p /\ moved THEN None ELSE a.facts[q]
        /\ b.pendingE = a.pendingE /\ b.runningE = a.runningE /\ b.owed = a.owed
        /\ b.enriched = a.enriched
        /\ ScansHalt(a) => ScansHalt(b)
        /\ ScansKept(a) => ScansKept(b)
    <3> HIDE DEF moved
    <3>1. CASE moved
      <4>1. {p} \in SUBSET Processes /\ b = DropEvidence(a, {p})
        BY <3>1 DEF b, moved
      <4>2. /\ b \in Actors /\ SameMode(a, b)
            /\ b.records = a.records /\ b.feed = a.feed /\ b.facts = Cleared(a.facts, {p})
            /\ b.pendingE = a.pendingE /\ b.runningE = a.runningE /\ b.owed = a.owed
            /\ b.enriched = a.enriched
            /\ ScansHalt(a) => ScansHalt(b)
            /\ ScansKept(a) => ScansKept(b)
        BY <4>1, DropEvidenceStep
      <4> QED  BY <3>1, <4>2 DEF Cleared
    <3>2. CASE ~moved
      BY <3>2 DEF b, moved, SameMode
    <3> QED  BY <3>1, <3>2
  <2>3. /\ r = [dir |-> dir, evidence |-> r.evidence, class |-> r.class] /\ r.evidence \in Evidences
        /\ moved => r.evidence = Unscanned(dir)
        /\ ~moved => r = old
    <3>1. CASE moved
      <4>1. r = [old EXCEPT !.dir = dir, !.evidence = Unscanned(dir)]
        BY <3>1
      <4>2. old \in [dir : Known, evidence : Evidences, class : Classes]
            /\ Unscanned(dir) \in Evidences
        BY <2>1, UnscannedHasNoFacts DEF Records
      <4> HIDE DEF r, moved
      <4> QED  BY <3>1, <4>1, <4>2
    <3>2. CASE ~moved
      BY <2>1, <3>2
    <3> QED  BY <3>1, <3>2
  <2>4. b.facts[p] \in NoneOr(Evidences) /\ b.facts[p] = IF moved THEN None ELSE a.facts[p]
    BY <2>2 DEF Actors
  <2> HIDE DEF r, moved, k
  <2>5. /\ k = [dir |-> dir, evidence |-> r.evidence,
                class |-> [rules |-> b.context.rules, facts |-> b.facts[p], dir |-> dir]]
        /\ k \in Records /\ k # None
    BY <2>2, <2>3, <2>4, ClassifiedRecord, NoneIsNoElement, ZenonT(60) DEF k
  <2>6. b.records \in [Processes -> NoneOr(Records)] /\ b.feed \in [Processes -> NoneOr(Records)]
    BY <2>2 DEF Actors
  <2>7. /\ records \in [Processes -> NoneOr(Records)] /\ records[p] = k
        /\ \A q \in Processes : q # p => records[q] = a.records[q]
    BY <2>2, <2>5, <2>6 DEF NoneOr
  <2> HIDE DEF records
  <2>8. /\ feed \in [Processes -> NoneOr(Records)]
        /\ \A q \in Processes : feed[q] = IF q = p /\ a.records[q] # records[q]
                                            THEN records[q] ELSE b.feed[q]
    BY <2>6, <2>7
  <2> HIDE DEF feed
  <2>9. /\ m \in Actors /\ SameMode(b, m) /\ m.records = records /\ m.feed = b.feed
        /\ m.facts = b.facts
        /\ m.pendingE = b.pendingE /\ m.runningE = b.runningE /\ m.owed = b.owed
        /\ m.enriched = b.enriched
        /\ m.pendingP = b.pendingP /\ m.runningP = b.runningP
    BY <2>2, <2>7 DEF Actors, SameMode
  <2>10. m = [b EXCEPT !.records[p] = Classified(b, b.facts[p], r)]
    BY <2>2 DEF Actors, records, k
  <2> HIDE DEF m
  <2>11. /\ c \in Actors /\ SameMode(b, c) /\ c.records = records /\ c.feed = feed
         /\ c.facts = b.facts
         /\ c.pendingE = b.pendingE /\ c.runningE = b.runningE /\ c.owed = b.owed
         /\ c.enriched = b.enriched
         /\ c.pendingP = b.pendingP /\ c.runningP = b.runningP
    BY <2>8, <2>9 DEF Actors, SameMode
  <2>12. c = Published(a, m, {p})
    BY <2>9 DEF Published, Actors, feed
  <2> HIDE DEF c, gone
  <2>13. c.owed \in [Processes -> 0..2] /\ c.enriched \in [Processes -> NoneOr(Demands)]
         /\ c.staleEnriched \in SUBSET Processes /\ task.started \in Demands
         /\ task.priority \in New..Selected
    BY <2>11 DEF Actors, EnrichmentTasks
  <2>14. /\ owed \in [Processes -> 0..2] /\ owed[p] = Settled(a.owed, p, task.started)[p]
         /\ \A q \in Processes : q # p => owed[q] = a.owed[q]
    BY <2>2, <2>11, <2>13 DEF Settled
  <2>15. /\ enriched \in [Processes -> NoneOr(Demands)] /\ enriched[p] = task.started
         /\ \A q \in Processes : q # p => enriched[q] = None \/ enriched[q] = a.enriched[q]
         /\ stale \in SUBSET Processes
    BY <2>2, <2>11, <2>13 DEF NoneOr
  <2> HIDE DEF owed, enriched, stale
  <2>16. /\ d \in Actors /\ SameMode(c, d) /\ d.records = records /\ d.feed = feed
         /\ d.facts = b.facts
         /\ d.pendingE = b.pendingE /\ d.runningE = b.runningE /\ d.owed = owed
         /\ d.enriched = enriched
         /\ d.pendingP = b.pendingP /\ d.runningP = b.runningP
    BY <2>11, <2>14, <2>15 DEF Actors, SameMode
  <2>17. x = QueueProjectScan(d, p, task.priority)
    <3>1. d = [c EXCEPT !.enriched = [q \in Processes |->
              IF q = p THEN task.started ELSE IF q \in gone THEN None ELSE @[q]],
                     !.staleEnriched = @ \ (gone \cup {p}),
                     !.owed = Settled(@, p, task.started)]
      BY <2>11 DEF Actors, enriched, owed, stale
    <3> HIDE DEF d
    <3> QED  BY <1>2, <2>10, <2>12, <3>1, ZenonT(60) DEF ApplyEnrichment, b, r, moved, old, gone
  <2> HIDE DEF d, x
  <2>18. /\ x \in Actors /\ OnlyScans(d, x)
         /\ ScansHalt(d) => ScansHalt(x)
         /\ ScansKept(d) => ScansKept(x)
    BY <2>13, <2>16, <2>17, QueueProjectScanStep
  <2>19. SameMode(a, x) /\ x.records = records /\ x.feed = feed /\ x.facts = b.facts
         /\ x.pendingE = a.pendingE /\ x.runningE = a.runningE /\ x.owed = owed
         /\ x.enriched = enriched
    BY <2>2, <2>11, <2>16, <2>18 DEF SameMode, OnlyScans
  <2>20. (ScansHalt(a) => ScansHalt(x)) /\ (ScansKept(a) => ScansKept(x))
    <3>1. d.generation = b.generation /\ d.context = b.context
      BY <2>11, <2>16 DEF SameMode
    <3>2. (ScansHalt(b) => ScansHalt(d)) /\ (ScansKept(b) => ScansKept(d))
      BY <2>16, <3>1, ScansDepend
    <3> QED  BY <2>2, <2>18, <3>2
  <2>21. RecordsKept(x)
    <3> SUFFICES ASSUME NEW q \in Processes PROVE RecordIsCurrent(x, q)
      BY DEF RecordsKept
    <3>1. RecordIsCurrent(a, q) /\ x.context = a.context /\ b.context = a.context
      BY <2>2, <2>19 DEF RecordsKept, SameMode
    <3>2. x.feed[q] = x.records[q]
      <4>1. a.feed[q] = a.records[q]
        BY <3>1 DEF RecordIsCurrent
      <4> QED  BY <4>1, <2>2, <2>7, <2>8, <2>19
    <3>3. CASE q # p
      <4>1. x.records[q] = a.records[q] /\ x.facts[q] = a.facts[q]
        BY <3>3, <2>2, <2>7, <2>19
      <4> QED  BY <3>1, <3>2, <4>1 DEF RecordIsCurrent
    <3>4. CASE q = p /\ moved
      <4>1. x.facts[q] = None /\ x.records[q] = k /\ k.evidence = Unscanned(dir)
            /\ k.class = [rules |-> x.context.rules, facts |-> None, dir |-> k.dir]
        BY <3>1, <3>4, <2>3, <2>4, <2>5, <2>7, <2>19
      <4>2. FactsOf(Unscanned(dir)) = None /\ Unscanned(dir).state \notin {"Found", "Missing"}
        BY UnscannedHasNoFacts
      <4> QED  BY <2>5, <3>2, <4>1, <4>2 DEF RecordIsCurrent
    <3>5. CASE q = p /\ ~moved
      <4>1. x.facts[q] = a.facts[q] /\ x.records[q] = k /\ k.evidence = old.evidence
            /\ k.dir = old.dir
            /\ k.class = [rules |-> x.context.rules, facts |-> a.facts[p], dir |-> k.dir]
        BY <3>1, <3>5, <2>3, <2>4, <2>5, <2>7, <2>19 DEF moved
      <4>2. old = a.records[q] /\ old # None
        BY <1>2, <3>5 DEF old
      <4> QED  BY <2>5, <3>1, <3>2, <3>5, <4>1, <4>2 DEF RecordIsCurrent
    <3> QED  BY <3>3, <3>4, <3>5
  <2>22. \A q \in Processes : x.records[q] = None <=> a.records[q] = None
    BY <1>2, <2>5, <2>7, <2>19
  <2> QED  BY <1>2, <2>14, <2>15, <2>18, <2>19, <2>20, <2>21, <2>22 DEF x
<1> QED  BY <1>1, <1>2

(* A full cache gives up the entry of a process. *)
LEMMA EvictedAreProcesses ==
  ASSUME NEW cache, NEW stale \in SUBSET Processes, NEW p, NEW capacity \in Nat \ {0}, NEW victim
  PROVE  Evicted(cache, stale, p, capacity, victim) \in SUBSET Processes
<1> DEFINE cached == {q \in Processes : cache[q] # None}
           old == IF stale = {} THEN cached ELSE stale
           full == cache[p] = None /\ Cardinality(cached) >= capacity
<1>1. Evicted(cache, stale, p, capacity, victim) =
        IF ~full THEN {} ELSE IF victim \in old THEN {victim} ELSE {CHOOSE q \in old : TRUE}
  BY DEF Evicted
<1>2. old \in SUBSET Processes
  OBVIOUS
<1>3. ASSUME full PROVE old # {}
  <2> SUFFICES ASSUME cached = {} PROVE FALSE
    OBVIOUS
  <2>1. Cardinality(cached) = 0
    BY FS_EmptySet
  <2> HIDE DEF cached
  <2> QED  BY <1>3, <2>1
<1> HIDE DEF full, old
<1>4. full => (CHOOSE q \in old : TRUE) \in old
  BY <1>3
<1> QED  BY <1>1, <1>2, <1>4

(* apply_project_scan *)
LEMMA ApplyProjectScanStep ==
  ASSUME NEW a \in Actors, NEW p \in Processes, NEW task \in ScanTasks, NEW found \in BOOLEAN,
         NEW victim,
         RecordsKept(a), task.generation = a.generation => task.catalog = a.context.catalog
  PROVE  LET b == ApplyProjectScan(a, p, task, found, victim) IN
         /\ b \in Actors /\ SameMode(a, b) /\ RecordsKept(b)
         /\ b.pendingE = a.pendingE /\ b.runningE = a.runningE /\ b.owed = a.owed
         /\ b.enriched = a.enriched
         /\ b.pendingP = a.pendingP /\ b.runningP = a.runningP
         /\ \A q \in Processes : b.records[q] = None <=> a.records[q] = None
<1> DEFINE x == ApplyProjectScan(a, p, task, found, victim)
<1>1. CASE ~Accepts(a, p, task)
  <2>1. x = a
    BY <1>1 DEF ApplyProjectScan
  <2> QED  BY <2>1 DEF SameMode
<1>2. CASE Accepts(a, p, task)
  <2> DEFINE old == a.records[p]
             evidence == Evidence(found, task.dir, task.catalog)
             learnt == FactsOf(evidence)
             k == Classified(a, learnt, [old EXCEPT !.evidence = evidence])
             facts == [a.facts EXCEPT ![p] = learnt]
             records == [a.records EXCEPT ![p] = k]
             b == [a EXCEPT !.facts = facts, !.records = records]
             gone == Evicted(b.projects, b.staleProjects, p, b.projectCapacity, victim)
             projects == [q \in Processes |-> IF q = p THEN ScanOf(task)
                                              ELSE IF q \in gone THEN None ELSE b.projects[q]]
             stale == b.staleProjects \ (gone \cup {p})
             c == [b EXCEPT !.projects = projects, !.staleProjects = stale]
             feed == [q \in Processes |-> IF q \in {p} /\ a.records[q] # records[q]
                                          THEN records[q] ELSE a.feed[q]]
             d == [c EXCEPT !.feed = feed]
  <2>1. /\ old \in Records /\ old # None /\ old.class \in Classes /\ old.dir = task.dir
        /\ task.dir \in Known
        /\ task.catalog = a.context.catalog /\ task.catalog \in NoneOr(Catalogs)
        /\ task.generation \in Nat
    BY <1>2 DEF Accepts, Actors, NoneOr, Records, ScanTasks
  <2> HIDE DEF old
  <2>2. /\ evidence \in Evidences /\ evidence.dir = task.dir /\ evidence.catalog = task.catalog
        /\ learnt \in NoneOr(Evidences)
    <3>1. evidence = [state |-> IF found THEN "Found" ELSE "Missing", dir |-> task.dir,
          catalog |-> task.catalog]
      BY DEF Evidence
    <3> HIDE DEF evidence
    <3>2. evidence \in Evidences /\ evidence.dir = task.dir /\ evidence.catalog = task.catalog
      BY <2>1, <3>1 DEF Evidences, NoneOr
    <3> QED  BY <3>2 DEF FactsOf, NoneOr
  <2> HIDE DEF evidence
  <2> DEFINE r == [old EXCEPT !.evidence = evidence]
  <2>3. r = [dir |-> task.dir, evidence |-> evidence, class |-> r.class]
    BY <2>1 DEF Records
  <2>4. /\ k = [dir |-> task.dir, evidence |-> evidence,
                class |-> [rules |-> a.context.rules, facts |-> learnt, dir |-> task.dir]]
        /\ k \in Records /\ k # None
    <3> HIDE DEF r, learnt
    <3>1. k = Classified(a, learnt, r)
      BY DEF r
    <3> HIDE DEF k
    <3> QED  BY <2>1, <2>2, <2>3, <3>1, ClassifiedRecord, NoneIsNoElement
  <2> HIDE DEF k, r
  <2>5. /\ a.records \in [Processes -> NoneOr(Records)] /\ a.feed \in [Processes -> NoneOr(Records)]
        /\ a.facts \in [Processes -> NoneOr(Evidences)]
    BY DEF Actors
  <2>6. /\ records \in [Processes -> NoneOr(Records)] /\ records[p] = k
        /\ \A q \in Processes : q # p => records[q] = a.records[q]
    BY <2>4, <2>5 DEF NoneOr
  <2>7. /\ facts \in [Processes -> NoneOr(Evidences)] /\ facts[p] = learnt
        /\ \A q \in Processes : q # p => facts[q] = a.facts[q]
    <3> HIDE DEF learnt
    <3> QED  BY <2>2, <2>5
  <2> HIDE DEF records, facts
  <2>8. /\ feed \in [Processes -> NoneOr(Records)]
        /\ \A q \in Processes : feed[q] = IF q = p /\ a.records[q] # records[q]
                                            THEN records[q] ELSE a.feed[q]
    BY <2>5, <2>6
  <2> HIDE DEF feed
  <2>9. /\ b \in Actors /\ SameMode(a, b) /\ b.records = records /\ b.feed = a.feed
        /\ b.facts = facts
        /\ b.pendingE = a.pendingE /\ b.runningE = a.runningE /\ b.owed = a.owed
        /\ b.enriched = a.enriched
        /\ b.pendingP = a.pendingP /\ b.runningP = a.runningP
    BY <2>6, <2>7 DEF Actors, SameMode
  <2>10. b = [a EXCEPT !.facts[p] = FactsOf(evidence),
                       !.records[p] = Classified(a, FactsOf(evidence),
                         [@ EXCEPT !.evidence = evidence])]
    BY DEF Actors, records, facts, k, old
  <2> HIDE DEF b
  <2>11. /\ b.projects \in [Processes -> NoneOr([dir : Known, generation : Nat])]
         /\ b.staleProjects \in SUBSET Processes /\ b.projectCapacity \in Nat \ {0}
    BY <2>9 DEF Actors
  <2>12. gone \in SUBSET Processes
    BY <2>11, EvictedAreProcesses
  <2> HIDE DEF gone
  <2>13. /\ projects \in [Processes -> NoneOr([dir : Known, generation : Nat])]
         /\ stale \in SUBSET Processes
    BY <2>1, <2>11 DEF NoneOr, ScanOf
  <2> HIDE DEF projects, stale
  <2>14. /\ c \in Actors /\ SameMode(b, c) /\ c.records = records /\ c.feed = a.feed
         /\ c.facts = facts
         /\ c.pendingE = a.pendingE /\ c.runningE = a.runningE /\ c.owed = a.owed
         /\ c.enriched = a.enriched
         /\ c.pendingP = a.pendingP /\ c.runningP = a.runningP
    BY <2>9, <2>13 DEF Actors, SameMode
  <2>15. c = [b EXCEPT !.projects = [q \in Processes |->
              IF q = p THEN ScanOf(task) ELSE IF q \in gone THEN None ELSE @[q]],
                       !.staleProjects = @ \ (gone \cup {p})]
    BY <2>9 DEF Actors, projects, stale
  <2> HIDE DEF c
  <2>16. /\ d \in Actors /\ SameMode(a, d) /\ d.records = records /\ d.feed = feed
         /\ d.facts = facts
         /\ d.pendingE = a.pendingE /\ d.runningE = a.runningE /\ d.owed = a.owed
         /\ d.enriched = a.enriched
         /\ d.pendingP = a.pendingP /\ d.runningP = a.runningP
    BY <2>8, <2>9, <2>14, ZenonT(60) DEF Actors, SameMode
  <2>17. d = Published(a, c, {p})
    BY <2>14 DEF Published, Actors, feed
  <2>18. x = ClearProjectEvidence(d, gone)
    <3> HIDE DEF d
    <3> QED  BY <1>2, <2>10, <2>15, <2>17 DEF ApplyProjectScan, evidence, gone
  <2> HIDE DEF d, x
  <2>19. RecordsKept(d)
    <3> SUFFICES ASSUME NEW q \in Processes PROVE RecordIsCurrent(d, q)
      BY DEF RecordsKept
    <3>1. RecordIsCurrent(a, q) /\ d.context = a.context
      BY <2>16 DEF RecordsKept, SameMode
    <3>2. d.feed[q] = d.records[q]
      BY <2>6, <2>8, <2>16, <3>1 DEF RecordIsCurrent
    <3>3. CASE q # p
      <4>1. d.records[q] = a.records[q] /\ d.facts[q] = a.facts[q]
        BY <3>3, <2>6, <2>7, <2>16
      <4> QED  BY <3>1, <3>2, <4>1 DEF RecordIsCurrent
    <3>4. CASE q = p
      <4>1. d.facts[q] = FactsOf(evidence) /\ d.records[q] = k /\ k.evidence = evidence
            /\ k.dir = task.dir
            /\ k.class = [rules |-> d.context.rules, facts |-> d.facts[q], dir |-> k.dir]
        BY <3>1, <3>4, <2>4, <2>6, <2>7, <2>16
      <4> QED  BY <2>1, <2>2, <2>4, <3>1, <3>2, <4>1 DEF RecordIsCurrent
    <3> QED  BY <3>3, <3>4
  <2>20. x \in Actors /\ OnlyRecords(d, x) /\ RecordsKept(x)
    BY <2>12, <2>16, <2>18, <2>19, ClearProjectEvidenceStep
  <2>21. \A q \in Processes : d.records[q] = None <=> a.records[q] = None
    BY <2>1, <2>4, <2>6, <2>16 DEF old
  <2> QED  BY <2>16, <2>20, <2>21 DEF OnlyRecords, SameMode, x
<1> QED  BY <1>1, <1>2

(* replace_project_context *)
LEMMA ReplaceContextStep ==
  ASSUME NEW a \in Actors, RecordsKept(a),
         NEW context \in [catalog : NoneOr(Catalogs), rules : NoneOr(RuleSets)]
  PROVE  LET b == ReplaceContext(a, context) IN
         /\ b \in Actors /\ RecordsKept(b)
         /\ b.context = context /\ b.phase = a.phase /\ b.fast = a.fast
         /\ b.fastPending = a.fastPending
         /\ EnrichmentsHalt(a) => EnrichmentsHalt(b)
         /\ EnrichmentsKept(a) => EnrichmentsKept(b)
         /\ ScansHalt(b)
         /\ ScansKept(a) => ScansKept(b)
<1> DEFINE x == CancelAllProjectScans(a)
           nothing == [p \in Processes |-> None]
           b == [CancelAllProjectScans(a) EXCEPT
              !.projects = [p \in Processes |-> None], !.staleProjects = {},
              !.facts = [p \in Processes |-> None],
              !.context = context, !.generation = @ + 1]
           records == [p \in Processes |-> IF a.records[p] = None THEN None
                                           ELSE WithoutEvidence(b, a.records[p])]
           c == [b EXCEPT !.records = [p \in Processes |->
              IF @[p] = None THEN None ELSE WithoutEvidence(b, @[p])]]
           keys == Cached(a)
           feed == [p \in Processes |-> IF p \in keys /\ a.records[p] # records[p]
                                        THEN records[p] ELSE a.feed[p]]
           d == [c EXCEPT !.feed = feed]
           y == ReplaceContext(a, context)
<1>0. y = QueueProjectScans(Published(a, c, keys), keys, New)
  BY DEF ReplaceContext
<1> HIDE DEF y
<1>1. /\ x \in Actors /\ OnlyScans(a, x) /\ ScansHalt(x) /\ (ScansKept(a) => ScansKept(x))
  BY CancelAllProjectScansStep
<1>2. /\ a.records \in [Processes -> NoneOr(Records)] /\ a.feed \in [Processes -> NoneOr(Records)]
      /\ a.generation \in Nat /\ keys \in SUBSET Processes
  BY DEF Actors, Cached
<1>3. b = [x EXCEPT !.projects = nothing, !.staleProjects = {}, !.facts = nothing,
                    !.context = context, !.generation = a.generation + 1]
  BY <1>1 DEF OnlyScans, Actors, nothing
<1>4. nothing \in [Processes -> NoneOr([dir : Known, generation : Nat])]
      /\ nothing \in [Processes -> NoneOr(Evidences)] /\ \A p \in Processes : nothing[p] = None
  BY DEF NoneOr
<1> HIDE DEF x, nothing, keys
<1>5. b \in Actors
  <2> DEFINE later == a.generation + 1
             empty == {}
  <2>1. later \in Nat /\ empty \in SUBSET Processes
    BY <1>2
  <2>2. b = [x EXCEPT !.projects = nothing, !.staleProjects = empty, !.facts = nothing,
                      !.context = context, !.generation = later]
    BY <1>3
  <2> HIDE DEF b, later, empty
  <2> QED  BY <1>1, <1>4, <2>1, <2>2 DEF Actors
<1>51. /\ b.context = context /\ b.generation = a.generation + 1 /\ b.facts = nothing
      /\ b.phase = a.phase /\ b.fast = a.fast /\ b.fastPending = a.fastPending
      /\ b.records = a.records /\ b.feed = a.feed
      /\ b.enriched = a.enriched /\ b.pendingE = a.pendingE /\ b.runningE = a.runningE
      /\ b.owed = a.owed
      /\ b.pendingP = x.pendingP /\ b.runningP = x.runningP
  <2> HIDE DEF b
  <2> QED  BY <1>1, <1>2, <1>3, <1>4 DEF Actors, OnlyScans
<1> HIDE DEF b
<1>6. \A p \in Processes : a.records[p] # None =>
        records[p] = WithoutEvidence(b, a.records[p]) /\ a.records[p] \in Records
  BY <1>2 DEF NoneOr
<1>7. \A p \in Processes : records[p] \in NoneOr(Records)
      /\ (records[p] = None <=> a.records[p] = None)
  <2> TAKE p \in Processes
  <2>1. CASE a.records[p] = None
    BY <2>1 DEF NoneOr
  <2>2. CASE a.records[p] # None
    <3>1. records[p] \in Records /\ records[p] # None
      BY <1>5, <1>51, <1>6, <2>2, WithoutEvidenceRecord
    <3> QED  BY <3>1, <2>2 DEF NoneOr
  <2> QED  BY <2>1, <2>2
<1>8. records \in [Processes -> NoneOr(Records)]
  BY <1>7
<1>9. c = [b EXCEPT !.records = records]
  BY <1>5, <1>51 DEF Actors
<1> HIDE DEF records
<1>10. feed \in [Processes -> NoneOr(Records)] /\ \A p \in Processes :
         feed[p] = IF p \in keys /\ a.records[p] # records[p] THEN records[p] ELSE a.feed[p]
  BY <1>2, <1>8
<1> HIDE DEF feed
<1> HIDE DEF c
<1>11. /\ c \in Actors /\ c.records = records /\ c.feed = a.feed
  BY <1>5, <1>51, <1>8, <1>9 DEF Actors
<1>12. /\ d \in Actors /\ d.records = records /\ d.feed = feed /\ d.facts = nothing
       /\ d.context = context /\ d.generation = a.generation + 1
       /\ d.phase = a.phase /\ d.fast = a.fast /\ d.fastPending = a.fastPending
       /\ d.enriched = a.enriched /\ d.pendingE = a.pendingE /\ d.runningE = a.runningE
       /\ d.owed = a.owed
       /\ d.pendingP = x.pendingP /\ d.runningP = x.runningP
  BY <1>5, <1>51, <1>8, <1>9, <1>10 DEF Actors
<1>13. d = Published(a, c, keys)
  <2>1. Published(a, c, keys) = [c EXCEPT !.feed = [p \in Processes |->
           IF p \in keys /\ a.records[p] # c.records[p] THEN c.records[p] ELSE @[p]]]
    BY DEF Published
  <2> HIDE DEF c
  <2>2. feed = [p \in Processes |-> IF p \in keys /\ a.records[p] # c.records[p]
                                     THEN c.records[p] ELSE c.feed[p]]
    BY <1>11 DEF feed
  <2> QED  BY <1>11, <2>1, <2>2 DEF Actors
<1>14. y = QueueProjectScans(d, keys, New)
  BY <1>0, <1>13
<1> HIDE DEF d
<1>15. RecordsKept(d)
  <2> SUFFICES ASSUME NEW p \in Processes PROVE RecordIsCurrent(d, p)
    BY DEF RecordsKept
  <2>1. a.feed[p] = a.records[p]
    BY DEF RecordsKept, RecordIsCurrent
  <2>2. d.facts[p] = None
    BY <1>4, <1>12
  <2>3. CASE a.records[p] = None
    <3>1. d.records[p] = None /\ d.feed[p] = d.records[p]
      BY <1>7, <1>10, <1>12, <2>1, <2>3
    <3> QED  BY <2>2, <3>1 DEF RecordIsCurrent
  <2>4. CASE a.records[p] # None
    <3> DEFINE r == a.records[p]
    <3>1. r \in Records /\ d.records[p] = WithoutEvidence(b, r) /\ p \in keys
      BY <1>6, <1>12, <2>4 DEF keys, Cached
    <3>2. d.feed[p] = d.records[p]
      BY <1>10, <1>12, <2>1, <3>1
    <3>3. d.context.rules = b.context.rules
      BY <1>5, <1>51, <1>12
    <3> HIDE DEF r
    <3> QED  BY <1>5, <1>51, <2>2, <3>1, <3>2, <3>3, WithoutEvidenceIsCurrent
  <2> QED  BY <2>3, <2>4
<1>16. /\ EnrichmentsHalt(a) => EnrichmentsHalt(d)
       /\ EnrichmentsKept(a) => EnrichmentsKept(d)
  BY <1>7, <1>12, EnrichmentsSame
<1>17. ScansHalt(d) /\ (ScansKept(a) => ScansKept(d))
  <2>1. ScansHalt(d)
    BY <1>1, <1>12, ScansDepend
  <2>2. ASSUME ScansKept(a) PROVE ScansKept(d)
    <3>1. ScansKept(x) /\ x.generation = a.generation
      BY <1>1, <2>2 DEF OnlyScans
    <3>2. ASSUME NEW p \in Processes PROVE ScanIsPinned(d, p)
      <4>1. CASE x.runningP[p] = None
        BY <4>1, <1>12 DEF ScanIsPinned
      <4>2. CASE x.runningP[p] # None
        <5>1. x.runningP[p].generation <= a.generation /\ x.runningP[p].generation \in Nat
          BY <1>1, <3>1, <4>2 DEF Actors, NoneOr, ScansKept, ScanIsPinned, ScanTasks
        <5> QED  BY <5>1, <1>2, <1>12 DEF ScanIsPinned
      <4> QED  BY <4>1, <4>2
    <3> QED  BY <3>1, <3>2, <1>12 DEF ScansKept
  <2> QED  BY <2>1, <2>2
<1>18. /\ y \in Actors /\ OnlyScans(d, y) /\ (ScansHalt(d) => ScansHalt(y))
       /\ (ScansKept(d) => ScansKept(y))
  BY <1>2, <1>12, <1>14, QueueProjectScansStep DEF New, Selected
<1>19. RecordsKept(y)
  BY <1>15, <1>18, RecordsDepend DEF OnlyScans
<1>20. (EnrichmentsHalt(d) => EnrichmentsHalt(y)) /\ (EnrichmentsKept(d) => EnrichmentsKept(y))
  BY <1>18, EnrichmentsSame DEF OnlyScans
<1> QED  BY <1>12, <1>16, <1>17, <1>18, <1>19, <1>20 DEF OnlyScans, y

(* sweep_expired *)
LEMMA SweepExpiredStep ==
  ASSUME NEW a \in Actors, RecordsKept(a)
  PROVE  LET b == SweepExpired(a) IN
         /\ b \in Actors /\ SameMode(a, b) /\ RecordsKept(b)
         /\ EnrichmentsHalt(a) => EnrichmentsHalt(b)
         /\ EnrichmentsKept(a) => EnrichmentsKept(b)
         /\ ScansHalt(a) => ScansHalt(b)
         /\ ScansKept(a) => ScansKept(b)
<1> DEFINE b == Forget(a, a.staleRecords)
           enriched == Cleared(b.enriched, b.staleEnriched)
           c == [b EXCEPT !.enriched = Cleared(@, b.staleEnriched), !.staleEnriched = {}]
           expired == c.staleProjects
           projects == Cleared(c.projects, expired)
           d == [c EXCEPT !.projects = Cleared(@, expired), !.staleProjects = {}]
           e == CancelProjectScans(d, expired)
           f == ClearProjectEvidence(e, expired)
           y == SweepExpired(a)
<1>1. y = QueueProjectScans(f, expired, Candidate)
  BY DEF SweepExpired
<1> HIDE DEF y
<1>2. /\ b \in Actors /\ SameMode(a, b)
      /\ b.records = Cleared(a.records, a.staleRecords)
      /\ b.facts = Cleared(a.facts, a.staleRecords)
      /\ b.feed = Cleared(a.feed, a.staleRecords)
      /\ EnrichmentsHalt(a) => EnrichmentsHalt(b)
      /\ EnrichmentsKept(a) => EnrichmentsKept(b)
      /\ ScansHalt(a) => ScansHalt(b)
      /\ ScansKept(a) => ScansKept(b)
  <2>1. a.staleRecords \in SUBSET Processes
    BY DEF Actors
  <2> QED  BY <2>1, ForgetStep
<1> HIDE DEF b
<1>3. RecordsKept(b)
  <2> SUFFICES ASSUME NEW p \in Processes PROVE RecordIsCurrent(b, p)
    BY DEF RecordsKept
  <2>1. RecordIsCurrent(a, p) /\ b.context = a.context
    BY <1>2 DEF RecordsKept, SameMode
  <2>2. CASE p \in a.staleRecords
    BY <1>2, <2>2 DEF Cleared, RecordIsCurrent
  <2>3. CASE p \notin a.staleRecords
    BY <1>2, <2>1, <2>3 DEF Cleared, RecordIsCurrent
  <2> QED  BY <2>2, <2>3
<1>4. c = [b EXCEPT !.enriched = enriched, !.staleEnriched = {}]
  BY <1>2 DEF Actors
<1>5. /\ enriched \in [Processes -> NoneOr(Demands)]
      /\ \A p \in Processes : enriched[p] = None \/ enriched[p] = b.enriched[p]
  BY <1>2 DEF Actors, Cleared, NoneOr
<1> DEFINE empty == {}
<1>6. empty \in SUBSET Processes
  OBVIOUS
<1> HIDE DEF enriched, c
<1>7. /\ c \in Actors /\ SameMode(b, c) /\ c.records = b.records /\ c.facts = b.facts
      /\ c.feed = b.feed
      /\ c.enriched = enriched /\ c.pendingE = b.pendingE /\ c.runningE = b.runningE
      /\ c.owed = b.owed
      /\ c.pendingP = b.pendingP /\ c.runningP = b.runningP
  BY <1>2, <1>4, <1>5, <1>6 DEF Actors, SameMode
<1>8. /\ EnrichmentsHalt(b) => EnrichmentsHalt(c)
      /\ EnrichmentsKept(b) => EnrichmentsKept(c)
      /\ ScansHalt(b) => ScansHalt(c)
      /\ ScansKept(b) => ScansKept(c)
  <2>1. EnrichmentsHalt(b) => EnrichmentsHalt(c)
    BY <1>7, EnrichmentsDepend
  <2>2. ASSUME EnrichmentsKept(b) PROVE EnrichmentsKept(c)
    BY <1>5, <1>7, <2>2, EnrichmentsDepend DEF EnrichmentsKept, EnrichmentOf
  <2>3. (ScansHalt(b) => ScansHalt(c)) /\ (ScansKept(b) => ScansKept(c))
    BY <1>7, ScansDepend DEF SameMode
  <2> QED  BY <2>1, <2>2, <2>3
<1>9. expired \in SUBSET Processes
      /\ projects \in [Processes -> NoneOr([dir : Known, generation : Nat])]
  BY <1>7 DEF Actors, Cleared, NoneOr
<1>10. d = [c EXCEPT !.projects = projects, !.staleProjects = {}]
  BY <1>7 DEF Actors
<1> HIDE DEF projects, expired, d
<1>11. /\ d \in Actors /\ SameMode(c, d) /\ d.records = c.records /\ d.facts = c.facts
       /\ d.feed = c.feed
       /\ d.enriched = c.enriched /\ d.pendingE = c.pendingE /\ d.runningE = c.runningE
       /\ d.owed = c.owed
       /\ d.pendingP = c.pendingP /\ d.runningP = c.runningP
  BY <1>6, <1>7, <1>9, <1>10 DEF Actors, SameMode
<1>12. (ScansHalt(c) => ScansHalt(d)) /\ (ScansKept(c) => ScansKept(d))
  BY <1>11, ScansDepend DEF SameMode
<1>13. /\ e \in Actors /\ OnlyScans(d, e) /\ (ScansHalt(d) => ScansHalt(e))
          /\ (ScansKept(d) => ScansKept(e))
  BY <1>9, <1>11, CancelProjectScansStep
<1> HIDE DEF e
<1>14. RecordsKept(e)
  <2>1. /\ e.records = b.records /\ e.facts = b.facts /\ e.feed = b.feed /\ e.context = b.context
    BY <1>7, <1>11, <1>13 DEF OnlyScans, SameMode
  <2> QED  BY <1>3, <2>1, RecordsDepend
<1>15. /\ f \in Actors /\ OnlyRecords(e, f) /\ RecordsKept(f)
  BY <1>9, <1>13, <1>14, ClearProjectEvidenceStep
<1> HIDE DEF f
<1>16. (ScansHalt(e) => ScansHalt(f)) /\ (ScansKept(e) => ScansKept(f))
  BY <1>15, ScansDepend DEF OnlyRecords
<1>17. /\ y \in Actors /\ OnlyScans(f, y) /\ (ScansHalt(f) => ScansHalt(y))
          /\ (ScansKept(f) => ScansKept(y))
  BY <1>1, <1>9, <1>15, QueueProjectScansStep DEF New, Candidate, Selected
<1>18. RecordsKept(y)
  BY <1>15, <1>17, RecordsDepend DEF OnlyScans
<1>19. (EnrichmentsHalt(c) => EnrichmentsHalt(y)) /\ (EnrichmentsKept(c) => EnrichmentsKept(y))
  <2>1. /\ y.pendingE = c.pendingE /\ y.runningE = c.runningE /\ y.owed = c.owed
        /\ y.enriched = c.enriched
        /\ \A p \in Processes : y.records[p] = None <=> c.records[p] = None
    BY <1>11, <1>13, <1>15, <1>17 DEF OnlyScans, OnlyRecords
  <2> QED  BY <2>1, EnrichmentsSame
<1>20. SameMode(a, y)
  BY <1>2, <1>7, <1>11, <1>13, <1>15, <1>17 DEF OnlyScans, OnlyRecords, SameMode
<1> QED  BY <1>2, <1>8, <1>12, <1>13, <1>16, <1>17, <1>18, <1>19, <1>20 DEF y

(* What holds of the caches and the queues of the actor between its turns *)
Sound(a) ==
  /\ a \in Actors /\ RecordsKept(a)
  /\ EnrichmentsKept(a) /\ EnrichmentsHalt(a)
  /\ ScansKept(a) /\ ScansHalt(a)

(* An actor that shuts down starts nothing any more. *)
Ending(a) ==
  /\ a.pendingE = <<>> /\ a.pendingP = <<>> /\ ~a.fastPending /\ a.fast # "Running"
  /\ \A p \in Processes : a.runningE[p] # None => a.runningE[p].cancelled

Fit(a) ==
  /\ Sound(a)
  /\ a.fastPending => a.fast # "Idle"
  /\ a.phase # "Running" => Ending(a)

(* A turn leaves the actor fit, and does not touch the context. *)
Follows(a, b) ==
  /\ Fit(b) /\ b.context = a.context
  /\ b.phase = "Running" => a.phase = "Running"

(* What does not touch the caches and queues leaves them sound. *)
LEMMA SoundDepends ==
  ASSUME NEW a, Sound(a), NEW b \in Actors,
         b.records = a.records, b.feed = a.feed, b.facts = a.facts, b.context = a.context,
         b.generation = a.generation, b.enriched = a.enriched, b.owed = a.owed,
         b.pendingE = a.pendingE, b.runningE = a.runningE,
         b.pendingP = a.pendingP, b.runningP = a.runningP
  PROVE  Sound(b)
<1>1. RecordsKept(b)
  BY RecordsDepend DEF Sound
<1>2. EnrichmentsKept(b) /\ EnrichmentsHalt(b)
  BY EnrichmentsSame DEF Sound
<1>3. ScansKept(b) /\ ScansHalt(b)
  BY ScansDepend DEF Sound
<1> QED  BY <1>1, <1>2, <1>3 DEF Sound

(* A turn of an actor that is not shutting down *)
LEMMA SameModeFollows ==
  ASSUME NEW a, Fit(a), NEW b, Sound(b), SameMode(a, b), a.phase = "Running"
  PROVE  Follows(a, b)
BY DEF Fit, SameMode, Follows

(* A turn that touches nothing but the enrichments, or but the scans *)
LEMMA OnlyEnrichmentsIsSound ==
  ASSUME NEW a, Sound(a), NEW b \in Actors, OnlyEnrichments(a, b), EnrichmentsKept(b),
         EnrichmentsHalt(b)
  PROVE  Sound(b) /\ SameMode(a, b)
BY RecordsDepend, ScansDepend DEF Sound, OnlyEnrichments, SameMode

LEMMA OnlyScansIsSound ==
  ASSUME NEW a, Sound(a), NEW b \in Actors, OnlyScans(a, b), ScansKept(b), ScansHalt(b)
  PROVE  Sound(b) /\ SameMode(a, b)
BY RecordsDepend, EnrichmentsSame DEF Sound, OnlyScans, SameMode

(* Actor::run, Command::Refresh *)
LEMMA RequestFastScanFollows ==
  ASSUME NEW restart \in BOOLEAN, Fit(actor), RequestFastScan(restart)
  PROVE  Follows(actor, actor')
<1> DEFINE a == actor
           fast == IF a.fast = "Idle" THEN "Running" ELSE IF restart THEN "Cancelled" ELSE a.fast
           again == IF a.fast = "Idle" THEN a.fastPending ELSE TRUE
           b == [a EXCEPT !.fast = fast, !.fastPending = again]
<1>1. a \in Actors /\ a.phase = "Running" /\ Sound(a)
  BY DEF Fit, Sound, RequestFastScan, Serving
<1>2. actor' = b
  BY <1>1 DEF RequestFastScan, Takes, Actors
<1>3. fast \in {"Running", "Cancelled"} /\ again \in BOOLEAN
  BY <1>1 DEF Actors
<1> HIDE DEF fast, again
<1>4. /\ b \in Actors /\ b.fast = fast /\ b.phase = a.phase
      /\ b.records = a.records /\ b.feed = a.feed /\ b.facts = a.facts /\ b.context = a.context
      /\ b.generation = a.generation /\ b.enriched = a.enriched /\ b.owed = a.owed
      /\ b.pendingE = a.pendingE /\ b.runningE = a.runningE
      /\ b.pendingP = a.pendingP /\ b.runningP = a.runningP
  BY <1>1, <1>3 DEF Actors
<1> HIDE DEF a, b
<1>5. Sound(b)
  BY <1>1, <1>4, SoundDepends
<1> QED  BY <1>1, <1>2, <1>3, <1>4, <1>5 DEF Follows, Fit, a

(* restart_after_task *)
LEMMA RestartFastScanStep ==
  ASSUME NEW a, Sound(a), a.phase # "Running" => Ending(a)
  PROVE  Follows(a, RestartFastScan(a))
<1> DEFINE b == RestartFastScan(a)
           fast == IF a.fastPending THEN "Running" ELSE "Idle"
<1>1. a \in Actors
  BY DEF Sound
<1>2. b = [a EXCEPT !.fast = fast, !.fastPending = FALSE]
  BY <1>1 DEF RestartFastScan, Actors
<1>3. fast \in {"Running", "Idle"} /\ (~a.fastPending => fast = "Idle")
  OBVIOUS
<1> HIDE DEF fast, b
<1>4. /\ b \in Actors /\ b.fast = fast /\ b.fastPending = FALSE /\ b.phase = a.phase
      /\ b.records = a.records /\ b.feed = a.feed /\ b.facts = a.facts /\ b.context = a.context
      /\ b.generation = a.generation /\ b.enriched = a.enriched /\ b.owed = a.owed
      /\ b.pendingE = a.pendingE /\ b.runningE = a.runningE
      /\ b.pendingP = a.pendingP /\ b.runningP = a.runningP
  BY <1>1, <1>2, <1>3 DEF Actors
<1>5. Sound(b)
  BY <1>4, SoundDepends
<1>6. a.phase # "Running" => Ending(b)
  BY <1>3, <1>4 DEF Ending
<1> QED  BY <1>4, <1>5, <1>6 DEF Follows, Fit, b

Inputs ==
  [processes : SUBSET Processes, directories : SUBSET Directories,
   fields : SUBSET {"Unknown", "Limited"}, requests : SUBSET {"Enrich", "Withdraw", "Project"},
   expiries : SUBSET {"Records", "Enrichments", "Projects"},
   projectCapacity : Nat \ {0}, changes : Nat, restarts : Nat]

(* The end of a fast scan *)
LEMMA FastScanEndsFollows ==
  ASSUME scenario \in Inputs, Fit(actor), FastScanEnds
  PROVE  Follows(actor, actor')
<1> DEFINE a == actor
<1>1. a \in Actors /\ Sound(a) /\ (a.phase # "Running" => Ending(a))
  BY DEF Fit, Sound
<1>2. CASE actor' = RestartFastScan(actor)
  BY <1>1, <1>2, RestartFastScanStep
<1>3. ASSUME a.fast = "Running", NEW scan \in Scans,
             actor' = RestartFastScan(ApplyFastScan(actor, scan))
      PROVE  Follows(actor, actor')
  <2> DEFINE b == ApplyFastScan(actor, scan)
  <2>1. DOMAIN scan \in SUBSET Processes /\ \A p \in DOMAIN scan : scan[p] \in Known
    BY <1>3 DEF Inputs, Scans, Known
  <2>2. a.phase = "Running"
    BY <1>1, <1>3 DEF Ending
  <2>3. /\ b \in Actors /\ SameMode(a, b) /\ RecordsKept(b)
        /\ EnrichmentsHalt(a) => EnrichmentsHalt(b)
        /\ EnrichmentsKept(a) => EnrichmentsKept(b)
        /\ ScansHalt(a) => ScansHalt(b)
        /\ ScansKept(a) => ScansKept(b)
    BY <1>1, <2>1, ApplyFastScanStep DEF Sound
  <2> HIDE DEF b
  <2>4. Sound(b) /\ b.phase = "Running" /\ b.context = a.context
    BY <1>1, <2>2, <2>3 DEF Sound, SameMode
  <2>5. Follows(b, RestartFastScan(b))
    BY <2>4, RestartFastScanStep
  <2> QED  BY <1>3, <2>2, <2>4, <2>5 DEF Follows, b
<1> QED  BY <1>2, <1>3 DEF FastScanEnds, Takes

(* One request of Command::RequestEnrichmentBatch *)
LEMMA RequestEnrichmentFollows ==
  ASSUME NEW p \in Processes, NEW priority \in New..Selected, NEW demand \in Demands,
         Fit(actor), RequestEnrichment(p, priority, demand)
  PROVE  Follows(actor, actor')
<1> DEFINE a == actor
           b == QueueEnrichment(actor, p, priority, demand)
           c == QueueProjectScan(b, p, priority)
<1>1. a \in Actors /\ Sound(a) /\ a.phase = "Running"
  BY DEF Fit, Sound, RequestEnrichment, Serving
<1>2. actor' = b \/ actor' = c
  BY DEF RequestEnrichment, Takes
<1>3. NearlyKept(a, p, demand)
  BY <1>1, KeptIsNearlyKept DEF Sound
<1>4. /\ b \in Actors /\ OnlyEnrichments(a, b) /\ EnrichmentsHalt(b) /\ EnrichmentsKept(b)
  BY <1>1, <1>3, QueueEnrichmentStep DEF Sound
<1> HIDE DEF b
<1>5. Sound(b) /\ SameMode(a, b)
  BY <1>1, <1>4, OnlyEnrichmentsIsSound
<1>6. /\ c \in Actors /\ OnlyScans(b, c) /\ ScansHalt(c) /\ ScansKept(c)
  BY <1>4, <1>5, QueueProjectScanStep DEF Sound
<1> HIDE DEF c
<1>7. Sound(c) /\ SameMode(b, c)
  BY <1>5, <1>6, OnlyScansIsSound
<1>8. SameMode(a, c)
  BY <1>5, <1>7 DEF SameMode
<1> QED  BY <1>1, <1>2, <1>5, <1>7, <1>8, SameModeFollows

(* Command::CancelEnrichment *)
LEMMA WithdrawEnrichmentFollows ==
  ASSUME NEW p \in Processes, Fit(actor), WithdrawEnrichment(p)
  PROVE  Follows(actor, actor')
<1> DEFINE keys == {p}
           b == CancelEnrichments(actor, keys)
<1>1. actor \in Actors /\ Sound(actor) /\ actor.phase = "Running" /\ actor' = b
  BY DEF Fit, Sound, WithdrawEnrichment, Serving, Takes
<1>2. keys \in SUBSET Processes
  OBVIOUS
<1> HIDE DEF keys
<1>3. /\ b \in Actors /\ OnlyEnrichments(actor, b) /\ EnrichmentsHalt(b) /\ EnrichmentsKept(b)
  BY <1>1, <1>2, CancelEnrichmentsStep DEF Sound
<1> HIDE DEF b
<1>4. Sound(b) /\ SameMode(actor, b)
  BY <1>1, <1>3, OnlyEnrichmentsIsSound
<1> QED  BY <1>1, <1>4, SameModeFollows

(* A request for the project of a process, and its withdrawal *)
LEMMA RequestProjectFollows ==
  ASSUME NEW p \in Processes, Fit(actor), RequestProject(p)
  PROVE  Follows(actor, actor')
<1> DEFINE b == QueueProjectScan(actor, p, Selected)
<1>1. actor \in Actors /\ Sound(actor) /\ actor.phase = "Running" /\ actor' = b
  BY DEF Fit, Sound, RequestProject, Serving, Takes
<1>2. Selected \in New..Selected
  BY DEF New, Selected
<1>3. /\ b \in Actors /\ OnlyScans(actor, b) /\ ScansHalt(b) /\ ScansKept(b)
  BY <1>1, <1>2, QueueProjectScanStep DEF Sound
<1> HIDE DEF b
<1>4. Sound(b) /\ SameMode(actor, b)
  BY <1>1, <1>3, OnlyScansIsSound
<1> QED  BY <1>1, <1>4, SameModeFollows

(* Command::CancelProjectEvidence *)
LEMMA WithdrawProjectFollows ==
  ASSUME NEW p \in Processes, Fit(actor), WithdrawProject(p)
  PROVE  Follows(actor, actor')
<1> DEFINE keys == {p}
           b == CancelProjectScans(actor, keys)
<1>1. actor \in Actors /\ Sound(actor) /\ actor.phase = "Running" /\ actor' = b
  BY DEF Fit, Sound, WithdrawProject, Serving, Takes
<1>2. keys \in SUBSET Processes
  OBVIOUS
<1> HIDE DEF keys
<1>3. /\ b \in Actors /\ OnlyScans(actor, b) /\ ScansHalt(b) /\ ScansKept(b)
  BY <1>1, <1>2, CancelProjectScansStep DEF Sound
<1> HIDE DEF b
<1>4. Sound(b) /\ SameMode(actor, b)
  BY <1>1, <1>3, OnlyScansIsSound
<1> QED  BY <1>1, <1>4, SameModeFollows

(* Entries get old. *)
LEMMA ExpiryFollows ==
  ASSUME NEW p \in Processes, Fit(actor),
         RecordExpires(p) \/ EnrichmentExpires(p) \/ ProjectExpires(p)
  PROVE  Follows(actor, actor')
<1> DEFINE a == actor
           records == a.staleRecords \cup {p}
           enriched == a.staleEnriched \cup {p}
           projects == a.staleProjects \cup {p}
<1>1. a \in Actors /\ Sound(a) /\ a.phase = "Running"
  BY DEF Fit, Sound, RecordExpires, EnrichmentExpires, ProjectExpires, Serving
<1>2. \/ actor' = [a EXCEPT !.staleRecords = records]
      \/ actor' = [a EXCEPT !.staleEnriched = enriched]
      \/ actor' = [a EXCEPT !.staleProjects = projects]
  BY DEF RecordExpires, EnrichmentExpires, ProjectExpires, Takes
<1>3. {records, enriched, projects} \subseteq SUBSET Processes
  BY <1>1 DEF Actors
<1> HIDE DEF records, enriched, projects
<1>4. /\ actor' \in Actors /\ SameMode(a, actor')
      /\ actor'.records = a.records /\ actor'.feed = a.feed /\ actor'.facts = a.facts
      /\ actor'.enriched = a.enriched /\ actor'.owed = a.owed
      /\ actor'.pendingE = a.pendingE /\ actor'.runningE = a.runningE
      /\ actor'.pendingP = a.pendingP /\ actor'.runningP = a.runningP
  <2>1. CASE actor' = [a EXCEPT !.staleRecords = records]
    BY <1>1, <1>3, <2>1 DEF Actors, SameMode
  <2>2. CASE actor' = [a EXCEPT !.staleEnriched = enriched]
    BY <1>1, <1>3, <2>2 DEF Actors, SameMode
  <2>3. CASE actor' = [a EXCEPT !.staleProjects = projects]
    BY <1>1, <1>3, <2>3 DEF Actors, SameMode
  <2> QED  BY <1>2, <2>1, <2>2, <2>3
<1>5. Sound(actor')
  <2> DEFINE b == actor'
  <2>1. b.context = a.context /\ b.generation = a.generation
    BY <1>4 DEF SameMode
  <2> HIDE DEF a, b
  <2>2. Sound(b)
    BY <1>1, <1>4, <2>1, SoundDepends DEF b
  <2> QED  BY <2>2 DEF b
<1> QED  BY <1>1, <1>4, <1>5, SameModeFollows

(* The timer of sweeps *)
LEMMA SweepFollows ==
  ASSUME Fit(actor), Sweep
  PROVE  Follows(actor, actor')
<1> DEFINE b == SweepExpired(actor)
<1>1. actor \in Actors /\ Sound(actor) /\ actor.phase = "Running" /\ actor' = b
  BY DEF Fit, Sound, Sweep, Serving, Takes
<1>2. Sound(b) /\ SameMode(actor, b)
  BY <1>1, SweepExpiredStep DEF Sound
<1> HIDE DEF b
<1> QED  BY <1>1, <1>2, SameModeFollows

(* What follows the end of a task, whatever it delivered *)
LEMMA AfterTask ==
  ASSUME NEW b \in Actors, NEW p \in Processes, NEW task \in EnrichmentTasks,
         TaskEnded(b, p, task), DemandMet(b, p, task),
         RecordsKept(b), ScansKept(b), ScansHalt(b)
  PROVE  LET y == PumpEnrichments(FollowUp(b, p, task)) IN
         Sound(y) /\ SameMode(b, y)
<1> DEFINE c == FollowUp(b, p, task)
           y == PumpEnrichments(c)
<1>1. c \in Actors /\ OnlyEnrichments(b, c) /\ EnrichmentsKept(c)
  BY FollowUpStep
<1> HIDE DEF c
<1>2. y \in Actors /\ OnlyEnrichments(c, y) /\ EnrichmentsHalt(y) /\ EnrichmentsKept(y)
  BY <1>1, PumpEnrichmentsStep
<1> HIDE DEF y
<1>3. OnlyEnrichments(b, y)
  BY <1>1, <1>2, OnlyEnrichmentsCompose
<1>4. RecordsKept(y)
  BY <1>3, RecordsDepend DEF OnlyEnrichments
<1>5. ScansKept(y) /\ ScansHalt(y)
  BY <1>3, ScansDepend DEF OnlyEnrichments
<1> QED  BY <1>2, <1>3, <1>4, <1>5 DEF Sound, SameMode, OnlyEnrichments, y, c

(* The demand that a task settled is no more than it was. *)
LEMMA SettledDemand ==
  ASSUME NEW owed \in [Processes -> 0..2], NEW p \in Processes, NEW demand \in Demands
  PROVE  LET after == Settled(owed, p, demand) IN
         /\ after \in [Processes -> 0..2]
         /\ \A q \in Processes : q # p => after[q] = owed[q]
         /\ after[p] \in {0, owed[p]}
         /\ owed[p] <= demand => after[p] = 0
BY DEF Settled, Demands, Metadata, MetadataAndPorts

(* The result of a task meets what it was started for. *)
LEMMA DemandIsMet ==
  ASSUME NEW a \in Actors, NEW b \in Actors, NEW p \in Processes, NEW task \in EnrichmentTasks,
         TaskEnded(a, p, task), ~task.cancelled,
         b.pendingE = a.pendingE, b.runningE = a.runningE,
         \A q \in Processes : b.records[q] = None <=> a.records[q] = None,
         \A q \in Processes : q # p =>
           b.owed[q] = a.owed[q] /\ (b.enriched[q] = None \/ b.enriched[q] = a.enriched[q]),
         b.enriched[p] = None \/ b.enriched[p] <= task.started,
         b.owed[p] = Settled(a.owed, p, task.started)[p]
  PROVE  TaskEnded(b, p, task) /\ DemandMet(b, p, task)
<1>1. /\ a.owed[p] \in 0..2 /\ b.owed[p] \in {0, a.owed[p]}
      /\ task.started \in Demands /\ task.desired \in Demands
      /\ a.owed[p] <= task.started => b.owed[p] = 0
  <2>1. a.owed \in [Processes -> 0..2] /\ task.started \in Demands /\ task.desired \in Demands
    BY DEF Actors, EnrichmentTasks
  <2> QED  BY <2>1, SettledDemand
<1>2. ASSUME NEW q \in Processes, q # p PROVE EnrichmentOf(b, q)
  BY <1>2 DEF TaskEnded, EnrichmentOf, Covered
<1>3. Covered(a, p) => Covered(b, p)
  BY <1>1 DEF Covered
<1>4. b.records[p] = None => b.owed[p] = 0
  BY <1>1 DEF TaskEnded
<1>5. Covered(b, p) \/ b.owed[p] <= task.desired
  BY <1>1, <1>3 DEF TaskEnded, Demands, Metadata, MetadataAndPorts
<1>6. TaskEnded(b, p, task)
  BY <1>2, <1>4, <1>5 DEF TaskEnded
<1>7. Covered(b, p) \/ (task.started >= task.desired => b.owed[p] = 0)
  BY <1>1, <1>3 DEF Demands, Metadata, MetadataAndPorts, TaskEnded
<1> QED  BY <1>6, <1>7 DEF DemandMet

(* The end of an enrichment *)
LEMMA EnrichmentEndsFollows ==
  ASSUME scenario \in Inputs, NEW p \in Processes, Fit(actor), EnrichmentEnds(p)
  PROVE  Follows(actor, actor')
<1> DEFINE task == actor.runningE[p]
           a == [actor EXCEPT !.runningE[p] = None]
           Ends(b) == actor' = PumpEnrichments(FollowUp(b, p, task))
<1>1. /\ actor \in Actors /\ Sound(actor) /\ actor.runningE[p] # None
      /\ actor.phase # "Running" => Ending(actor)
  BY DEF Fit, Sound, EnrichmentEnds
<1>2. /\ task \in EnrichmentTasks
      /\ a \in Actors /\ OnlyEnrichments(actor, a) /\ a.pendingE = actor.pendingE
      /\ a.owed = actor.owed /\ a.enriched = actor.enriched /\ a.runningE[p] = None
      /\ \A q \in Processes : q # p => a.runningE[q] = actor.runningE[q]
      /\ TaskEnded(a, p, task) /\ (a.enriched[p] = None \/ a.enriched[p] < task.started)
  BY <1>1, TaskIsTakenAway DEF Sound
<1>3. \/ /\ ~task.cancelled
         /\ \E dir \in scenario.directories \cup scenario.fields, v \in Processes :
              Ends(ApplyEnrichment(a, p, task, dir, v))
      \/ ~task.cancelled /\ Ends([a EXCEPT !.owed = Settled(@, p, task.started)])
      \/ task.cancelled /\ Ends(a)
  BY DEF EnrichmentEnds, Takes
<1> HIDE DEF a, task
<1>4. /\ SameMode(actor, a) /\ RecordsKept(a) /\ ScansKept(a) /\ ScansHalt(a)
      /\ task.started \in Demands /\ a.owed \in [Processes -> 0..2]
  BY <1>1, <1>2, RecordsDepend, ScansDepend DEF Sound, OnlyEnrichments, SameMode,
     EnrichmentTasks, Actors
<1>5. ~task.cancelled => actor.phase = "Running"
  BY <1>1 DEF Ending, task
<1>6. ASSUME NEW b \in Actors, SameMode(a, b), TaskEnded(b, p, task), DemandMet(b, p, task),
             RecordsKept(b), ScansKept(b), ScansHalt(b), Ends(b), actor.phase = "Running"
      PROVE  Follows(actor, actor')
  <2>1. Sound(actor') /\ SameMode(b, actor')
    <3> DEFINE y == PumpEnrichments(FollowUp(b, p, task))
    <3>1. Sound(y) /\ SameMode(b, y)
      BY <1>2, <1>6, AfterTask
    <3>2. actor' = y
      BY <1>6
    <3> HIDE DEF y
    <3> QED  BY <3>1, <3>2
  <2>2. SameMode(actor, actor')
    BY <1>4, <1>6, <2>1 DEF SameMode
  <2> QED  BY <1>6, <2>1, <2>2, SameModeFollows
<1>7. ASSUME ~task.cancelled, NEW dir \in scenario.directories \cup scenario.fields,
             NEW v \in Processes,
             Ends(ApplyEnrichment(a, p, task, dir, v))
      PROVE  Follows(actor, actor')
  <2> DEFINE b == ApplyEnrichment(a, p, task, dir, v)
  <2>1. dir \in Known
    BY DEF Inputs, Known
  <2>2. /\ b \in Actors /\ SameMode(a, b) /\ RecordsKept(b)
        /\ b.pendingE = a.pendingE /\ b.runningE = a.runningE
        /\ \A q \in Processes : b.records[q] = None <=> a.records[q] = None
        /\ \A q \in Processes : q # p =>
             b.owed[q] = a.owed[q] /\ (b.enriched[q] = None \/ b.enriched[q] = a.enriched[q])
        /\ a.records[p] = None => b = a
        /\ a.records[p] # None =>
             b.enriched[p] = task.started /\ b.owed[p] = Settled(a.owed, p, task.started)[p]
        /\ ScansHalt(b) /\ ScansKept(b)
    BY <1>2, <1>4, <2>1, ApplyEnrichmentStep
  <2>3. Ends(b)
    BY <1>7
  <2> HIDE DEF b, Ends
  <2>4. TaskEnded(b, p, task) /\ DemandMet(b, p, task)
    <3>1. CASE a.records[p] = None
      BY <1>2, <2>2, <3>1 DEF TaskEnded, Covered, DemandMet
    <3>2. CASE a.records[p] # None
      <4>1. b.enriched[p] <= task.started
        BY <1>4, <2>2, <3>2 DEF Demands, Metadata, MetadataAndPorts
      <4> QED  BY <1>2, <1>7, <2>2, <3>2, <4>1, DemandIsMet
    <3> QED  BY <3>1, <3>2
  <2> QED  BY <1>5, <1>6, <1>7, <2>2, <2>3, <2>4
<1>8. ASSUME ~task.cancelled, Ends([a EXCEPT !.owed = Settled(@, p, task.started)])
      PROVE  Follows(actor, actor')
  <2> DEFINE owed == Settled(a.owed, p, task.started)
             b == [a EXCEPT !.owed = owed]
  <2>1. owed \in [Processes -> 0..2] /\ \A q \in Processes : q # p => owed[q] = a.owed[q]
    BY <1>4, SettledDemand
  <2>2. b = [a EXCEPT !.owed = Settled(@, p, task.started)]
    BY <1>2 DEF Actors
  <2>3. Ends(b)
    <3> HIDE DEF b
    <3> QED  BY <1>8, <2>2
  <2> HIDE DEF Ends
  <2>4. owed[p] = Settled(a.owed, p, task.started)[p]
    OBVIOUS
  <2> HIDE DEF owed
  <2>5. /\ b \in Actors /\ SameMode(a, b) /\ b.records = a.records /\ b.feed = a.feed
        /\ b.facts = a.facts
        /\ b.enriched = a.enriched /\ b.owed = owed
        /\ b.pendingE = a.pendingE /\ b.runningE = a.runningE
        /\ b.pendingP = a.pendingP /\ b.runningP = a.runningP
    BY <1>2, <2>1 DEF Actors, SameMode
  <2> HIDE DEF b
  <2>6. RecordsKept(b)
    BY <1>4, <2>5, RecordsDepend DEF SameMode
  <2>7. ScansKept(b) /\ ScansHalt(b)
    BY <1>4, <2>5, ScansDepend DEF SameMode
  <2>8. b.enriched[p] = None \/ b.enriched[p] <= task.started
    <3>1. a.enriched[p] \in NoneOr(Demands)
      BY <1>2 DEF Actors
    <3>2. CASE a.enriched[p] = None
      BY <3>2, <2>5
    <3>3. CASE a.enriched[p] # None
      BY <1>2, <1>4, <2>5, <3>1, <3>3 DEF NoneOr, Demands, Metadata, MetadataAndPorts
    <3> QED  BY <3>2, <3>3
  <2>9. TaskEnded(b, p, task) /\ DemandMet(b, p, task)
    BY <1>2, <1>8, <2>1, <2>4, <2>5, <2>8, DemandIsMet
  <2> QED  BY <1>5, <1>6, <1>8, <2>3, <2>5, <2>6, <2>7, <2>9
<1>9. ASSUME task.cancelled, Ends(a)
      PROVE  Follows(actor, actor')
  <2>1. DemandMet(a, p, task)
    BY <1>2, <1>9 DEF TaskEnded, DemandMet
  <2>2. CASE actor.phase = "Running"
    <3> HIDE DEF Ends
    <3> QED  BY <1>2, <1>4, <1>6, <1>9, <2>1, <2>2 DEF SameMode
  <2>3. CASE actor.phase # "Running"
    <3>1. FollowUp(a, p, task) = a
      BY <1>2, <1>9, FollowUpStep
    <3>2. EnrichmentsHalt(a)
      BY <1>1, <1>2, <2>3 DEF Ending, EnrichmentsHalt, Free
    <3>3. actor' = a
      BY <1>2, <1>9, <3>1, <3>2, PumpEnrichmentsStep
    <3>4. Sound(actor') /\ SameMode(a, actor')
      <4> DEFINE y == PumpEnrichments(FollowUp(a, p, task))
      <4>1. Sound(y) /\ SameMode(a, y)
        BY <1>2, <1>4, <2>1, AfterTask
      <4>2. actor' = y
        BY <1>9
      <4> HIDE DEF y
      <4> QED  BY <4>1, <4>2
    <3>5. Ending(actor')
      BY <1>1, <1>2, <2>3, <3>3 DEF Ending, OnlyEnrichments
    <3> QED  BY <1>4, <2>3, <3>3, <3>4, <3>5 DEF Follows, Fit, SameMode, Ending
  <2> QED  BY <2>2, <2>3
<1> QED  BY <1>3, <1>7, <1>8, <1>9

(* The end of a project scan *)
LEMMA ProjectScanEndsFollows ==
  ASSUME NEW p \in Processes, Fit(actor), ProjectScanEnds(p)
  PROVE  Follows(actor, actor')
<1> DEFINE task == actor.runningP[p]
           scans == [actor.runningP EXCEPT ![p] = None]
           a == [actor EXCEPT !.runningP[p] = None]
<1>1. /\ actor \in Actors /\ Sound(actor) /\ task # None
      /\ actor.phase # "Running" => Ending(actor)
  BY DEF Fit, Sound, ProjectScanEnds
<1>2. /\ task \in ScanTasks
      /\ scans \in [Processes -> NoneOr(ScanTasks)] /\ scans[p] = None
      /\ \A q \in Processes : q # p => scans[q] = actor.runningP[q]
  BY <1>1 DEF Actors, NoneOr
<1>3. a = [actor EXCEPT !.runningP = scans]
  BY <1>1 DEF Actors
<1>4. \/ \E found \in BOOLEAN, v \in Processes :
           actor' = PumpProjectScans(ApplyProjectScan(a, p, task, found, v))
      \/ actor' = PumpProjectScans(a)
  BY DEF ProjectScanEnds, Takes
<1> HIDE DEF scans, a
<1>5. a \in Actors /\ OnlyScans(actor, a) /\ a.pendingP = actor.pendingP /\ a.runningP = scans
  BY <1>1, <1>2, <1>3 DEF Actors, OnlyScans
<1>6. RecordsKept(a)
  BY <1>1, <1>5, RecordsDepend DEF Sound, OnlyScans
<1>7. EnrichmentsKept(a) /\ EnrichmentsHalt(a)
  BY <1>1, <1>5, EnrichmentsSame DEF Sound, OnlyScans
<1>8. ScansKept(a)
  <2>1. Cardinality(Running(actor.runningP)) = Cardinality(Running(scans)) + 1
    <3> DEFINE tasks == actor.runningP
    <3>1. tasks[p] # None /\ \A q \in Processes : q # p => tasks[q] = scans[q]
      BY <1>1, <1>2
    <3> HIDE DEF tasks
    <3>2. Cardinality(Running(tasks)) = Cardinality(Running(scans)) + 1
      BY <1>2, <3>1, OneMoreRuns
    <3> QED  BY <3>2 DEF tasks
  <2>2. Cardinality(Running(scans)) <= ProjectConcurrency
    BY <1>1, <2>1, RunningIsFinite, CapacitiesArePositive DEF Sound, ScansKept
  <2>3. ASSUME NEW q \in Processes PROVE ScanIsPinned(a, q)
    BY <1>1, <1>2, <1>5 DEF Sound, ScansKept, ScanIsPinned, OnlyScans
  <2> QED  BY <1>5, <2>2, <2>3 DEF ScansKept
<1>9. task.generation = a.generation => task.catalog = a.context.catalog
  BY <1>1, <1>5 DEF Sound, ScansKept, ScanIsPinned, OnlyScans
<1> HIDE DEF task
<1>10. ASSUME NEW b \in Actors, SameMode(a, b), RecordsKept(b), EnrichmentsKept(b),
              EnrichmentsHalt(b),
              ScansKept(b), b.pendingP = a.pendingP, b.pendingE = a.pendingE,
                b.runningE = a.runningE,
              actor' = PumpProjectScans(b)
       PROVE  Follows(actor, actor')
  <2> DEFINE y == PumpProjectScans(b)
  <2>1. /\ y \in Actors /\ OnlyScans(b, y) /\ ScansHalt(y) /\ ScansKept(y)
        /\ ScansHalt(b) => y = b
    BY <1>10, PumpProjectScansStep
  <2>2. actor' = y
    BY <1>10
  <2> HIDE DEF y
  <2>3. RecordsKept(y)
    BY <1>10, <2>1, RecordsDepend DEF OnlyScans
  <2>4. EnrichmentsKept(y) /\ EnrichmentsHalt(y)
    BY <1>10, <2>1, EnrichmentsSame DEF OnlyScans
  <2>5. Sound(y) /\ SameMode(actor, y)
    BY <1>5, <1>10, <2>1, <2>3, <2>4 DEF Sound, SameMode, OnlyScans
  <2>6. CASE actor.phase = "Running"
    BY <2>2, <2>5, <2>6, SameModeFollows
  <2>7. CASE actor.phase # "Running"
    <3>1. Ending(b)
      BY <1>1, <1>5, <1>10, <2>7 DEF Ending, SameMode, OnlyScans
    <3>2. ScansHalt(b)
      BY <3>1 DEF Ending, ScansHalt, Free
    <3>3. y = b
      BY <2>1, <3>2
    <3> QED  BY <2>2, <2>5, <2>7, <3>1, <3>3 DEF Follows, Fit, SameMode, Ending
  <2> QED  BY <2>6, <2>7
<1>11. CASE actor' = PumpProjectScans(a)
  BY <1>5, <1>6, <1>7, <1>8, <1>10, <1>11 DEF SameMode
<1>12. ASSUME NEW found \in BOOLEAN, NEW v \in Processes,
              actor' = PumpProjectScans(ApplyProjectScan(a, p, task, found, v))
       PROVE  Follows(actor, actor')
  <2> DEFINE b == ApplyProjectScan(a, p, task, found, v)
  <2>1. /\ b \in Actors /\ SameMode(a, b) /\ RecordsKept(b)
        /\ b.pendingE = a.pendingE /\ b.runningE = a.runningE /\ b.owed = a.owed
        /\ b.enriched = a.enriched
        /\ b.pendingP = a.pendingP /\ b.runningP = a.runningP
        /\ \A q \in Processes : b.records[q] = None <=> a.records[q] = None
    BY <1>2, <1>5, <1>6, <1>9, ApplyProjectScanStep
  <2>2. actor' = PumpProjectScans(b)
    BY <1>12
  <2> HIDE DEF b
  <2>3. EnrichmentsKept(b) /\ EnrichmentsHalt(b)
    BY <1>7, <2>1, EnrichmentsSame
  <2>4. ScansKept(b)
    BY <1>8, <2>1, ScansDepend DEF SameMode
  <2> QED  BY <1>10, <2>1, <2>2, <2>3, <2>4
<1> QED  BY <1>4, <1>11, <1>12

(* Nothing waits: so nothing may start, and nothing is owed. *)
LEMMA NothingWaits ==
  ASSUME NEW a \in Actors, a.pendingE = <<>>, a.pendingP = <<>>, RecordsKept(a), ScansKept(a),
         \A p \in Processes : a.owed[p] = 0,
         \A p \in Processes : a.runningE[p] # None =>
           a.enriched[p] = None \/ a.enriched[p] < a.runningE[p].started,
         Cardinality(Running(a.runningE)) <= EnrichmentConcurrency
  PROVE  Sound(a)
<1>1. EnrichmentsHalt(a) /\ ScansHalt(a)
  BY DEF EnrichmentsHalt, ScansHalt, Free
<1>2. Distinct(a.pendingE)
  BY DEF Distinct
<1>3. \A p \in Processes : EnrichmentOf(a, p)
  BY DEF EnrichmentOf, Covered
<1> QED  BY <1>1, <1>2, <1>3 DEF Sound, EnrichmentsKept

(* Command::Shutdown *)
LEMMA ShutdownFollows ==
  ASSUME Fit(actor), Shutdown
  PROVE  Follows(actor, actor')
<1> DEFINE a == CancelAllProjectScans(actor)
           fast == IF a.fast = "Idle" THEN "Idle" ELSE "Cancelled"
           nothing == <<>>
           owed == [p \in Processes |-> 0]
           tasks == CancelledOf(a.runningE, Processes)
           b == [a EXCEPT !.phase = "Draining", !.fastPending = FALSE, !.fast = fast,
                          !.pendingE = nothing, !.owed = owed, !.runningE = tasks]
<1>1. actor \in Actors /\ Sound(actor)
  BY DEF Fit, Sound
<1>2. a \in Actors /\ OnlyScans(actor, a) /\ a.pendingP = <<>> /\ ScansHalt(a) /\ ScansKept(a)
  BY <1>1, CancelAllProjectScansStep DEF Sound
<1>3. actor' = [a EXCEPT !.phase = "Draining", !.fastPending = FALSE,
                        !.fast = IF @ = "Idle" THEN "Idle" ELSE "Cancelled",
                        !.pendingE = <<>>, !.owed = [p \in Processes |-> 0],
                        !.runningE = CancelledOf(@, Processes)]
  BY DEF Shutdown, Takes
<1> HIDE DEF a
<1>4. actor' = b
  BY <1>2, <1>3 DEF Actors
<1>5. /\ a.runningE \in [Processes -> NoneOr(EnrichmentTasks)]
      /\ a.enriched \in [Processes -> NoneOr(Demands)]
  BY <1>2 DEF Actors
<1>6. /\ tasks \in [Processes -> NoneOr(EnrichmentTasks)]
      /\ Running(tasks) = Running(a.runningE)
      /\ \A p \in Processes : tasks[p] = Cancelled(a.runningE[p])
      /\ \A p \in Processes : a.runningE[p] # None => tasks[p].cancelled
  <2> DEFINE before == a.runningE
             keys == Processes
             after == CancelledOf(before, keys)
  <2>1. keys \in SUBSET Processes
    OBVIOUS
  <2>2. before \in [Processes -> NoneOr(EnrichmentTasks)]
    BY <1>5
  <2> HIDE DEF before, keys
  <2>3. /\ after \in [Processes -> NoneOr(EnrichmentTasks)]
        /\ Running(after) = Running(before)
        /\ \A p \in keys : after[p] = Cancelled(before[p])
        /\ \A p \in keys : before[p] # None => after[p].cancelled
    BY <2>1, <2>2, CancelledTasks
  <2> QED  BY <2>3 DEF before, keys
<1>7. \A p \in Processes : tasks[p] # None =>
        a.runningE[p] # None /\ tasks[p].started = a.runningE[p].started
  <2> TAKE p \in Processes
  <2>1. CASE a.runningE[p] = None
    BY <1>6, <2>1 DEF Cancelled
  <2>2. CASE a.runningE[p] # None
    BY <1>5, <1>6, <2>2 DEF NoneOr, Cancelled, EnrichmentTasks
  <2> QED  BY <2>1, <2>2
<1>8. /\ fast \in {"Idle", "Cancelled"} /\ nothing \in Seq(WaitingEnrichments)
      /\ owed \in [Processes -> 0..2]
  OBVIOUS
<1> HIDE DEF fast, nothing, tasks, owed
<1>9. /\ b \in Actors /\ b.phase = "Draining" /\ b.fast = fast /\ b.fastPending = FALSE
      /\ b.records = a.records /\ b.feed = a.feed /\ b.facts = a.facts /\ b.context = a.context
      /\ b.generation = a.generation /\ b.enriched = a.enriched /\ b.owed = owed
      /\ b.pendingE = nothing /\ b.runningE = tasks
      /\ b.pendingP = a.pendingP /\ b.runningP = a.runningP
  BY <1>2, <1>6, <1>8 DEF Actors
<1> HIDE DEF b
<1>10. RecordsKept(b)
  BY <1>1, <1>2, <1>9, RecordsDepend DEF Sound, OnlyScans
<1>11. ScansKept(b)
  BY <1>2, <1>9, ScansDepend
<1>12. \A p \in Processes : b.runningE[p] # None =>
          b.enriched[p] = None \/ b.enriched[p] < b.runningE[p].started
  BY <1>1, <1>2, <1>7, <1>9 DEF Sound, EnrichmentsKept, EnrichmentOf, OnlyScans
<1>13. Cardinality(Running(b.runningE)) <= EnrichmentConcurrency
  BY <1>1, <1>2, <1>6, <1>9 DEF Sound, EnrichmentsKept, OnlyScans
<1>14. b.pendingE = <<>> /\ b.pendingP = <<>> /\ \A p \in Processes : b.owed[p] = 0
  BY <1>2, <1>9 DEF nothing, owed
<1>15. Sound(b)
  BY <1>9, <1>10, <1>11, <1>12, <1>13, <1>14, NothingWaits
<1>16. Ending(b)
  BY <1>6, <1>7, <1>8, <1>9, <1>14 DEF Ending
<1> QED  BY <1>2, <1>4, <1>9, <1>15, <1>16 DEF Follows, Fit, OnlyScans

(* drain_tasks *)
LEMMA DrainedFollows ==
  ASSUME Fit(actor), Drained
  PROVE  Follows(actor, actor')
<1> DEFINE a == actor
           nothing == [p \in Processes |-> None]
           b == [a EXCEPT !.phase = "Stopped", !.fast = "Idle", !.runningE = nothing,
                          !.runningP = nothing]
<1>1. a \in Actors /\ Sound(a) /\ a.phase = "Draining" /\ Ending(a) /\ actor' = b
  BY DEF Fit, Sound, Drained, Takes
<1>2. /\ nothing \in [Processes -> NoneOr(EnrichmentTasks)]
      /\ nothing \in [Processes -> NoneOr(ScanTasks)]
      /\ \A p \in Processes : nothing[p] = None
  BY DEF NoneOr
<1>3. Running(nothing) = {}
  BY DEF Running
<1> HIDE DEF a, nothing
<1>4. /\ b \in Actors /\ b.phase = "Stopped" /\ b.fast = "Idle" /\ b.fastPending = a.fastPending
      /\ b.records = a.records /\ b.feed = a.feed /\ b.facts = a.facts /\ b.context = a.context
      /\ b.generation = a.generation /\ b.enriched = a.enriched /\ b.owed = a.owed
      /\ b.pendingE = a.pendingE /\ b.runningE = nothing
      /\ b.pendingP = a.pendingP /\ b.runningP = nothing
  BY <1>1, <1>2 DEF Actors
<1> HIDE DEF b
<1>5. Cardinality(Running(nothing)) = 0
  BY <1>3, FS_EmptySet
<1>6. RecordsKept(b)
  BY <1>1, <1>4, RecordsDepend DEF Sound
<1>7. ScansKept(b)
  BY <1>2, <1>4, <1>5, CapacitiesArePositive DEF ScansKept, ScanIsPinned
<1>8. \A p \in Processes : b.owed[p] = 0
  <2> TAKE p \in Processes
  <2>1. a.owed[p] \in 0..2 /\ Covered(a, p)
    BY <1>1 DEF Actors, Sound, EnrichmentsKept, EnrichmentOf
  <2>2. a.owed[p] = 0
    BY <1>1, <2>1 DEF Covered, Ending
  <2> QED  BY <1>4, <2>2
<1>9. Cardinality(Running(b.runningE)) <= EnrichmentConcurrency
  BY <1>4, <1>5, CapacitiesArePositive
<1>10. Sound(b)
  BY <1>1, <1>2, <1>4, <1>6, <1>7, <1>8, <1>9, NothingWaits DEF Ending
<1>11. Ending(b)
  BY <1>1, <1>2, <1>4 DEF Ending
<1> QED  BY <1>1, <1>4, <1>10, <1>11 DEF Follows, Fit, Ending, a

(* Every turn of the actor *)
LEMMA TurnFollows ==
  ASSUME scenario \in Inputs, Fit(actor), Turn
  PROVE  Follows(actor, actor') /\ scenario' = scenario
<1>1. scenario.processes \in SUBSET Processes
  BY DEF Inputs
<1>2. scenario' = scenario
  BY DEF Turn, RequestFastScan, FastScanEnds, RequestEnrichment, WithdrawEnrichment,
     WithdrawProject,
         RequestProject, EnrichmentEnds, ProjectScanEnds, RecordExpires, EnrichmentExpires,
         ProjectExpires, Sweep, Shutdown, Drained, Takes
<1>3. CASE \E restart \in BOOLEAN : RequestFastScan(restart)
  BY <1>2, <1>3, RequestFastScanFollows
<1>4. CASE FastScanEnds
  BY <1>2, <1>4, FastScanEndsFollows
<1>5. ASSUME NEW p \in scenario.processes, NEW d \in Demands,
             RequestEnrichment(p, IF d = Metadata THEN Visible ELSE Selected, d)
      PROVE  Follows(actor, actor')
  <2> DEFINE priority == IF d = Metadata THEN Visible ELSE Selected
  <2>1. priority \in New..Selected /\ p \in Processes
    BY <1>1 DEF New, Visible, Selected
  <2>2. RequestEnrichment(p, priority, d)
    BY <1>5
  <2> HIDE DEF priority
  <2> QED  BY <2>1, <2>2, RequestEnrichmentFollows
<1>6. ASSUME NEW p \in scenario.processes,
             \/ WithdrawEnrichment(p) \/ WithdrawProject(p) \/ RequestProject(p)
             \/ EnrichmentEnds(p) \/ ProjectScanEnds(p)
             \/ RecordExpires(p) \/ EnrichmentExpires(p) \/ ProjectExpires(p)
      PROVE  Follows(actor, actor')
  <2>1. p \in Processes
    BY <1>1
  <2> QED
    BY <1>6, <2>1, WithdrawEnrichmentFollows, WithdrawProjectFollows, RequestProjectFollows,
       EnrichmentEndsFollows, ProjectScanEndsFollows, ExpiryFollows
<1>7. CASE Sweep
  BY <1>2, <1>7, SweepFollows
<1>8. CASE Shutdown
  BY <1>2, <1>8, ShutdownFollows
<1>9. CASE Drained
  BY <1>2, <1>9, DrainedFollows
<1> QED  BY <1>2, <1>3, <1>4, <1>5, <1>6, <1>7, <1>8, <1>9 DEF Turn, Demands

(* Actor::new *)
LEMMA NewActorIsSound ==
  ASSUME scenario \in Inputs, NEW context \in [catalog : NoneOr(Catalogs), rules : NoneOr(RuleSets)]
  PROVE  LET a == NewActor(context) IN
         Sound(a) /\ a.context = context /\ a.phase = "Running" /\ a.fastPending = FALSE
<1> DEFINE a == NewActor(context)
           nothing == [p \in Processes |-> None]
           none == <<>>
           owed == [p \in Processes |-> 0]
           capacity == scenario.projectCapacity
           empty == {}
<1>1. /\ nothing \in [Processes -> NoneOr(EnrichmentTasks)]
      /\ nothing \in [Processes -> NoneOr(ScanTasks)]
      /\ nothing \in [Processes -> NoneOr(Records)]
      /\ nothing \in [Processes -> NoneOr(Evidences)]
      /\ nothing \in [Processes -> NoneOr(Demands)]
      /\ nothing \in [Processes -> NoneOr([dir : Known, generation : Nat])]
      /\ \A p \in Processes : nothing[p] = None
  BY DEF NoneOr
<1>2. Running(nothing) = {}
  BY DEF Running
<1>3. /\ none \in Seq(WaitingEnrichments) /\ none \in Seq(WaitingScans)
      /\ owed \in [Processes -> 0..2] /\ \A p \in Processes : owed[p] = 0
      /\ capacity \in Nat \ {0} /\ empty \in SUBSET Processes
  BY DEF Inputs
<1>4. a = [phase |-> "Running", projectCapacity |-> capacity,
           context |-> context, generation |-> 0,
           fast |-> "Idle", fastPending |-> FALSE,
           records |-> nothing, staleRecords |-> empty, facts |-> nothing,
           enriched |-> nothing, staleEnriched |-> empty,
           projects |-> nothing, staleProjects |-> empty,
           pendingE |-> none, runningE |-> nothing, pendingP |-> none, runningP |-> nothing,
           feed |-> nothing, owed |-> owed]
  BY DEF NewActor
<1>5. none = <<>>
  OBVIOUS
<1> HIDE DEF a, nothing, none, owed, capacity, empty
<1>6. a \in Actors
  BY <1>1, <1>3, <1>4 DEF Actors
<1>7. Cardinality(Running(nothing)) = 0
  BY <1>2, FS_EmptySet
<1>8. RecordsKept(a)
  BY <1>1, <1>4 DEF RecordsKept, RecordIsCurrent
<1>9. ScansKept(a)
  BY <1>1, <1>4, <1>7, CapacitiesArePositive DEF ScansKept, ScanIsPinned
<1>10. Cardinality(Running(a.runningE)) <= EnrichmentConcurrency
  BY <1>4, <1>7, CapacitiesArePositive
<1>11. /\ a.pendingE = <<>> /\ a.pendingP = <<>>
       /\ \A p \in Processes : a.owed[p] = 0 /\ a.runningE[p] = None
  BY <1>1, <1>3, <1>4, <1>5
<1>12. Sound(a)
  BY <1>6, <1>8, <1>9, <1>10, <1>11, NothingWaits
<1> QED  BY <1>4, <1>12 DEF a

(* replace_project_context as a whole *)
LEMMA ReplaceContextFits ==
  ASSUME NEW a, Sound(a), a.phase = "Running", a.fastPending => a.fast # "Idle",
         NEW context \in [catalog : NoneOr(Catalogs), rules : NoneOr(RuleSets)]
  PROVE  LET b == ReplaceContext(a, context) IN
         Fit(b) /\ b.context = context /\ b.phase = "Running"
<1> DEFINE b == ReplaceContext(a, context)
<1>1. a \in Actors /\ RecordsKept(a)
  BY DEF Sound
<1>2. /\ b \in Actors /\ RecordsKept(b)
      /\ b.context = context /\ b.phase = a.phase /\ b.fast = a.fast
      /\ b.fastPending = a.fastPending
      /\ EnrichmentsHalt(a) => EnrichmentsHalt(b)
      /\ EnrichmentsKept(a) => EnrichmentsKept(b)
      /\ ScansHalt(b)
      /\ ScansKept(a) => ScansKept(b)
  BY <1>1, ReplaceContextStep
<1> HIDE DEF b
<1> QED  BY <1>2 DEF Fit, Sound, b

Tables == [projects : Catalogs, rules : RuleSets]
Calls  == [op : CatalogOperations, request : Asked, next : Tables,
           step : {"Sent", "Normalised", "Prepared", "Published", "Reconciling"}]

(* The kind of a request says what its id names. *)
Proper(q) ==
  /\ WellFormed(q)
  /\ q.kind \in {"SaveProject", "DeleteProject"} => q.id \in Projects \cup {None}
  /\ q.kind \in {"SaveRule", "DeleteRule"} => q.id \in Rules \cup {None}

CatalogTypes ==
  /\ scenario \in Inputs /\ Fit(actor)
  /\ durable \in Tables /\ stamp \in Nat
  /\ ledger \in [CatalogOperations -> NoneOr(Asked)]
  /\ calls \subseteq Calls /\ \A c \in calls : Proper(c.request)
  /\ effects \in [CatalogOperations -> Nat]
  /\ acked \subseteq CatalogOperations \X Asked

(* One change at a time is between its preparation and its end, and it was *)
(* not committed before.                                                   *)
IsLocked(c) == c.step \in {"Prepared", "Published", "Reconciling"}
OneChange ==
  /\ \A c, d \in calls : IsLocked(c) /\ IsLocked(d) => c = d
  /\ \A c \in calls : c.step \in {"Prepared", "Published"} => ledger[c.op] = None

(* The ledger has an operation exactly when it took effect, once. *)
LedgerIsRight ==
  /\ \A o \in CatalogOperations : effects[o] = IF ledger[o] = None THEN 0 ELSE 1
  /\ \A ack \in acked : ledger[ack[1]] = ack[2]

(* What discovery works with *)
ContextIsRight ==
  actor.phase = "Running" =>
    /\ \A c \in calls : c.step = "Published" => actor.context = Context(c.next)
    /\ ~reported /\ (\A c \in calls : c.step \notin {"Published", "Reconciling"})
         => actor.context = Context(durable)

CatalogInv == CatalogTypes /\ OneChange /\ LedgerIsRight /\ ContextIsRight

(* project_context_snapshot *)
LEMMA ContextOfTables ==
  ASSUME NEW d \in Tables
  PROVE  Context(d) \in [catalog : NoneOr(Catalogs), rules : NoneOr(RuleSets)]
BY DEF Context, Tables, NoneOr

(* What the scenarios are, as an assumption of the module says *)
LEMMA InputsAreTyped == ASSUME scenario \in Scenarios PROVE scenario \in Inputs
BY ScenariosAreInputs DEF Inputs

(* ManagedRunService::new, from what the tables hold *)
LEMMA ActorWithIsFit ==
  ASSUME scenario \in Inputs, NEW d \in Tables
  PROVE  Fit(ActorWith(d)) /\ ActorWith(d).context = Context(d) /\ ActorWith(d).phase = "Running"
<1> DEFINE none == [catalog |-> None, rules |-> None]
           a == NewActor(none)
           context == Context(d)
<1>1. none \in [catalog : NoneOr(Catalogs), rules : NoneOr(RuleSets)]
  BY DEF NoneOr
<1>2. context \in [catalog : NoneOr(Catalogs), rules : NoneOr(RuleSets)]
  BY ContextOfTables
<1>3. ActorWith(d) = ReplaceContext(a, context)
  BY DEF ActorWith
<1> HIDE DEF none
<1>4. Sound(a) /\ a.phase = "Running" /\ a.fastPending = FALSE
  BY <1>1, NewActorIsSound
<1> HIDE DEF a, context
<1>5. Fit(ReplaceContext(a, context)) /\ ReplaceContext(a, context).context = context
      /\ ReplaceContext(a, context).phase = "Running"
  BY <1>2, <1>4, ReplaceContextFits
<1> QED  BY <1>3, <1>5 DEF context

(* The Supervisor starts with empty tables. *)
LEMMA CatalogStarts == CatalogInit => CatalogInv
<1> SUFFICES ASSUME CatalogInit PROVE CatalogInv
  OBVIOUS
<1>1. scenario \in Inputs
  BY InputsAreTyped DEF CatalogInit
<1>2. durable \in Tables
  BY DEF NoRow, NoneOr, RuleSets, Catalogs, CatalogInit, Tables
<1>3. Fit(actor) /\ actor.context = Context(durable)
  BY <1>1, <1>2, ActorWithIsFit DEF CatalogInit
<1>4. CatalogTypes
  BY <1>1, <1>2, <1>3 DEF CatalogInit, CatalogTypes, NoneOr
<1>5. OneChange /\ LedgerIsRight /\ ContextIsRight
  BY <1>3 DEF CatalogInit, OneChange, LedgerIsRight, ContextIsRight
<1> QED  BY <1>4, <1>5 DEF CatalogInv

(* The tables after a change are tables. *)
LEMMA AfterIsTables ==
  ASSUME durable \in Tables, stamp \in Nat, NEW q \in Asked, Proper(q),
         NEW id \in IF q.id = None THEN FreeIds(q) ELSE {q.id}
  PROVE  After(q, id) \in Tables
<1>1. q.kind \in {"SaveProject", "DeleteProject", "SaveRule", "DeleteRule"}
      /\ q.project \in NoneOr(Projects)
  BY DEF Asked
<1>2. durable.projects \in [Projects -> Nat]
      /\ durable.rules \in [Rules -> [version : Nat, project : NoneOr(Projects)]]
      /\ durable = [projects |-> durable.projects, rules |-> durable.rules]
  BY DEF Tables, Catalogs, RuleSets
<1>3. CASE q.kind \in {"SaveProject", "DeleteProject"}
  <2>1. id \in Projects
    BY <1>3 DEF Proper, WellFormed, FreeIds
  <2> DEFINE version == IF q.kind = "SaveProject" THEN stamp + 1 ELSE 0
             projects == [durable.projects EXCEPT ![id] = version]
  <2>2. version \in Nat
    OBVIOUS
  <2>3. After(q, id) = [durable EXCEPT !.projects[id] = version]
    BY <1>3 DEF After
  <2> HIDE DEF version
  <2>4. projects \in [Projects -> Nat]
    BY <1>2, <2>1, <2>2
  <2>5. After(q, id) = [projects |-> projects, rules |-> durable.rules]
    BY <1>2, <2>3
  <2> QED  BY <1>2, <2>4, <2>5 DEF Tables, Catalogs, RuleSets
<1>4. CASE q.kind \in {"SaveRule", "DeleteRule"}
  <2>1. id \in Rules
    BY <1>4 DEF Proper, WellFormed, FreeIds
  <2> DEFINE row == IF q.kind = "SaveRule" THEN [version |-> stamp + 1, project |-> q.project]
                    ELSE NoRow
             rules == [durable.rules EXCEPT ![id] = row]
  <2>2. row \in [version : Nat, project : NoneOr(Projects)]
    BY <1>1 DEF NoRow, NoneOr
  <2>3. After(q, id) = [durable EXCEPT !.rules[id] = row]
    BY <1>4 DEF After
  <2> HIDE DEF row
  <2>4. rules \in [Rules -> [version : Nat, project : NoneOr(Projects)]]
    BY <1>2, <2>1, <2>2
  <2>5. After(q, id) = [projects |-> durable.projects, rules |-> rules]
    BY <1>2, <2>3
  <2> QED  BY <1>2, <2>4, <2>5 DEF Tables, Catalogs, RuleSets
<1> QED  BY <1>1, <1>3, <1>4

(* Calls that change nothing but themselves: one call c ends, or moves on *)
(* to a step that takes no lock.                                          *)
LEMMA CallsOnly ==
  ASSUME CatalogInv, UNCHANGED <<actor, scenario, durable, ledger, stamp, effects, reported>>,
         acked' = acked, calls' \subseteq Calls, \A c \in calls' : Proper(c.request),
         \A c \in calls' : IsLocked(c) => c \in calls,
         \A c \in calls : IsLocked(c) => c \in calls'
  PROVE  CatalogInv'
<1>1. CatalogTypes'
  BY DEF CatalogInv, CatalogTypes
<1>2. OneChange'
  BY DEF CatalogInv, OneChange, IsLocked
<1>3. LedgerIsRight' /\ ContextIsRight'
  BY DEF CatalogInv, LedgerIsRight, ContextIsRight, IsLocked
<1> QED  BY <1>1, <1>2, <1>3 DEF CatalogInv

(* A client calls. *)
LEMMA CallKeeps ==
  ASSUME CatalogInv, NEW o \in CatalogOperations, NEW q \in Requests, Call(o, q)
  PROVE  CatalogInv'
<1> DEFINE c == [op |-> o, request |-> q, step |-> "Sent", next |-> durable]
<1>1. q \in Asked
  BY DEF Requests, Asked, NoneOr, CatalogInv, CatalogTypes
<1>2. Proper(q)
  <2>1. WellFormed(q)
    BY DEF Call
  <2>2. q.kind \in {"SaveProject", "DeleteProject"} => q.id \in Projects \cup {None}
    BY DEF Requests
  <2>3. q.kind \in {"SaveRule", "DeleteRule"} => q.id \in Rules \cup {None}
    BY DEF Requests
  <2> QED  BY <2>1, <2>2, <2>3 DEF Proper
<1>3. c \in Calls /\ ~IsLocked(c)
  BY <1>1 DEF Calls, CatalogInv, CatalogTypes, IsLocked
<1>4. calls' = calls \cup {c} /\ c.request = q
      /\ UNCHANGED <<actor, scenario, durable, ledger, stamp, effects, acked, reported>>
  BY DEF Call
<1> HIDE DEF c
<1>5. calls' \subseteq Calls /\ \A d \in calls' : Proper(d.request)
  BY <1>2, <1>3, <1>4 DEF CatalogInv, CatalogTypes
<1> QED  BY <1>3, <1>4, <1>5, CallsOnly

(* A call is refused, normalised or answered from the ledger. *)
LEMMA RefuseKeeps ==
  ASSUME CatalogInv, NEW c \in calls, Refuse(c)
  PROVE  CatalogInv'
BY CallsOnly DEF Refuse, End, IsLocked, CatalogInv, CatalogTypes

LEMMA NormaliseKeeps ==
  ASSUME CatalogInv, NEW c \in calls, Normalise(c)
  PROVE  CatalogInv'
<1> DEFINE d == [c EXCEPT !.step = "Normalised"]
<1>1. c \in Calls /\ Proper(c.request) /\ c.step = "Sent"
  BY DEF Normalise, CatalogInv, CatalogTypes
<1>2. calls' = (calls \ {c}) \cup {d}
      /\ UNCHANGED <<actor, scenario, durable, ledger, stamp, effects, acked, reported>>
  BY DEF Normalise, Step
<1>3. d \in Calls /\ d.request = c.request /\ d.step = "Normalised"
  BY <1>1 DEF Calls
<1> HIDE DEF d
<1>4. calls' \subseteq Calls /\ \A e \in calls' : Proper(e.request)
  BY <1>1, <1>2, <1>3 DEF CatalogInv, CatalogTypes
<1>5. ~IsLocked(c) /\ ~IsLocked(d)
  BY <1>1, <1>3 DEF IsLocked
<1> QED  BY <1>2, <1>4, <1>5, CallsOnly

LEMMA ReplayKeeps ==
  ASSUME CatalogInv, NEW c \in calls, Replay(c)
  PROVE  CatalogInv'
<1>1. /\ calls' = calls \ {c} /\ ~IsLocked(c) /\ c \in Calls
      /\ UNCHANGED <<actor, scenario, durable, ledger, stamp, effects, reported>>
  BY DEF Replay, End, IsLocked, CatalogInv, CatalogTypes
<1>2. acked' = acked \/ (ledger[c.op] = c.request /\ acked' = acked \cup {<<c.op, c.request>>})
  BY DEF Replay
<1>3. acked' \subseteq CatalogOperations \X Asked
  BY <1>1, <1>2 DEF CatalogInv, CatalogTypes, Calls
<1>4. CatalogTypes'
  BY <1>1, <1>3 DEF CatalogInv, CatalogTypes
<1>5. OneChange'
  BY <1>1 DEF CatalogInv, OneChange, IsLocked
<1>6. LedgerIsRight'
  BY <1>1, <1>2 DEF CatalogInv, LedgerIsRight
<1>7. ContextIsRight'
  BY <1>1 DEF CatalogInv, ContextIsRight, IsLocked
<1> QED  BY <1>4, <1>5, <1>6, <1>7 DEF CatalogInv

(* prepare_...: the transaction that stays open *)
LEMMA PrepareKeeps ==
  ASSUME CatalogInv, NEW c \in calls, Prepare(c)
  PROVE  CatalogInv'
<1>1. PICK id \in IF c.request.id = None THEN FreeIds(c.request) ELSE {c.request.id} :
        calls' = (calls \ {c}) \cup {[c EXCEPT !.step = "Prepared", !.next = After(c.request, id)]}
  BY DEF Prepare
<1> DEFINE tables == After(c.request, id)
           d == [c EXCEPT !.step = "Prepared", !.next = tables]
<1>2. /\ c \in Calls /\ Proper(c.request) /\ c.request \in Asked
      /\ c.step \in {"Sent", "Normalised"}
      /\ ~Locked /\ ledger[c.op] = None /\ stamp' = stamp + 1
      /\ UNCHANGED <<actor, scenario, durable, ledger, effects, acked, reported>>
  BY DEF Prepare, CatalogInv, CatalogTypes, Calls
<1>3. tables \in Tables
  BY <1>2, AfterIsTables DEF CatalogInv, CatalogTypes
<1>4. calls' = (calls \ {c}) \cup {d}
  BY <1>1
<1> HIDE DEF tables
<1>5. d \in Calls /\ d.request = c.request /\ d.op = c.op /\ d.step = "Prepared"
  BY <1>2, <1>3 DEF Calls
<1> HIDE DEF d
<1>6. \A e \in calls : ~IsLocked(e)
  BY <1>2 DEF Locked, IsLocked
<1>7. CatalogTypes'
  BY <1>2, <1>4, <1>5 DEF CatalogInv, CatalogTypes
<1>8. OneChange'
  BY <1>2, <1>4, <1>5, <1>6 DEF CatalogInv, OneChange, IsLocked
<1>9. LedgerIsRight'
  BY <1>2 DEF CatalogInv, LedgerIsRight
<1>10. ContextIsRight'
  BY <1>2, <1>4, <1>5, <1>6 DEF CatalogInv, ContextIsRight, IsLocked
<1> QED  BY <1>7, <1>8, <1>9, <1>10 DEF CatalogInv

(* A change that holds the lock is the only one. *)
LEMMA OnlyThisChange ==
  ASSUME CatalogInv, NEW c \in calls, IsLocked(c)
  PROVE  \A e \in calls \ {c} : ~IsLocked(e)
BY DEF CatalogInv, OneChange

(* publish_and_commit_catalog_mutation: the scheduler first *)
LEMMA PublishKeeps ==
  ASSUME CatalogInv, NEW c \in calls, Publish(c)
  PROVE  CatalogInv'
<1> DEFINE d(step) == [c EXCEPT !.step = step]
<1>1. /\ c \in Calls /\ Proper(c.request) /\ c.step = "Prepared" /\ c.next \in Tables
      /\ scenario' = scenario /\ ledger[c.op] = None
      /\ UNCHANGED <<durable, ledger, stamp, effects, acked, reported>>
  BY DEF Publish, Takes, CatalogInv, CatalogTypes, OneChange, Calls
<1>2. \A e \in calls \ {c} : ~IsLocked(e)
  BY <1>1, OnlyThisChange DEF IsLocked
<1>3. \A step \in {"Published", "Reconciling"} :
        d(step) \in Calls /\ d(step).request = c.request /\ d(step).op = c.op
        /\ d(step).step = step /\ d(step).next = c.next
  BY <1>1 DEF Calls
<1>4. LedgerIsRight'
  BY <1>1 DEF CatalogInv, LedgerIsRight
<1>5. ASSUME NEW step \in {"Published", "Reconciling"}, calls' = (calls \ {c}) \cup {d(step)},
             Fit(actor')
      PROVE  CatalogTypes' /\ OneChange'
  <2> DEFINE e == d(step)
  <2>1. e \in Calls /\ e.request = c.request /\ e.op = c.op
    BY <1>3
  <2>2. calls' = (calls \ {c}) \cup {e}
    BY <1>5
  <2> HIDE DEF e
  <2>3. CatalogTypes'
    BY <1>1, <1>5, <2>1, <2>2 DEF CatalogInv, CatalogTypes
  <2>4. OneChange'
    BY <1>1, <1>2, <2>1, <2>2 DEF CatalogInv, OneChange, IsLocked
  <2> QED  BY <2>3, <2>4
<1>6. CASE CanPublish
  <2> DEFINE context == Context(c.next)
             e == d("Published")
  <2>1. actor' = ReplaceContext(actor, context) /\ calls' = (calls \ {c}) \cup {d("Published")}
    BY <1>6 DEF Publish, Takes, Step
  <2>2. context \in [catalog : NoneOr(Catalogs), rules : NoneOr(RuleSets)]
    BY <1>1, ContextOfTables
  <2>3. Sound(actor) /\ actor.phase = "Running" /\ (actor.fastPending => actor.fast # "Idle")
    BY <1>6 DEF CanPublish, Serving, CatalogInv, CatalogTypes, Fit
  <2> HIDE DEF context
  <2>4. Fit(actor') /\ actor'.context = context
    BY <2>1, <2>2, <2>3, ReplaceContextFits
  <2>5. CatalogTypes' /\ OneChange'
    BY <1>5, <2>1, <2>4
  <2>6. e.step = "Published" /\ e.next = c.next /\ calls' = (calls \ {c}) \cup {e}
    BY <1>3, <2>1
  <2> HIDE DEF e, d
  <2>7. ContextIsRight'
    BY <1>2, <2>4, <2>6 DEF ContextIsRight, IsLocked, context
  <2> QED  BY <1>4, <2>5, <2>7 DEF CatalogInv
<1>7. CASE ~CanPublish
  <2> DEFINE e == d("Reconciling")
  <2>1. actor' = actor /\ calls' = (calls \ {c}) \cup {d("Reconciling")}
    BY <1>7 DEF Publish, Step
  <2>2. CatalogTypes' /\ OneChange'
    BY <1>5, <2>1 DEF CatalogInv, CatalogTypes
  <2>3. e.step = "Reconciling" /\ calls' = (calls \ {c}) \cup {e}
    BY <1>3, <2>1
  <2> HIDE DEF e, d
  <2>4. ContextIsRight'
    BY <1>2, <2>1, <2>3 DEF ContextIsRight, IsLocked
  <2> QED  BY <1>4, <2>2, <2>4 DEF CatalogInv
<1> QED  BY <1>6, <1>7

(* ... then the database *)
LEMMA CommitKeeps ==
  ASSUME CatalogInv, NEW c \in calls, Commit(c)
  PROVE  CatalogInv'
<1> DEFINE d == [c EXCEPT !.step = "Reconciling"]
<1>1. /\ c \in Calls /\ Proper(c.request) /\ c.step = "Published" /\ c.next \in Tables
      /\ c.op \in CatalogOperations /\ c.request \in Asked /\ ledger[c.op] = None
      /\ UNCHANGED <<actor, scenario, stamp>>
  BY DEF Commit, CatalogInv, CatalogTypes, OneChange, Calls
<1>2. \A e \in calls \ {c} : ~IsLocked(e)
  BY <1>1, OnlyThisChange DEF IsLocked
<1>3. d \in Calls /\ d.request = c.request /\ d.op = c.op /\ d.step = "Reconciling"
  BY <1>1 DEF Calls
<1>4. calls' = calls \ {c} \/ calls' = (calls \ {c}) \cup {d}
  BY DEF Commit, End, Step
<1> HIDE DEF d
<1>5. OneChange'
  BY <1>2, <1>3, <1>4 DEF OneChange, IsLocked
<1>6. calls' \subseteq Calls /\ \A e \in calls' : Proper(e.request)
  BY <1>1, <1>3, <1>4 DEF CatalogInv, CatalogTypes
<1>7. effects[c.op] = 0 /\ c.request # None
  BY <1>1, NoneIsNoElement DEF CatalogInv, LedgerIsRight
<1>8. ASSUME TakesEffect(c), acked' = acked \/ acked' = acked \cup {<<c.op, c.request>>}
      PROVE  CatalogTypes' /\ LedgerIsRight'
  <2>1. /\ durable' = c.next /\ ledger' = [ledger EXCEPT ![c.op] = c.request]
        /\ effects' = [effects EXCEPT ![c.op] = @ + 1]
    BY <1>8 DEF TakesEffect
  <2>2. acked' \subseteq CatalogOperations \X Asked
    BY <1>1, <1>8 DEF CatalogInv, CatalogTypes
  <2>3. /\ ledger' \in [CatalogOperations -> NoneOr(Asked)]
        /\ effects' \in [CatalogOperations -> Nat]
    BY <1>1, <2>1 DEF CatalogInv, CatalogTypes, NoneOr
  <2>4. CatalogTypes'
    BY <1>1, <1>6, <2>1, <2>2, <2>3 DEF CatalogInv, CatalogTypes
  <2>5. \A o \in CatalogOperations : effects'[o] = IF ledger'[o] = None THEN 0 ELSE 1
    <3> TAKE o \in CatalogOperations
    <3>1. CASE o = c.op
      BY <1>1, <1>7, <2>1, <3>1 DEF CatalogInv, CatalogTypes
    <3>2. CASE o # c.op
      BY <1>1, <2>1, <3>2 DEF CatalogInv, CatalogTypes, LedgerIsRight
    <3> QED  BY <3>1, <3>2
  <2>6. \A ack \in acked' : ledger'[ack[1]] = ack[2]
    <3> TAKE ack \in acked'
    <3>1. CASE ack \in acked
      BY <1>1, <2>1, <3>1, NoneIsNoElement DEF CatalogInv, CatalogTypes, LedgerIsRight
    <3>2. CASE ack = <<c.op, c.request>>
      BY <1>1, <2>1, <3>2 DEF CatalogInv, CatalogTypes
    <3> QED  BY <1>8, <3>1, <3>2
  <2> QED  BY <2>4, <2>5, <2>6 DEF LedgerIsRight
<1>9. CASE /\ TakesEffect(c) /\ calls' = calls \ {c}
           /\ acked' = acked \cup {<<c.op, c.request>>} /\ reported' = FALSE
  <2>1. CatalogTypes' /\ LedgerIsRight'
    BY <1>8, <1>9
  <2>2. ContextIsRight'
    BY <1>1, <1>2, <1>9 DEF CatalogInv, ContextIsRight, IsLocked, TakesEffect
  <2> QED  BY <1>5, <2>1, <2>2 DEF CatalogInv
<1>10. CASE /\ TakesEffect(c) \/ UNCHANGED <<durable, ledger, effects>>
            /\ calls' = (calls \ {c}) \cup {d}
            /\ UNCHANGED <<acked, reported>>
  <2>1. CatalogTypes' /\ LedgerIsRight'
    BY <1>1, <1>6, <1>8, <1>10 DEF CatalogInv, CatalogTypes, LedgerIsRight
  <2>2. ContextIsRight'
    BY <1>2, <1>3, <1>10 DEF ContextIsRight, IsLocked
  <2> QED  BY <1>5, <2>1, <2>2 DEF CatalogInv
<1> QED  BY <1>9, <1>10 DEF Commit, End, Step, d

(* reconcile_catalog_context_from_storage *)
LEMMA ReconcileKeeps ==
  ASSUME CatalogInv, NEW c \in calls, Reconcile(c)
  PROVE  CatalogInv'
<1>1. /\ c.step = "Reconciling" /\ calls' = calls \ {c} /\ scenario' = scenario
      /\ UNCHANGED <<durable, ledger, stamp, effects, acked>>
  BY DEF Reconcile, End, Takes
<1>2. \A e \in calls' : ~IsLocked(e) /\ e \in calls
  BY <1>1, OnlyThisChange DEF IsLocked
<1>3. OneChange' /\ LedgerIsRight'
  BY <1>1, <1>2 DEF CatalogInv, OneChange, LedgerIsRight, IsLocked
<1>4. CASE CanPublish /\ Takes(ReplaceContext(actor, Context(durable))) /\ reported' = FALSE
  <2> DEFINE context == Context(durable)
  <2>1. actor' = ReplaceContext(actor, context)
    BY <1>4 DEF Takes
  <2>2. context \in [catalog : NoneOr(Catalogs), rules : NoneOr(RuleSets)]
    BY ContextOfTables DEF CatalogInv, CatalogTypes
  <2>3. Sound(actor) /\ actor.phase = "Running" /\ (actor.fastPending => actor.fast # "Idle")
    BY <1>4 DEF CanPublish, Serving, CatalogInv, CatalogTypes, Fit
  <2> HIDE DEF context
  <2>4. Fit(actor') /\ actor'.context = context
    BY <2>1, <2>2, <2>3, ReplaceContextFits
  <2>5. CatalogTypes'
    BY <1>1, <1>2, <2>4 DEF CatalogInv, CatalogTypes
  <2>6. ContextIsRight'
    BY <1>1, <1>2, <2>4 DEF ContextIsRight, IsLocked, context, Context
  <2> QED  BY <1>3, <2>5, <2>6 DEF CatalogInv
<1>5. CASE actor' = actor /\ reported' = TRUE
  BY <1>1, <1>2, <1>3, <1>5 DEF CatalogInv, CatalogTypes, ContextIsRight, IsLocked
<1> QED  BY <1>4, <1>5 DEF Reconcile

(* The Supervisor is started again. *)
LEMMA RestartKeeps ==
  ASSUME CatalogInv, Restart
  PROVE  CatalogInv'
<1>1. /\ scenario' = [scenario EXCEPT !.restarts = @ - 1] /\ scenario.restarts > 0
      /\ actor' = ActorWith(durable) /\ calls' = {} /\ reported' = FALSE
      /\ UNCHANGED <<durable, ledger, stamp, effects, acked>>
  BY DEF Restart
<1>2. scenario \in Inputs /\ durable \in Tables
  BY DEF CatalogInv, CatalogTypes
<1>3. scenario' \in Inputs
  BY <1>1, <1>2 DEF Inputs
<1>4. Fit(actor') /\ actor'.context = Context(durable)
  BY <1>1, <1>2, ActorWithIsFit
<1>5. CatalogTypes'
  BY <1>1, <1>3, <1>4 DEF CatalogInv, CatalogTypes
<1>6. OneChange' /\ LedgerIsRight' /\ ContextIsRight'
  BY <1>1, <1>4 DEF CatalogInv, OneChange, LedgerIsRight, ContextIsRight, Context
<1> QED  BY <1>5, <1>6 DEF CatalogInv

(* A turn of the scheduler *)
LEMMA TurnKeeps ==
  ASSUME CatalogInv, Turn, UNCHANGED catalogVars
  PROVE  CatalogInv'
<1>1. Follows(actor, actor') /\ scenario' = scenario
  BY TurnFollows DEF CatalogInv, CatalogTypes
<1>2. CatalogTypes'
  BY <1>1 DEF CatalogInv, CatalogTypes, Follows, catalogVars
<1>3. OneChange' /\ LedgerIsRight'
  BY DEF CatalogInv, OneChange, LedgerIsRight, catalogVars
<1>4. ContextIsRight'
  BY <1>1 DEF CatalogInv, ContextIsRight, Follows, catalogVars, Context
<1> QED  BY <1>2, <1>3, <1>4 DEF CatalogInv

(* Every step keeps the invariant. *)
LEMMA CatalogStep == CatalogInv /\ [CatalogNext]_discoveryVars => CatalogInv'
<1> SUFFICES ASSUME CatalogInv, [CatalogNext]_discoveryVars PROVE CatalogInv'
  OBVIOUS
<1>1. ASSUME NEW o \in CatalogOperations, NEW q \in Requests, Call(o, q) PROVE CatalogInv'
  BY <1>1, CallKeeps
<1>2. ASSUME NEW c \in calls, Replay(c) \/ Normalise(c) \/ Prepare(c) \/ Refuse(c) PROVE CatalogInv'
  BY <1>2, ReplayKeeps, NormaliseKeeps, PrepareKeeps, RefuseKeeps
<1>3. ASSUME NEW c \in calls, Publish(c) \/ Commit(c) \/ Reconcile(c) PROVE CatalogInv'
  BY <1>3, PublishKeeps, CommitKeeps, ReconcileKeeps
<1>4. CASE Restart
  BY <1>4, RestartKeeps
<1>5. CASE Turn /\ UNCHANGED catalogVars
  BY <1>5, TurnKeeps
<1>6. CASE UNCHANGED discoveryVars
  <2>1. scenario' = scenario /\ actor' = actor /\ UNCHANGED catalogVars
    BY <1>6 DEF discoveryVars
  <2> QED
    BY <2>1 DEF catalogVars, CatalogInv, CatalogTypes, OneChange, LedgerIsRight, ContextIsRight,
            Context
<1> QED  BY <1>1, <1>2, <1>3, <1>4, <1>5, <1>6 DEF CatalogNext, Change

(* The invariant of changes, caches and queues holds always. *)
THEOREM CatalogIsKept == CatalogSpec => []CatalogInv
<1>1. CatalogInit => CatalogInv
  BY CatalogStarts
<1>2. CatalogInv /\ [CatalogNext]_discoveryVars => CatalogInv'
  BY CatalogStep
<1> QED  BY <1>1, <1>2, PTL DEF CatalogSpec

(* What discovery shows of every process is what it knows of it now:      *)
(* evidence found where the process is and against the catalog in force,  *)
(* and a class computed from exactly that (EvidenceIsCurrent), however    *)
(* fast scans, enrichments, project scans, withdrawals, expiries, changes *)
(* of the catalog and restarts interleave, for any number of processes,   *)
(* directories and operations and every capacity of the configuration.    *)
THEOREM EvidenceStaysCurrent == CatalogSpec => []EvidenceIsCurrent
<1>1. CatalogInv => EvidenceIsCurrent
  <2> SUFFICES ASSUME CatalogInv PROVE EvidenceIsCurrent
    OBVIOUS
  <2>1. actor \in Actors /\ RecordsKept(actor)
    BY DEF CatalogInv, CatalogTypes, Fit, Sound
  <2>2. actor.feed = actor.records
    <3>1. actor.feed \in [Processes -> NoneOr(Records)]
          /\ actor.records \in [Processes -> NoneOr(Records)]
      BY <2>1 DEF Actors
    <3>2. \A p \in Processes : actor.feed[p] = actor.records[p]
      BY <2>1 DEF RecordsKept, RecordIsCurrent
    <3> QED  BY <3>1, <3>2
  <2>3. ASSUME NEW p \in Cached(actor)
        PROVE  LET r == actor.records[p]
               IN /\ r.evidence.state \in {"Found", "Missing"} =>
                       r.evidence.dir = r.dir /\ r.evidence.catalog = actor.context.catalog
                  /\ actor.facts[p] = FactsOf(r.evidence)
                  /\ r.class = [rules |-> actor.context.rules, facts |-> actor.facts[p],
                     dir |-> r.dir]
    BY <2>1 DEF Cached, RecordsKept, RecordIsCurrent
  <2> QED  BY <2>2, <2>3 DEF EvidenceIsCurrent
<1> QED  BY <1>1, CatalogIsKept, PTL

(* No enrichment that was accepted is lost, and nothing waits for a slot   *)
(* that is free, whatever ends, expires or is withdrawn and in which order *)
(* (DemandIsServed).                                                       *)
THEOREM DemandStaysServed == CatalogSpec => []DemandIsServed
<1>1. CatalogInv => DemandIsServed
  <2> SUFFICES ASSUME CatalogInv PROVE DemandIsServed
    OBVIOUS
  <2> DEFINE a == actor
  <2>1. Sound(a) /\ a \in Actors /\ (a.fastPending => a.fast # "Idle")
    BY DEF CatalogInv, CatalogTypes, Fit, Sound
  <2>2. ASSUME NEW p \in Processes, a.owed[p] > 0
        PROVE  \/ \E i \in DOMAIN a.pendingE :
                    a.pendingE[i].key = p /\ a.pendingE[i].demand >= a.owed[p]
               \/ a.runningE[p] # None /\ ~a.runningE[p].cancelled
                  /\ a.runningE[p].desired >= a.owed[p]
    BY <2>1, <2>2 DEF Sound, EnrichmentsKept, EnrichmentOf, Covered
  <2>3. ASSUME NextPending(a.pendingE, a.runningE) # None
        PROVE  Cardinality(Running(a.runningE)) = EnrichmentConcurrency
    <3>1. a.pendingE \in Seq(WaitingEnrichments)
      BY <2>1 DEF Actors
    <3>2. /\ \A w \in WaitingEnrichments : w # None
          /\ \A w \in WaitingEnrichments : w.priority \in New..Selected
      BY NoneIsNoElement DEF WaitingEnrichments
    <3>3. Free(a.pendingE, a.runningE)
      <4> DEFINE pending == a.pendingE
                 running == a.runningE
      <4>1. pending \in Seq(WaitingEnrichments) /\ NextPending(pending, running) # None
        BY <2>3, <3>1
      <4> HIDE DEF pending, running
      <4>2. Free(pending, running)
        BY <3>2, <4>1, NextIsFree
      <4> QED  BY <4>2 DEF pending, running
    <3>4. Cardinality(Running(a.runningE)) \in Nat /\ EnrichmentConcurrency \in Nat
      BY RunningIsFinite, CapacitiesArePositive
    <3> QED  BY <2>1, <3>3, <3>4 DEF Sound, EnrichmentsKept, EnrichmentsHalt
  <2>4. ASSUME NextPending(a.pendingP, a.runningP) # None
        PROVE  Cardinality(Running(a.runningP)) = ProjectConcurrency
    <3>1. a.pendingP \in Seq(WaitingScans)
      BY <2>1 DEF Actors
    <3>2. /\ \A w \in WaitingScans : w # None
          /\ \A w \in WaitingScans : w.priority \in New..Selected
      BY NoneIsNoElement DEF WaitingScans
    <3>3. Free(a.pendingP, a.runningP)
      <4> DEFINE pending == a.pendingP
                 running == a.runningP
      <4>1. pending \in Seq(WaitingScans) /\ NextPending(pending, running) # None
        BY <2>4, <3>1
      <4> HIDE DEF pending, running
      <4>2. Free(pending, running)
        BY <3>2, <4>1, NextIsFree
      <4> QED  BY <4>2 DEF pending, running
    <3>4. Cardinality(Running(a.runningP)) \in Nat /\ ProjectConcurrency \in Nat
      BY RunningIsFinite, CapacitiesArePositive
    <3> QED  BY <2>1, <3>3, <3>4 DEF Sound, ScansKept, ScansHalt
  <2> QED  BY <2>1, <2>2, <2>3, <2>4 DEF DemandIsServed
<1> QED  BY <1>1, CatalogIsKept, PTL

(* A change of projects or rules is committed at most once, an answer of  *)
(* success is about the request that was committed, and when no change is *)
(* under way discovery works with what the database holds, or the client  *)
(* was told (CatalogChangesAreWhole).                                     *)
THEOREM CatalogChangesStayWhole == CatalogSpec => []CatalogChangesAreWhole
<1>1. CatalogInv => CatalogChangesAreWhole
  <2> SUFFICES ASSUME CatalogInv PROVE CatalogChangesAreWhole
    OBVIOUS
  <2>1. \A o \in CatalogOperations : effects[o] <= 1
    BY DEF CatalogInv, LedgerIsRight
  <2>2. ASSUME NEW ack \in acked PROVE effects[ack[1]] = 1 /\ ledger[ack[1]] = ack[2]
    BY NoneIsNoElement DEF CatalogInv, CatalogTypes, LedgerIsRight
  <2>3. ~Locked /\ ~reported /\ actor.phase = "Running" => actor.context = Context(durable)
    BY DEF CatalogInv, ContextIsRight, Locked
  <2> QED  BY <2>1, <2>2, <2>3 DEF CatalogChangesAreWhole
<1> QED  BY <1>1, CatalogIsKept, PTL
=============================================================================
