------------------------- MODULE ProfileCredentials -------------------------
(***************************************************************************)
(* Launch profiles and their secrets: ProfileService of                    *)
(* crates/supervisor/src/profile_credentials.rs over the profile tables    *)
(* and the cleanup queue of crates/storage (repository.rs and              *)
(* profile_contract.rs) and the credential store of the system.            *)
(*                                                                         *)
(* The store and the database share no transaction, so a save is a         *)
(* sequence of steps, and between two of them the Supervisor may die.  One *)
(* mutex admits one mutation at a time.  A write that fails may have taken *)
(* effect all the same.                                                    *)
(***************************************************************************)
EXTENDS Naturals, FiniteSets

CONSTANTS
  Profiles, Names,  \* launch profiles and their environment variables
  References,       \* bound: credential references ever generated
  Operations,       \* bound: operation ids of mutations
  Capacity,         \* MAX_CREDENTIAL_CLEANUP_QUEUE_ENTRIES
  Batch,            \* CREDENTIAL_CLEANUP_BATCH_SIZE
  Passes,           \* MAX_CREDENTIAL_CLEANUP_PASSES
  MaxFaults,        \* bound: crashes, failing steps and lost keys
  Nil

ASSUME ReferencesAreOrdered == References \subseteq Nat
ASSUME NilIsNew == Nil \notin References /\ Nil \notin Profiles \X Names
ASSUME LimitsOfCleanup ==
  Capacity \in Nat /\ Batch \in Nat \ {0} /\ Passes \in Nat /\ MaxFaults \in Nat

VARIABLES
  profiles,  \* database: launch_profiles with profile_environment
  queue,     \* database: credential_cleanup_queue
  results,   \* database: catalog_mutation_ledger
  secrets,   \* credential store: references that have a secret
  storedKey, \* credential store: the key of the request HMACs, 0 without one
  key,       \* memory: the same
  pc,        \* memory: the next step; Off: no Supervisor, Idle: no mutation
  save,      \* memory: the save under way
  drain,     \* memory: the cleanup under way
  slot,      \* history: what every reference was generated for
  commits,   \* history: transactions committed for every operation
  faults     \* bound on Crash, LoseKey and failing steps

database == <<profiles, queue, results>>
store    == <<secrets, storedKey>>
history  == <<slot, commits>>
vars     == <<database, store, key, pc, save, drain, history, faults>>

(* Plain variables of an environment are left out. *)
Environment == [Names -> References \cup {Nil}]
NoSecrets   == [n \in Names |-> Nil]
Key         == 0..(MaxFaults + 1)

TypeOK ==
  /\ profiles \in [Profiles -> [state : {"Unused", "Present", "Deleted"}, env : Environment]]
  /\ queue \subseteq References /\ Cardinality(queue) <= Capacity
  /\ results \in [Operations -> [method : {"None", "Save", "Delete"}, key : Key]]
  /\ secrets \subseteq References
  /\ storedKey \in Key /\ key \in Key
  /\ pc \in {"Off", "Key", "Idle", "Stage", "Put", "Commit", "Select", "Delete", "Acknowledge"}
  /\ save \in [op : Operations \cup {Nil}, profile : Profiles \cup {Nil}, current : BOOLEAN,
               env : Environment, left : SUBSET Names, reference : References \cup {Nil}]
  /\ drain \in [pass : 0..Passes, batch : SUBSET References, full : BOOLEAN]
  /\ slot \in [References -> (Profiles \X Names) \cup {Nil}]
  /\ commits \in [Operations -> Nat]
  /\ faults \in 0..MaxFaults

NoSave  == [op |-> Nil, profile |-> Nil, current |-> FALSE, env |-> NoSecrets,
            left |-> {}, reference |-> Nil]
NoDrain == [pass |-> 0, batch |-> {}, full |-> FALSE]

Init ==
  /\ profiles = [p \in Profiles |-> [state |-> "Unused", env |-> NoSecrets]]
  /\ queue = {} /\ secrets = {}
  /\ results = [o \in Operations |-> [method |-> "None", key |-> 0]]
  /\ storedKey = 0 /\ key = 0
  /\ pc = "Off" /\ save = NoSave /\ drain = NoDrain
  /\ slot = [r \in References |-> Nil]
  /\ commits = [o \in Operations |-> 0]
  /\ faults = 0

Fault == faults < MaxFaults /\ faults' = faults + 1

UsedBy(env)         == {env[n] : n \in Names} \ {Nil}
Referenced(current) == UNION {UsedBy(current[p].env) : p \in Profiles}

(* a mutation, and a start-up, end with a cleanup *)
CleanUp  == pc' = "Select" /\ drain' = NoDrain /\ save' = NoSave
Rest     == pc' = "Idle" /\ drain' = NoDrain

-----------------------------------------------------------------------------
(* Start-up: ProfileService::open. *)

Open ==
  /\ pc = "Off" /\ pc' = "Key"
  /\ UNCHANGED <<database, store, key, save, drain, history, faults>>

FaultyMayCreateKey == TRUE   \* a key that is missing is made anew

(* A missing key is not replaced once saves were recorded with it. *)
MayCreateKey == \A o \in Operations : results[o].method # "Save"

ReadKey ==
  /\ pc = "Key" /\ storedKey # 0
  /\ key' = storedKey
  /\ CleanUp
  /\ UNCHANGED <<database, store, history, faults>>

(* The key is put into the store and read back from it. *)
CreateKey ==
  /\ pc = "Key" /\ storedKey = 0 /\ MayCreateKey
  /\ storedKey' = faults + 1 /\ key' = storedKey'
  /\ CleanUp
  /\ UNCHANGED <<database, secrets, history, faults>>

(* A step of the start-up fails, or the key is missing and needed. *)
RefuseKey ==
  /\ pc = "Key"
  /\ \/ storedKey = 0 /\ ~MayCreateKey /\ UNCHANGED <<storedKey, faults>>
     \/ Fault /\ UNCHANGED storedKey
     \/ storedKey = 0 /\ MayCreateKey /\ storedKey' = faults + 1 /\ Fault
  /\ pc' = "Off"
  /\ UNCHANGED <<database, secrets, key, save, drain, history>>

-----------------------------------------------------------------------------
(* Saving: save_launch_profile_with_secrets. *)

(* An operation that was carried out is answered from its result. *)
Replayed(o) == results[o].method # "None"

(* A profile that is not there is refused at once, a new one has a new id. *)
(* The client may name any reference there is, and the version it knows    *)
(* may be out of date.                                                     *)
BeginSave(o, p) ==
  /\ pc = "Idle" /\ ~Replayed(o) /\ profiles[p].state # "Deleted"
  /\ \E given \in SUBSET Names, current \in BOOLEAN, kept \in Environment :
       /\ \A r \in UsedBy(kept) :
            slot[r] # Nil /\ (profiles[p].state = "Unused" => slot[r][1] # p)
       /\ profiles[p].state = "Unused" => current
       /\ save' = [op |-> o, profile |-> p, current |-> current, left |-> given,
                   env |-> [n \in Names |-> IF n \in given THEN Nil ELSE kept[n]],
                   reference |-> Nil]
       /\ pc' = IF given = {} THEN "Commit" ELSE "Stage"
  /\ UNCHANGED <<database, store, key, drain, history, faults>>

(* stage_credential_cleanup: the reference is to be cleaned up until the *)
(* profile is committed.                                                 *)
StageReference ==
  /\ pc = "Stage" /\ Cardinality(queue) < Capacity
  /\ \E n \in save.left, r \in {r \in References : slot[r] = Nil} :
       /\ slot' = [slot EXCEPT ![r] = <<save.profile, n>>]
       /\ queue' = queue \cup {r}
       /\ \/ pc' = "Put" /\ save' = [save EXCEPT !.reference = r] /\ UNCHANGED <<drain, faults>>
          \/ Fault /\ CleanUp
  /\ UNCHANGED <<profiles, results, store, key, commits>>

RefuseStage ==
  /\ pc = "Stage"
  /\ \/ Cardinality(queue) >= Capacity /\ UNCHANGED faults
     \/ Fault
  /\ CleanUp
  /\ UNCHANGED <<database, store, key, history>>

PutSecret ==
  LET r == save.reference
      n == slot[r][2]
      left == save.left \ {n}
  IN
  /\ pc = "Put"
  /\ \/ /\ secrets' = secrets \cup {r}
        /\ save' = [save EXCEPT !.env[n] = r, !.left = left, !.reference = Nil]
        /\ pc' = IF left = {} THEN "Commit" ELSE "Stage"
        /\ UNCHANGED <<drain, faults>>
     \/ /\ Fault
        /\ secrets' \in {secrets, secrets \cup {r}}
        /\ CleanUp
  /\ UNCHANGED <<database, storedKey, key, history>>

Belongs(p, env) == \A n \in Names : env[n] # Nil => slot[env[n]] = <<p, n>>

FaultyVerified(p, env) == Belongs(p, env)   \* does not ask the store

(* validate_credential_references: the secrets are those of the profile's *)
(* own slots and can be read                                              *)
Verified(p, env) == Belongs(p, env) /\ UsedBy(env) \subseteq secrets

(* adopt_credential_references *)
Adopted(env) == queue \ UsedBy(env)

FaultyEnqueued(waiting, p, after) == waiting   \* forgets the replaced references

(* enqueue_unreferenced_credential_references: what p used before and *)
(* nobody uses after                                                  *)
Enqueued(waiting, p, after) == waiting \cup (UsedBy(profiles[p].env) \ Referenced(after))

Fits(waiting) == Cardinality(waiting) <= Capacity

(* reserve_catalog_mutation and insert_catalog_mutation_result *)
Record(o, method, k) ==
  /\ results[o].method = "None"
  /\ results' = [results EXCEPT ![o] = [method |-> method, key |-> k]]

(* insert_stored_launch_profile, update_stored_launch_profile *)
Stored(p, env) == [profiles EXCEPT ![p] = [state |-> "Present", env |-> env]]

(* delete_stored_launch_profile *)
Removed(p) == [profiles EXCEPT ![p] = [state |-> "Deleted", env |-> NoSecrets]]

(* prepare_save_launch_profile and its commit *)
CommitSave ==
  LET p     == save.profile
      after == Stored(p, save.env)
      waiting == Enqueued(Adopted(save.env), p, after)
  IN
  /\ pc = "Commit"
  /\ save.current /\ Verified(p, save.env) /\ Fits(waiting)
  /\ profiles' = after /\ queue' = waiting
  /\ Record(save.op, "Save", key)
  /\ commits' = [commits EXCEPT ![save.op] = @ + 1]
  /\ CleanUp
  /\ UNCHANGED <<store, key, slot, faults>>

(* The version is out of date, a secret cannot be read, the queue is full *)
(* or the database fails: the transaction is rolled back.                 *)
RefuseSave ==
  LET p     == save.profile
      after == Stored(p, save.env)
  IN
  /\ pc = "Commit"
  /\ \/ /\ save.current /\ Verified(p, save.env) => ~Fits(Enqueued(Adopted(save.env), p, after))
        /\ UNCHANGED faults
     \/ Fault
  /\ CleanUp
  /\ UNCHANGED <<database, store, key, history>>

(* prepare_delete_launch_profile and its commit *)
DeleteProfile(o, p) ==
  LET after == Removed(p)
      waiting == Enqueued(queue, p, after)
  IN
  /\ pc = "Idle" /\ ~Replayed(o)
  /\ profiles[p].state = "Present" /\ Fits(waiting)
  /\ profiles' = after /\ queue' = waiting
  /\ Record(o, "Delete", 0)
  /\ commits' = [commits EXCEPT ![o] = @ + 1]
  /\ CleanUp
  /\ UNCHANGED <<store, key, slot, faults>>

(* A delete that is refused, and the cleanup a caller asks for. *)
OnlyCleanUp ==
  /\ pc = "Idle" /\ CleanUp
  /\ UNCHANGED <<database, store, key, history, faults>>

-----------------------------------------------------------------------------
(* Cleanup: drain_credential_cleanup, in passes over the queue. *)

FirstOf(refs, limit) == {r \in refs : Cardinality({q \in refs : q < r}) < limit}
Smallest(refs)       == CHOOSE r \in refs : \A q \in refs : r <= q

Limit == IF drain.pass < Passes THEN Batch ELSE 1

SelectBatch ==
  LET batch == FirstOf(queue \ Referenced(profiles), Limit) IN
  /\ pc = "Select"
  /\ IF batch = {} THEN Rest
     ELSE /\ drain' = [drain EXCEPT !.batch = batch, !.full = Cardinality(batch) = Batch]
          /\ pc' = "Delete"
  /\ UNCHANGED <<database, store, key, save, history, faults>>

DeleteSecret ==
  /\ pc = "Delete"
  /\ secrets' = secrets \ {Smallest(drain.batch)}
  /\ pc' = "Acknowledge"
  /\ UNCHANGED <<database, storedKey, key, save, drain, history, faults>>

AcknowledgeDeletion ==
  LET r == Smallest(drain.batch)
      left == drain.batch \ {r}
  IN
  /\ pc = "Acknowledge"
  /\ queue' = queue \ ({r} \ Referenced(profiles))
  /\ IF left # {} THEN pc' = "Delete" /\ drain' = [drain EXCEPT !.batch = left]
     ELSE IF drain.full /\ drain.pass < Passes
     THEN pc' = "Select" /\ drain' = [pass |-> drain.pass + 1, batch |-> {}, full |-> FALSE]
     ELSE Rest
  /\ UNCHANGED <<profiles, results, store, key, save, history, faults>>

(* A step of the cleanup fails, with or without effect: the rest is left *)
(* to the next cleanup.                                                  *)
DeferCleanup ==
  /\ pc \in {"Select", "Delete", "Acknowledge"} /\ Fault /\ Rest
  /\ \/ UNCHANGED <<secrets, queue>>
     \/ /\ pc = "Delete" /\ secrets' = secrets \ {Smallest(drain.batch)} /\ UNCHANGED queue
     \/ /\ pc = "Acknowledge" /\ queue' = queue \ {Smallest(drain.batch)} /\ UNCHANGED secrets
  /\ UNCHANGED <<profiles, results, storedKey, key, save, history>>

-----------------------------------------------------------------------------
(* The Supervisor dies, at any step. *)
Crash ==
  /\ pc # "Off" /\ Fault
  /\ pc' = "Off" /\ save' = NoSave /\ drain' = NoDrain /\ key' = 0
  /\ UNCHANGED <<database, store, history>>

(* The user removes the key with the tools of the system. *)
LoseKey ==
  /\ storedKey # 0 /\ Fault
  /\ storedKey' = 0
  /\ UNCHANGED <<database, secrets, key, pc, save, drain, history>>

StartUp == Open \/ ReadKey \/ CreateKey \/ RefuseKey
Mutate  ==
  \/ \E o \in Operations, p \in Profiles : BeginSave(o, p) \/ DeleteProfile(o, p)
  \/ StageReference \/ RefuseStage \/ PutSecret \/ CommitSave \/ RefuseSave
Cleanup == OnlyCleanUp \/ SelectBatch \/ DeleteSecret \/ AcknowledgeDeletion \/ DeferCleanup

Next == StartUp \/ Mutate \/ Cleanup \/ Crash \/ LoseKey

Spec == Init /\ [][Next]_vars

-----------------------------------------------------------------------------
(* Properties. *)

(* No secret is left behind in the credential store: each is used by a   *)
(* profile or queued for cleanup, whichever step of a save, replacement, *)
(* deletion or cleanup fails or is the last before a crash.              *)
NoSecretIsForgotten == secrets \subseteq Referenced(profiles) \cup queue

(* A committed profile can be launched: no cleanup, late, repeated or *)
(* interrupted, removes a secret that a profile uses.                 *)
ProfilesKeepTheirSecrets == Referenced(profiles) \subseteq secrets

(* Nothing that a profile uses waits to be deleted, so a secret that one *)
(* slot dropped and took back is safe.                                   *)
QueueIsUnused == queue \cap Referenced(profiles) = {}

(* Every recorded save can be told from a different request: the key it *)
(* was recorded with is the key in use, across restarts and lost keys.  *)
RepeatsAreRecognised ==
  pc \notin {"Off", "Key"} =>
    \A o \in Operations : results[o].method = "Save" => results[o].key = key

=============================================================================
