------------------------- MODULE MigrationRecovery -------------------------
(***************************************************************************)
(* Opening the database: prepare_database of                               *)
(* crates/storage/src/migration_recovery.rs with the file operations of    *)
(* crates/storage/src/platform/macos.rs.                                   *)
(*                                                                         *)
(* One start-up is a sequence of file operations; the Supervisor may die   *)
(* or the machine may lose power between any two.  A power loss undoes     *)
(* directory changes made since the root was last synced and tears files   *)
(* that were not synced.                                                   *)
(***************************************************************************)
EXTENDS Naturals, FiniteSets

CONSTANTS
  Latest,     \* length of the longest manifest of migrations
  Builds,     \* the manifests (by length) of the builds that are installed
  MaxWrites,  \* bound: transactions of the application
  MaxFaults   \* bound: crashes, power losses and failing steps

ASSUME LatestIsPositive  == Latest \in Nat \ {0}
ASSUME BuildsAreManifests == Builds \subseteq 1..Latest /\ Builds # {}
ASSUME BoundsAreNatural  == MaxWrites \in Nat \ {0} /\ MaxFaults \in Nat

VARIABLES
  phase,      \* where prepare_database is; Off: no Supervisor, Ready: open
  then,       \* where it goes on when the marker is cleared
  build,      \* manifest of the running build
  dir,        \* the database root as the running system sees it
  survivors,  \* the database roots a power loss may leave
  acked,      \* history: transactions the application was told are durable
  faults      \* bound on Crash, PowerLoss and failing steps

vars == <<phase, then, build, dir, survivors, acked, faults>>

Schema == 0..Latest

(* A manifest is the length of the prefix of migrations it holds; rows *)
(* stands for the user's data.  Blank: a file of length zero.          *)
File ==
  [kind   : {"Missing", "Blank", "Torn", "Data"},
   schema : Schema,
   rows   : 0..MaxWrites,
   synced : BOOLEAN]

Special(kind)   == [kind |-> kind, schema |-> 0, rows |-> 0, synced |-> TRUE]
Missing         == Special("Missing")
Blank           == Special("Blank")
Torn            == Special("Torn")
Data(s, r)      == [kind |-> "Data", schema |-> s, rows |-> r, synced |-> TRUE]
Unsynced(f)     == [f EXCEPT !.synced = FALSE]

(* MigrationMarker; backup stands for its length and digest *)
Marker ==
  [kind : {"None", "Fresh", "Backup"}, source : Schema, target : Schema, backup : File]

NoMarker          == [kind |-> "None", source |-> 0, target |-> 0, backup |-> Missing]
FreshMarker(t)    == [kind |-> "Fresh", source |-> 0, target |-> t, backup |-> Missing]
BackupMarker(f, t) ==
  [kind |-> "Backup", source |-> f.schema, target |-> t, backup |-> f]

(* DatabaseArtifact: the sidecars are the write-ahead log.  stale: the log *)
(* belongs to another main file, and replaying it would damage this one.   *)
Directory ==
  [main : File, wal : File, primary : File, previous : File,
   partial : File, restore : File, marker : Marker, stale : BOOLEAN]

EmptyDirectory ==
  [main |-> Missing, wal |-> Missing, primary |-> Missing, previous |-> Missing,
   partial |-> Missing, restore |-> Missing, marker |-> NoMarker, stale |-> FALSE]

Phase ==
  {"Off", "ReadMarker", "CheckTarget", "Inspect", "Open", "SyncBackup", "KeepPrevious",
   "PublishBackup", "SyncBackupRoot", "PublishMarker", "SyncMarker", "Create",
   "Migrate", "CopyBackup", "SyncCopy", "DropWal", "DropMain",
   "PlaceCopy", "SyncPlaced", "ClearMarker", "SyncCleared", "Ready"}

(* A user starts with nothing, with an empty database, or with one that *)
(* some build left.                                                     *)
Init ==
  /\ phase = "Off" /\ then = "Off"
  /\ build \in Builds
  /\ \E f \in {Missing, Data(0, 0)} \cup {Data(s, 1) : s \in Schema \ {0}} :
       /\ dir = [EmptyDirectory EXCEPT !.main = f]
       /\ acked = f.rows
  /\ survivors = {dir}
  /\ faults = 0

-----------------------------------------------------------------------------
(* The file system and SQLite. *)

Exists(f) == f.kind # "Missing"

(* What a connection reads: the main file with its log replayed.  SQLite *)
(* takes a file of length zero for a database without any table.         *)
Effective(d) ==
  IF d.stale THEN Torn
  ELSE IF d.wal.kind = "Data" THEN d.wal
  ELSE IF d.main.kind = "Blank" THEN Data(0, 0)
  ELSE d.main

(* rename, unlink, create: visible at once, durable with the next sync *)
ChangeDirectory(d) == dir' = d /\ survivors' = survivors \cup {d}

(* sync_root, and the operations that end with a sync of the directory *)
ChangeAndSync(d) == dir' = d /\ survivors' = {d}

(* Synced writes into the database and its log: the files are the same in *)
(* every directory a power loss may leave.                                *)
WriteDatabase(main, wal) ==
  LET Written(d) == IF Exists(d.main) THEN [d EXCEPT !.main = main, !.wal = wal] ELSE d IN
  dir' = Written(dir) /\ survivors' = {Written(d) : d \in survivors}

SyncFile(a) ==
  LET Written(d) == [d EXCEPT ![a].synced = TRUE] IN
  dir' = Written(dir) /\ survivors' = {Written(d) : d \in survivors}

Settled(f) == IF f.synced THEN {f} ELSE {[f EXCEPT !.synced = TRUE], Torn}

WithFiles(d, p, b, r, m) ==
  [d EXCEPT !.partial = p, !.primary = b, !.restore = r, !.main = m]

AfterPowerLoss(d) ==
  {WithFiles(d, p, b, r, m) :
     p \in Settled(d.partial), b \in Settled(d.primary),
     r \in Settled(d.restore), m \in Settled(d.main)}

(* every database root the next start-up may find *)
Outcomes == {dir} \cup UNION {AfterPowerLoss(d) : d \in survivors}

Checkpointed(d) == [d EXCEPT !.main = Effective(d), !.wal = Missing]

(* a connection closed after a failure checkpoints its log, or does not *)
Closed(d) == IF d.wal.kind = "Data" THEN {d, Checkpointed(d)} ELSE {d}

-----------------------------------------------------------------------------
(* Steps of prepare_database. *)

At(p)        == phase = p /\ UNCHANGED faults
Goto(p)      == phase' = p /\ UNCHANGED <<then, build, acked>>
GotoThen(p, t) == phase' = p /\ then' = t /\ UNCHANGED <<build, acked>>
Fault        == faults < MaxFaults /\ faults' = faults + 1

(* cleanup_unreferenced_partials *)
WithoutPartials(d) == [d EXCEPT !.partial = Missing, !.restore = Missing]

FaultyBackupValid(d) ==   \* asks a backup of a fresh database too
  d.primary.kind = "Data" /\ d.primary = d.marker.backup

(* validate_marker_backup: a copy of the source, equal to what was hashed *)
BackupValid(d) ==
  d.marker.kind = "Backup" => d.primary.kind = "Data" /\ d.primary = d.marker.backup

TargetReached(d) == Effective(d).kind = "Data" /\ Effective(d).schema = d.marker.target

RestorePhase(d) == IF d.marker.kind = "Backup" THEN "CopyBackup" ELSE "DropWal"

Start ==
  /\ At("Off")
  /\ phase' = "ReadMarker" /\ then' = "Off"
  /\ build' \in Builds
  /\ UNCHANGED <<dir, survivors, acked>>

(* A marker is handled before the database is opened for anything else. *)
ReadMarker ==
  /\ At("ReadMarker")
  /\ IF dir.marker.kind = "None"
     THEN Goto("Inspect") /\ UNCHANGED <<dir, survivors>>
     ELSE /\ ChangeAndSync(WithoutPartials(dir))
          /\ Goto(IF BackupValid(dir) THEN "CheckTarget" ELSE "Off")

(* handle_active_marker: keep a finished migration, else restore and fail *)
KeepFinishedMigration ==
  /\ At("CheckTarget") /\ TargetReached(dir)
  /\ WriteDatabase(Effective(dir), Missing)
  /\ GotoThen("ClearMarker", "Inspect")

UndoUnfinishedMigration ==
  /\ phase = "CheckTarget"
  /\ \/ ~TargetReached(dir) /\ UNCHANGED faults
     \/ TargetReached(dir) /\ Fault       \* the check itself fails
  /\ \E d \in Closed(dir) : WriteDatabase(d.main, d.wal)
  /\ GotoThen(RestorePhase(dir), "Off")

(* A start-up that finds no main file must find nothing else. *)
Orphaned(d) ==
  /\ ~Exists(d.main)
  /\ \E a \in {"wal", "primary", "previous", "partial", "restore"} : Exists(d[a])

Inspect ==
  /\ At("Inspect")
  /\ IF Orphaned(dir)
     THEN Goto("Off") /\ UNCHANGED <<dir, survivors>>
     ELSE /\ ChangeAndSync(WithoutPartials(dir))
          /\ Goto(IF Exists(dir.main) THEN "Open" ELSE "PublishMarker")

(* A damaged database, or one that is newer than this build. *)
RefuseDatabase ==
  /\ At("Open")
  /\ Effective(dir).kind # "Data" \/ Effective(dir).schema > build
  /\ \E d \in Closed(dir) : WriteDatabase(d.main, d.wal)
  /\ Goto("Off")

OpenCurrent ==
  /\ At("Open") /\ Effective(dir).kind = "Data" /\ Effective(dir).schema = build
  /\ WriteDatabase(Effective(dir), Missing)
  /\ Goto("Ready")

(* create_and_publish_backup: VACUUM INTO a partial file ... *)
CreateBackup ==
  /\ At("Open") /\ Effective(dir).kind = "Data" /\ Effective(dir).schema < build
  /\ ChangeDirectory([Checkpointed(dir) EXCEPT !.partial = Unsynced(Effective(dir))])
  /\ Goto("SyncBackup")

SyncBackup ==
  /\ At("SyncBackup")
  /\ SyncFile("partial")
  /\ Goto("KeepPrevious")

(* ... which takes the first slot when the second holds the last backup *)
KeepPrevious ==
  /\ At("KeepPrevious")
  /\ ChangeDirectory(IF Exists(dir.primary)
                     THEN [dir EXCEPT !.previous = dir.primary, !.primary = Missing] ELSE dir)
  /\ Goto("PublishBackup")

PublishBackup ==
  /\ At("PublishBackup")
  /\ ChangeDirectory([dir EXCEPT !.primary = dir.partial, !.partial = Missing])
  /\ Goto("SyncBackupRoot")

SyncBackupRoot ==
  /\ At("SyncBackupRoot")
  /\ ChangeAndSync(dir)
  /\ Goto("PublishMarker")

PublishMarker ==
  /\ At("PublishMarker")
  /\ ChangeDirectory([dir EXCEPT !.marker =
       IF Exists(dir.main) THEN BackupMarker(dir.primary, build) ELSE FreshMarker(build)])
  /\ Goto("SyncMarker")

AfterMarker == IF Exists(dir.main) THEN "Migrate" ELSE "Create"

SyncMarker ==
  /\ At("SyncMarker")
  /\ ChangeAndSync(dir)
  /\ Goto(AfterMarker)

CreateDatabase ==
  /\ At("Create")
  /\ ChangeDirectory([dir EXCEPT !.main = Data(0, 0)])
  /\ Goto("Migrate")

(* each migration commits in a transaction of its own *)
Migrate ==
  /\ At("Migrate") /\ Effective(dir).schema < build
  /\ WriteDatabase(dir.main, [Effective(dir) EXCEPT !.schema = @ + 1])
  /\ Goto("Migrate")

FinishMigration ==
  /\ At("Migrate") /\ Effective(dir).schema = build
  /\ WriteDatabase(Effective(dir), Missing)
  /\ GotoThen("ClearMarker", "Ready")

(* recover_after_failed_migration *)
MigrationFails ==
  /\ phase \in {"Create", "Migrate"} /\ Fault
  /\ \E d \in Closed(dir) : WriteDatabase(d.main, d.wal)
  /\ GotoThen(RestorePhase(dir), "Off")

(* restore_backup_state and restore_fresh_state: a file is truncated and *)
(* synced before it is unlinked.                                         *)
CopyBackup ==
  /\ At("CopyBackup")
  /\ IF BackupValid(dir)
     THEN ChangeDirectory([dir EXCEPT !.restore = Unsynced(dir.primary)]) /\ Goto("SyncCopy")
     ELSE Goto("Off") /\ UNCHANGED <<dir, survivors>>

FaultySyncCopy ==   \* puts the copy in place over the old log
  /\ At("SyncCopy")
  /\ SyncFile("restore")
  /\ Goto("DropMain")

SyncCopy ==
  /\ At("SyncCopy")
  /\ SyncFile("restore")
  /\ Goto("DropWal")

(* The log may have been checkpointed in part. *)
TruncateWal ==
  /\ At("DropWal") /\ dir.wal.kind = "Data"
  /\ \E main \in {dir.main, Torn} : WriteDatabase(main, Blank)
  /\ Goto("DropWal")

UnlinkWal ==
  /\ At("DropWal") /\ dir.wal.kind = "Blank"
  /\ ChangeAndSync([dir EXCEPT !.wal = Missing])
  /\ Goto("DropWal")

TruncateMain ==
  /\ \/ At("DropWal") /\ dir.wal.kind = "Missing"
     \/ At("DropMain")
  /\ dir.main.kind \in {"Data", "Torn"}
  /\ WriteDatabase(Blank, dir.wal)
  /\ Goto("DropMain")

UnlinkMain ==
  /\ \/ At("DropWal") /\ dir.wal.kind = "Missing"
     \/ At("DropMain")
  /\ dir.main.kind \in {"Blank", "Missing"}
  /\ ChangeAndSync([dir EXCEPT !.main = Missing])
  /\ Goto(IF dir.marker.kind = "Backup" THEN "PlaceCopy" ELSE "ClearMarker")

PlaceCopy ==
  /\ At("PlaceCopy")
  /\ ChangeDirectory([dir EXCEPT !.main = dir.restore, !.restore = Missing,
                                 !.stale = dir.wal.kind = "Data"])
  /\ Goto("SyncPlaced")

SyncPlaced ==
  /\ At("SyncPlaced")
  /\ ChangeAndSync(dir)
  /\ Goto("ClearMarker")

ClearMarker ==
  /\ At("ClearMarker")
  /\ ChangeDirectory([dir EXCEPT !.marker = NoMarker])
  /\ Goto("SyncCleared")

FaultySyncCleared ==   \* the marker may come back
  /\ At("SyncCleared")
  /\ Goto(then)
  /\ UNCHANGED <<dir, survivors>>

SyncCleared ==
  /\ At("SyncCleared")
  /\ ChangeAndSync(dir)
  /\ Goto(then)

-----------------------------------------------------------------------------
(* The application, and what may go wrong. *)

Write ==
  /\ At("Ready") /\ acked < MaxWrites
  /\ WriteDatabase(dir.main, [Effective(dir) EXCEPT !.rows = @ + 1])
  /\ acked' = acked + 1
  /\ UNCHANGED <<phase, then, build>>

Close ==
  /\ At("Ready")
  /\ \E d \in Closed(dir) : WriteDatabase(d.main, d.wal)
  /\ Goto("Off")

(* The Supervisor dies, or a step before the migration fails and the *)
(* start-up ends with an error.                                      *)
Crash ==
  /\ phase # "Off" /\ Fault
  /\ Goto("Off")
  /\ UNCHANGED <<dir, survivors>>

PowerLoss ==
  /\ Fault
  /\ \E d \in survivors : \E left \in AfterPowerLoss(d) : ChangeAndSync(left)
  /\ Goto("Off")

Recover ==
  \/ ReadMarker \/ KeepFinishedMigration \/ UndoUnfinishedMigration
  \/ CopyBackup \/ SyncCopy \/ TruncateWal \/ UnlinkWal \/ TruncateMain \/ UnlinkMain
  \/ PlaceCopy \/ SyncPlaced \/ ClearMarker \/ SyncCleared

Upgrade ==
  \/ Inspect \/ RefuseDatabase \/ OpenCurrent \/ CreateBackup \/ SyncBackup
  \/ KeepPrevious \/ PublishBackup \/ SyncBackupRoot \/ PublishMarker \/ SyncMarker
  \/ CreateDatabase \/ Migrate \/ FinishMigration

Next ==
  \/ Start \/ Recover \/ Upgrade \/ MigrationFails
  \/ Write \/ Close \/ Crash \/ PowerLoss

Spec == Init /\ [][Next]_vars

(* The desktop starts the Supervisor again, and a start-up goes on. *)
FairSpec == Spec /\ WF_vars(Start \/ Recover \/ Upgrade)

-----------------------------------------------------------------------------
(* Properties. *)

(* What the next start-up that succeeds will serve from directory d. *)
Resolved(d) ==
  IF d.marker.kind = "None" \/ TargetReached(d) THEN Effective(d)
  ELSE IF d.marker.kind = "Fresh" THEN Missing
  ELSE d.primary

(* Whatever a crash or power loss leaves, every transaction the           *)
(* application was told is durable is in the database the next start-up   *)
(* will serve: neither a migration nor its undoing loses the user's data. *)
NothingIsLost ==
  \A d \in Outcomes :
    /\ Resolved(d).kind \in {"Data", "Missing"}
    /\ Resolved(d).rows = acked

(* A repository is exposed only over a database of the build's manifest, *)
(* after recovery has been brought to an end that no power loss undoes.  *)
ServesFinishedDatabase ==
  phase = "Ready" =>
    \A d \in Outcomes :
      d.marker.kind = "None" /\ Effective(d).kind = "Data" /\ Effective(d).schema = build

(* After the last fault a start-up serves the database, or refuses one *)
(* that a newer build made: no marker or leftover of a failed start-up *)
(* makes every later start-up fail.                                    *)
EventuallyServes ==
  []<>(phase = "Ready" \/ (phase = "Open" /\ Effective(dir).schema > build))

=============================================================================
