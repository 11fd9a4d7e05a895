----------------------- MODULE SupervisorStart_proofs -----------------------
(***************************************************************************)
(* What stands between a start of the Supervisor and its first answer.     *)
(* Neither a migration nor its undoing loses what the application was told *)
(* is durable, wherever the Supervisor dies or the power fails.  And the   *)
(* desktop, which looks for the Supervisor, trusts it and calls it, is     *)
(* never taken in: whatever stops, crashes or is late, what it hears on a  *)
(* session is what the Supervisor it authenticated said to its calls.      *)
(***************************************************************************)
EXTENDS MigrationRecovery, BridgeCalls, FiniteSetTheorems, SequenceTheorems, TLAPS

TypeOK ==
  /\ phase \in Phase /\ then \in {"Off", "Inspect", "Ready"} /\ build \in Builds
  /\ dir \in survivors /\ survivors \in SUBSET Directory
  /\ acked \in 0..MaxWrites /\ faults \in 0..MaxFaults

(* File f is a whole database with n transactions in it. *)
Holds(f, n) == f.kind = "Data" /\ f.rows = n

(* What is read from d is the user's data, or there has never been any. *)
Whole(d, n) ==
  \/ Holds(Effective(d), n)
  \/ Effective(d).kind = "Missing" /\ Effective(d).rows = 0 /\ n = 0

(* A root is safe if it serves the user's data, or if its marker says how *)
(* to come by them, whatever has become of the database and its log.      *)
Safe(d, n) ==
  /\ ~d.stale /\ d.main.synced /\ d.wal.synced
  /\ d.main.kind = "Missing" => d.wal.kind = "Missing"
  /\ d.marker.kind = "None" => Whole(d, n)
  /\ d.marker.kind # "None" =>
       /\ d.marker.target > 0
       /\ d.main.kind = "Data" /\ d.main.schema = d.marker.target => d.main.rows = n
       /\ d.wal.kind = "Data" /\ d.wal.schema = d.marker.target => d.wal.rows = n
  /\ d.marker.kind = "Fresh" => n = 0
  /\ d.marker.kind = "Backup" => Holds(d.primary, n) /\ d.primary.synced

AllSafe == \A d \in survivors : Safe(d, acked)

(* Where every root that a power loss may leave has the marker of dir *)
Undoing == {"CopyBackup", "SyncCopy", "DropWal", "DropMain", "PlaceCopy", "SyncPlaced"}
Marked  == Undoing \cup {"CheckTarget", "Create", "Migrate", "ClearMarker"}

(* Where dir has none *)
BackingUp == {"SyncBackup", "KeepPrevious", "PublishBackup", "SyncBackupRoot"}
Unmarked  == BackingUp \cup {"Inspect", "Open", "PublishMarker", "SyncCleared", "Ready"}

MarkersStand ==
  /\ phase \in Marked \cup {"SyncMarker"} => dir.marker.kind # "None"
  /\ phase \in Marked => \A d \in survivors : d.marker = dir.marker
  /\ phase \in Unmarked => dir.marker.kind = "None"
  /\ phase \in {"Open", "Ready"} => survivors = {dir}
  /\ phase \in Undoing => then = "Off"

(* The backup is complete before a marker names it. *)
BackupsAreComplete ==
  /\ phase \in BackingUp \cup {"PublishMarker", "SyncMarker"} => dir.wal.kind = "Missing"
  /\ phase \in {"SyncBackup", "KeepPrevious", "PublishBackup"} => Holds(dir.partial, acked)
  /\ phase \in {"KeepPrevious", "PublishBackup"} => dir.partial.synced
  /\ phase = "SyncBackupRoot" \/ (phase = "PublishMarker" /\ Exists(dir.main)) =>
       Holds(dir.primary, acked) /\ dir.primary.synced
  /\ phase = "SyncMarker" => Whole(dir, acked)
  /\ phase = "Create" => acked = 0 /\ dir.wal.kind = "Missing"
  /\ phase = "Migrate" => Holds(Effective(dir), acked)

(* The copy is complete before the database is taken away, and in place *)
(* before the marker goes.                                              *)
RestoresAreComplete ==
  /\ phase \in {"CopyBackup", "SyncCopy", "PlaceCopy"} => dir.marker.kind = "Backup"
  /\ phase = "SyncCopy" => Holds(dir.restore, acked)
  /\ phase \in {"DropWal", "DropMain", "PlaceCopy"} /\ dir.marker.kind = "Backup" =>
       Holds(dir.restore, acked) /\ dir.restore.synced
  /\ phase \in {"DropMain", "PlaceCopy"} => dir.wal.kind = "Missing"
  /\ phase \in {"SyncPlaced", "ClearMarker"} => Whole(dir, acked)

(* Whoever is about to serve has a database of this build. *)
Finished ==
  phase = "Ready" \/ (phase \in {"ClearMarker", "SyncCleared"} /\ then = "Ready") =>
    Effective(dir).kind = "Data" /\ Effective(dir).schema = build

RecoveryInv ==
  /\ TypeOK /\ AllSafe
  /\ MarkersStand /\ BackupsAreComplete /\ RestoresAreComplete /\ Finished

------------------------------------------------------------
(* Files and roots. *)

LEMMA FileTypes ==
  /\ Missing \in File /\ Blank \in File /\ Torn \in File /\ Data(0, 0) \in File
  /\ Missing.kind = "Missing" /\ Missing.synced /\ Missing.rows = 0
  /\ Blank.kind = "Blank" /\ Blank.synced
  /\ Torn.kind = "Torn" /\ Torn.synced
  /\ Data(0, 0).kind = "Data" /\ Data(0, 0).rows = 0 /\ Data(0, 0).schema = 0 /\ Data(0, 0).synced
  /\ NoMarker \in Marker /\ NoMarker.kind = "None"
BY LatestIsPositive, BoundsAreNatural
   DEF Missing, Blank, Torn, Data, Special, File, Schema, NoMarker, Marker

LEMMA DirectoryFields ==
  ASSUME NEW d \in Directory
  PROVE  /\ d.main \in File /\ d.wal \in File /\ d.primary \in File
         /\ d.partial \in File /\ d.restore \in File /\ d.marker \in Marker
BY DEF Directory

LEMMA EffectiveIsFile ==
  ASSUME NEW d \in Directory
  PROVE  /\ Effective(d) \in File
         /\ d.main.synced /\ d.wal.synced => Effective(d).synced
BY FileTypes, DirectoryFields DEF Effective

(* What a root serves is decided by its database and log, and whether it   *)
(* is safe by these, its marker and, where the marker names it, its backup. *)
LEMMA SafetyIsDecided ==
  ASSUME NEW d, NEW e, NEW n, Safe(d, n),
         e.main = d.main, e.wal = d.wal, e.stale = d.stale, e.marker = d.marker,
         e.primary = d.primary \/ d.marker.kind # "Backup"
  PROVE  Safe(e, n) /\ Effective(e) = Effective(d)
BY DEF Effective, Safe, Whole

LEMMA SafeRootsResolve ==
  ASSUME NEW d \in Directory, NEW n, Safe(d, n)
  PROVE  Resolved(d).kind \in {"Data", "Missing"} /\ Resolved(d).rows = n
<1>1. CASE d.marker.kind = "None"
  BY <1>1 DEF Resolved, Safe, Whole, Holds
<1>2. CASE d.marker.kind # "None" /\ TargetReached(d)
  BY <1>2, FileTypes DEF TargetReached, Safe, Effective, Resolved
<1>3. CASE d.marker.kind # "None" /\ ~TargetReached(d)
  BY <1>3, DirectoryFields, FileTypes DEF Marker, Resolved, Safe, Holds
<1> QED BY <1>1, <1>2, <1>3

(* A power loss takes or tears only files that nothing depends on. *)
LEMMA PowerLossIsSafe ==
  ASSUME NEW d \in Directory, NEW n, Safe(d, n), NEW e \in AfterPowerLoss(d)
  PROVE  /\ e \in Directory /\ Safe(e, n)
         /\ e.marker = d.marker /\ Effective(e) = Effective(d)
<1>1. PICK p \in Settled(d.partial), b \in Settled(d.primary), r \in Settled(d.restore),
           m \in Settled(d.main) : e = WithFiles(d, p, b, r, m)
  BY DEF AfterPowerLoss
<1>2. ASSUME NEW f \in File PROVE Settled(f) \subseteq File /\ (f.synced => Settled(f) = {f})
  <2>1. [f EXCEPT !.synced = TRUE] \in File
    BY DEF File
  <2> QED BY <2>1, FileTypes DEF Settled
<1>3. p \in File /\ b \in File /\ r \in File /\ m = d.main
  BY <1>2, DirectoryFields DEF Safe
<1>4. d.marker.kind = "Backup" => b = d.primary
  BY <1>2, DirectoryFields DEF Safe
<1>5. /\ e \in Directory
      /\ e.main = d.main /\ e.wal = d.wal /\ e.stale = d.stale /\ e.marker = d.marker
      /\ e.primary = b
  BY <1>1, <1>3, DirectoryFields DEF Directory, WithFiles
<1> QED BY <1>4, <1>5, SafetyIsDecided

------------------------------------------------------------
(* The file operations keep every root safe. *)

Rooted == dir \in survivors /\ survivors \in SUBSET Directory

LEMMA InvOfDir ==
  ASSUME RecoveryInv
  PROVE  Rooted /\ dir \in Directory /\ Safe(dir, acked)
BY DEF RecoveryInv, TypeOK, AllSafe, Rooted

LEMMA ChangeKeepsSafe ==
  ASSUME RecoveryInv, acked' = acked,
         survivors' = survivors \cup {dir'} \/ survivors' = {dir'},
         dir' \in Directory, Safe(dir', acked)
  PROVE  AllSafe' /\ Rooted'
BY DEF RecoveryInv, TypeOK, AllSafe, Rooted

(* Files that may take the place of the database and its log while the     *)
(* marker m stands *)
Fits(main, wal, m, n) ==
  /\ main \in File /\ wal \in File /\ main.synced /\ wal.synced
  /\ main.kind = "Missing" => wal.kind = "Missing"
  /\ main.kind = "Data" /\ main.schema = m.target => main.rows = n
  /\ wal.kind = "Data" /\ wal.schema = m.target => wal.rows = n

With(d, main, wal) == [d EXCEPT !.main = main, !.wal = wal]

LEMMA WithFields ==
  ASSUME NEW d \in Directory, NEW main \in File, NEW wal \in File
  PROVE  /\ With(d, main, wal) \in Directory
         /\ With(d, main, wal).main = main /\ With(d, main, wal).wal = wal
         /\ With(d, main, wal).stale = d.stale /\ With(d, main, wal).marker = d.marker
         /\ With(d, main, wal).primary = d.primary /\ With(d, main, wal).partial = d.partial
         /\ With(d, main, wal).restore = d.restore
BY DEF With, Directory

LEMMA MarkedRootTakesWrites ==
  ASSUME NEW d \in Directory, NEW n, Safe(d, n), d.marker.kind # "None",
         NEW main, NEW wal, Fits(main, wal, d.marker, n)
  PROVE  Safe(With(d, main, wal), n)
BY WithFields DEF Safe, Fits

LEMMA MarkedWriteKeepsSafe ==
  ASSUME RecoveryInv, acked' = acked, phase \in Marked,
         NEW main, NEW wal, Fits(main, wal, dir.marker, acked), WriteDatabase(main, wal)
  PROVE  /\ AllSafe' /\ Rooted'
         /\ dir' = IF Exists(dir.main) THEN With(dir, main, wal) ELSE dir
         /\ dir'.marker = dir.marker
         /\ \A d \in survivors' : d.marker = dir'.marker
<1> DEFINE Written(d) == IF Exists(d.main) THEN With(d, main, wal) ELSE d
<1>1. dir' = Written(dir) /\ survivors' = {Written(d) : d \in survivors}
  BY DEF WriteDatabase, With
<1>2. ASSUME NEW d \in survivors
      PROVE  Written(d) \in Directory /\ Safe(Written(d), acked) /\ Written(d).marker = dir.marker
  BY MarkedRootTakesWrites, WithFields DEF RecoveryInv, TypeOK, AllSafe, MarkersStand, Fits
<1>3. dir \in survivors
  BY DEF RecoveryInv, TypeOK
<1>4. dir' = IF Exists(dir.main) THEN With(dir, main, wal) ELSE dir
  BY <1>1
<1> HIDE DEF Written
<1>5. \A e \in survivors' : e \in Directory /\ Safe(e, acked) /\ e.marker = dir.marker
  BY <1>1, <1>2
<1>6. dir' \in survivors'
  BY <1>1, <1>3
<1>7. dir'.marker = dir.marker
  BY <1>5, <1>6
<1>8. AllSafe' /\ Rooted'
  BY <1>5, <1>6 DEF AllSafe, Rooted
<1> QED BY <1>4, <1>5, <1>7, <1>8

LEMMA SoleWrite ==
  ASSUME RecoveryInv, survivors = {dir}, NEW main, NEW wal, WriteDatabase(main, wal)
  PROVE  /\ dir' = IF Exists(dir.main) THEN With(dir, main, wal) ELSE dir
         /\ survivors' = {dir'}
BY DEF WriteDatabase, With

(* SQLite's checkpoint moves the log into the database and changes nothing *)
(* that a connection reads.                                                *)
LEMMA CheckpointKeeps ==
  ASSUME NEW d \in Directory, NEW n, Safe(d, n)
  PROVE  /\ With(d, Effective(d), Missing) \in Directory
         /\ Safe(With(d, Effective(d), Missing), n)
         /\ Effective(With(d, Effective(d), Missing)) = Effective(d)
         /\ d.marker.kind # "None" => Fits(Effective(d), Missing, d.marker, n)
<1>1. Effective(d) \in File /\ Effective(d).synced /\ Missing \in File
  BY EffectiveIsFile, FileTypes DEF Safe
<1>2. PICK c : c = With(d, Effective(d), Missing)
  OBVIOUS
<1>3. /\ c \in Directory /\ c.main = Effective(d) /\ c.wal = Missing /\ c.stale = d.stale
      /\ c.marker = d.marker /\ c.primary = d.primary
  BY <1>1, <1>2, WithFields
<1>4. Effective(c) = Effective(d)
  BY <1>3, FileTypes DEF Effective, Safe
<1>5. d.marker.kind # "None" => Fits(Effective(d), Missing, d.marker, n)
  BY <1>1, FileTypes, DirectoryFields DEF Effective, Safe, Marker, Schema, Fits
<1>6. Safe(c, n)
  <2>1. CASE d.marker.kind # "None"
    BY <1>2, <1>5, <2>1, MarkedRootTakesWrites
  <2>2. CASE d.marker.kind = "None"
    <3>1. Whole(c, n)
      BY <1>4, <2>2 DEF Safe, Whole
    <3> QED BY <1>1, <1>3, <2>2, <3>1, FileTypes DEF Safe
  <2> QED BY <2>1, <2>2
<1> QED BY <1>2, <1>3, <1>4, <1>5, <1>6

LEMMA ClosingKeeps ==
  ASSUME NEW d \in Directory, NEW n, Safe(d, n), NEW c \in Closed(d)
  PROVE  /\ With(d, c.main, c.wal) \in Directory
         /\ Safe(With(d, c.main, c.wal), n)
         /\ Effective(With(d, c.main, c.wal)) = Effective(d)
         /\ d.marker.kind # "None" => Fits(c.main, c.wal, d.marker, n)
<1>1. c = d \/ c = With(d, Effective(d), Missing)
  BY DEF Closed, Checkpointed, With
<1>2. CASE c = d
  <2>1. PICK w : w = With(d, d.main, d.wal)
    OBVIOUS
  <2>0. d.main \in File /\ d.wal \in File
    BY DirectoryFields
  <2>2. /\ w \in Directory /\ w.main = d.main /\ w.wal = d.wal /\ w.stale = d.stale
        /\ w.marker = d.marker /\ w.primary = d.primary
    BY <2>0, <2>1, WithFields
  <2>3. Safe(w, n) /\ Effective(w) = Effective(d)
    BY <2>2, SafetyIsDecided
  <2>4. d.marker.kind # "None" => Fits(d.main, d.wal, d.marker, n)
    BY DirectoryFields DEF Fits, Safe
  <2> QED BY <1>2, <2>1, <2>2, <2>3, <2>4
<1>3. CASE c = With(d, Effective(d), Missing)
  <2>0. Effective(d) \in File /\ Missing \in File
    BY EffectiveIsFile, FileTypes
  <2>1. c.main = Effective(d) /\ c.wal = Missing
    BY <1>3, <2>0, WithFields
  <2> QED BY <2>1, CheckpointKeeps
<1> QED BY <1>1, <1>2, <1>3

LEMMA WholeHolds ==
  ASSUME NEW d \in Directory, NEW n, Safe(d, n), d.marker.kind = "None"
  PROVE  /\ Effective(d).kind = "Data" => Holds(Effective(d), n)
         /\ Exists(d.main) => Effective(d).kind = "Data"
         /\ ~Exists(d.main) => n = 0
BY FileTypes DEF Safe, Whole, Holds, Exists, Effective

------------------------------------------------------------
(* Every step keeps the invariant: the start, and the undoing of a *)
(* migration that did not finish.                                  *)

USE DEF Phase, Marked, Unmarked, Undoing, BackingUp

LEMMA StartKeeps ==
  ASSUME RecoveryInv, Start
  PROVE  RecoveryInv'
BY DEF RecoveryInv, Start, At, TypeOK, AllSafe, MarkersStand, BackupsAreComplete,
       RestoresAreComplete, Finished

LEMMA CrashKeeps ==
  ASSUME RecoveryInv, Crash
  PROVE  RecoveryInv'
BY BoundsAreNatural
   DEF RecoveryInv, Crash, Fault, Goto, TypeOK, AllSafe, MarkersStand, BackupsAreComplete,
       RestoresAreComplete, Finished

LEMMA PowerLossKeeps ==
  ASSUME RecoveryInv, PowerLoss
  PROVE  RecoveryInv'
<1>1. PICK d \in survivors : \E left \in AfterPowerLoss(d) : ChangeAndSync(left)
  BY DEF PowerLoss
<1>2. PICK left \in AfterPowerLoss(d) : ChangeAndSync(left)
  BY <1>1
<1>3. d \in Directory /\ Safe(d, acked)
  BY DEF RecoveryInv, TypeOK, AllSafe
<1>4. dir' = left /\ survivors' = {left} /\ left \in Directory /\ Safe(left, acked)
  BY <1>2, <1>3, PowerLossIsSafe DEF ChangeAndSync
<1>5. phase' = "Off" /\ UNCHANGED <<then, build, acked>> /\ faults < MaxFaults /\ faults' = faults + 1
  BY DEF PowerLoss, Goto, Fault
<1>6. AllSafe' /\ Rooted'
  BY <1>4, <1>5, ChangeKeepsSafe
<1> QED
  BY <1>5, <1>6, BoundsAreNatural
     DEF RecoveryInv, TypeOK, Rooted, MarkersStand, BackupsAreComplete, RestoresAreComplete,
         Finished

LEMMA CleanedRoot ==
  ASSUME NEW d \in Directory, NEW n, Safe(d, n)
  PROVE  /\ WithoutPartials(d) \in Directory /\ Safe(WithoutPartials(d), n)
         /\ WithoutPartials(d).marker = d.marker /\ WithoutPartials(d).main = d.main
BY FileTypes, SafetyIsDecided DEF WithoutPartials, Directory

LEMMA ReadMarkerKeeps ==
  ASSUME RecoveryInv, ReadMarker
  PROVE  RecoveryInv'
<1>1. CASE dir.marker.kind = "None"
  BY <1>1
     DEF ReadMarker, At, Goto, RecoveryInv, TypeOK, AllSafe, MarkersStand,
         BackupsAreComplete, RestoresAreComplete, Finished
<1>2. CASE dir.marker.kind # "None"
  <2>1. /\ dir' = WithoutPartials(dir) /\ survivors' = {dir'}
        /\ phase' \in {"CheckTarget", "Off"} /\ UNCHANGED <<then, build, acked, faults>>
    BY <1>2 DEF ReadMarker, At, Goto, ChangeAndSync
  <2>2. dir' \in Directory /\ Safe(dir', acked) /\ dir'.marker.kind # "None"
    BY <1>2, <2>1, InvOfDir, CleanedRoot
  <2>3. AllSafe' /\ Rooted'
    BY <2>1, <2>2, ChangeKeepsSafe
  <2> QED
    BY <2>1, <2>2, <2>3
       DEF RecoveryInv, TypeOK, Rooted, MarkersStand, BackupsAreComplete, RestoresAreComplete,
           Finished
<1> QED BY <1>1, <1>2

(* What a migration that reached its target serves is the user's data. *)
LEMMA TargetHolds ==
  ASSUME NEW d \in Directory, NEW n, Safe(d, n), d.marker.kind # "None", TargetReached(d)
  PROVE  Holds(Effective(d), n) /\ Exists(d.main)
<1>1. Effective(d).kind = "Data" /\ Effective(d).schema > 0 /\ Effective(d).schema = d.marker.target
  BY DEF TargetReached, Safe
<1>2. Effective(d) = d.main \/ Effective(d) = d.wal
  BY <1>1, FileTypes DEF Effective
<1>3. Exists(d.main)
  BY <1>1, <1>2 DEF Safe, Exists
<1> QED BY <1>1, <1>2, <1>3 DEF Safe, Holds

LEMMA KeepFinishedMigrationKeeps ==
  ASSUME RecoveryInv, KeepFinishedMigration
  PROVE  RecoveryInv'
<1>1. /\ phase = "CheckTarget" /\ TargetReached(dir) /\ WriteDatabase(Effective(dir), Missing)
      /\ phase' = "ClearMarker" /\ then' = "Inspect" /\ UNCHANGED <<build, acked, faults>>
  BY DEF KeepFinishedMigration, At, GotoThen
<1>2. dir \in Directory /\ Safe(dir, acked) /\ dir.marker.kind # "None"
  BY <1>1, InvOfDir DEF RecoveryInv, MarkersStand
<1>3. Fits(Effective(dir), Missing, dir.marker, acked)
  BY <1>2, CheckpointKeeps
<1>4. /\ AllSafe' /\ Rooted' /\ dir'.marker = dir.marker
      /\ \A d \in survivors' : d.marker = dir'.marker
      /\ dir' = IF Exists(dir.main) THEN With(dir, Effective(dir), Missing) ELSE dir
  BY <1>1, <1>3, MarkedWriteKeepsSafe
<1>5. Whole(dir', acked)
  <2>1. Holds(Effective(dir), acked) /\ Exists(dir.main)
    BY <1>1, <1>2, TargetHolds
  <2>2. Effective(dir') = Effective(dir)
    BY <1>2, <1>4, <2>1, CheckpointKeeps
  <2> QED BY <2>1, <2>2 DEF Whole
<1> QED
  BY <1>1, <1>2, <1>4, <1>5
     DEF RecoveryInv, TypeOK, Rooted, MarkersStand, BackupsAreComplete, RestoresAreComplete,
         Finished

(* A failure under a standing marker closes the connection and goes on to *)
(* restore.                                                               *)
LEMMA RestoringKeeps ==
  ASSUME RecoveryInv, phase \in {"CheckTarget", "Create", "Migrate"},
         NEW c \in Closed(dir), WriteDatabase(c.main, c.wal),
         GotoThen(RestorePhase(dir), "Off"),
         faults' = faults \/ Fault
  PROVE  RecoveryInv'
<1>1. dir \in Directory /\ Safe(dir, acked) /\ dir.marker.kind # "None"
  BY InvOfDir DEF RecoveryInv, MarkersStand
<1>2. Fits(c.main, c.wal, dir.marker, acked)
  BY <1>1, ClosingKeeps
<1>3. acked' = acked /\ phase \in Marked
  BY DEF GotoThen
<1>4. /\ AllSafe' /\ Rooted' /\ dir'.marker = dir.marker
      /\ \A d \in survivors' : d.marker = dir'.marker
  BY <1>2, <1>3, MarkedWriteKeepsSafe
<1>5. /\ phase' = RestorePhase(dir) /\ then' = "Off" /\ UNCHANGED <<build, acked>>
      /\ faults' \in 0..MaxFaults
  BY BoundsAreNatural DEF GotoThen, Fault, RecoveryInv, TypeOK
<1> QED
  BY <1>1, <1>4, <1>5
     DEF RecoveryInv, TypeOK, Rooted, MarkersStand, BackupsAreComplete, RestoresAreComplete,
         Finished, RestorePhase

LEMMA UndoUnfinishedMigrationKeeps ==
  ASSUME RecoveryInv, UndoUnfinishedMigration
  PROVE  RecoveryInv'
BY RestoringKeeps DEF UndoUnfinishedMigration

LEMMA MigrationFailsKeeps ==
  ASSUME RecoveryInv, MigrationFails
  PROVE  RecoveryInv'
BY RestoringKeeps DEF MigrationFails

LEMMA CopyBackupKeeps ==
  ASSUME RecoveryInv, CopyBackup
  PROVE  RecoveryInv'
<1>1. CASE ~BackupValid(dir)
  BY <1>1
     DEF CopyBackup, At, Goto, RecoveryInv, TypeOK, AllSafe, MarkersStand,
         BackupsAreComplete, RestoresAreComplete, Finished
<1>2. CASE BackupValid(dir)
  <2>1. /\ phase = "CopyBackup" /\ phase' = "SyncCopy" /\ UNCHANGED <<then, build, acked, faults>>
        /\ dir' = [dir EXCEPT !.restore = Unsynced(dir.primary)]
        /\ survivors' = survivors \cup {dir'}
    BY <1>2 DEF CopyBackup, At, Goto, ChangeDirectory
  <2>2. dir \in Directory /\ Safe(dir, acked) /\ dir.marker.kind = "Backup"
    BY <2>1, InvOfDir DEF RecoveryInv, RestoresAreComplete
  <2>3. Unsynced(dir.primary) \in File /\ Holds(Unsynced(dir.primary), acked)
    BY <2>2, DirectoryFields DEF Safe, Holds, Unsynced, File
  <2>4. /\ dir' \in Directory /\ dir'.main = dir.main /\ dir'.wal = dir.wal
        /\ dir'.stale = dir.stale /\ dir'.marker = dir.marker /\ dir'.primary = dir.primary
        /\ dir'.restore = Unsynced(dir.primary)
    BY <2>1, <2>2, <2>3 DEF Directory
  <2>5. Safe(dir', acked)
    BY <2>2, <2>4, SafetyIsDecided
  <2>6. AllSafe' /\ Rooted'
    BY <2>1, <2>4, <2>5, ChangeKeepsSafe
  <2> QED
    BY <2>1, <2>2, <2>3, <2>4, <2>6
       DEF RecoveryInv, TypeOK, Rooted, MarkersStand, BackupsAreComplete, RestoresAreComplete,
           Finished
<1> QED BY <1>1, <1>2

(* Syncing a backup or a copy changes no root otherwise. *)
LEMMA SyncFileKeepsSafe ==
  ASSUME RecoveryInv, acked' = acked, NEW a \in {"partial", "restore"}, SyncFile(a)
  PROVE  /\ AllSafe' /\ Rooted' /\ dir'.marker = dir.marker /\ dir'.wal = dir.wal
         /\ dir'[a].synced /\ \A n : Holds(dir[a], n) => Holds(dir'[a], n)
         /\ \A e \in survivors' : \E d \in survivors : e.marker = d.marker
<1> DEFINE Written(d) == [d EXCEPT ![a].synced = TRUE]
<1>1. dir' = Written(dir) /\ survivors' = {Written(d) : d \in survivors}
  BY DEF SyncFile
<1>2. ASSUME NEW d \in survivors
      PROVE  /\ Written(d) \in Directory /\ Safe(Written(d), acked)
             /\ Written(d).marker = d.marker /\ Written(d).wal = d.wal
             /\ Written(d)[a].synced /\ \A n : Holds(d[a], n) => Holds(Written(d)[a], n)
  <2>1. d \in Directory /\ Safe(d, acked)
    BY DEF RecoveryInv, TypeOK, AllSafe
  <2>2. PICK f : f = [d[a] EXCEPT !.synced = TRUE]
    OBVIOUS
  <2>3. d[a] \in File
    BY <2>1, DirectoryFields
  <2>4. f \in File /\ f.synced /\ \A n : Holds(d[a], n) => Holds(f, n)
    BY <2>2, <2>3 DEF File, Holds
  <2>5. PICK e : e = Written(d)
    OBVIOUS
  <2>6. e = [d EXCEPT ![a] = f]
    BY <2>2, <2>5
  <2>7. /\ e \in Directory /\ e.main = d.main /\ e.wal = d.wal /\ e.stale = d.stale
        /\ e.marker = d.marker /\ e.primary = d.primary /\ e[a] = f
    BY <2>1, <2>4, <2>6 DEF Directory
  <2>8. Safe(e, acked)
    BY <2>1, <2>7, SafetyIsDecided
  <2> HIDE DEF Written
  <2> QED BY <2>4, <2>5, <2>7, <2>8
<1> HIDE DEF Written
<1>3. dir \in survivors
  BY DEF RecoveryInv, TypeOK
<1>4. \A e \in survivors' : \E d \in survivors : e = Written(d)
  BY <1>1
<1>5. AllSafe' /\ Rooted'
  BY <1>1, <1>2, <1>3, <1>4 DEF AllSafe, Rooted
<1>6. \A e \in survivors' : \E d \in survivors : e.marker = d.marker
  BY <1>2, <1>4
<1>7. /\ dir'.marker = dir.marker /\ dir'.wal = dir.wal
      /\ dir'[a].synced /\ \A n : Holds(dir[a], n) => Holds(dir'[a], n)
  BY <1>1, <1>2, <1>3
<1> QED BY <1>5, <1>6, <1>7

LEMMA SyncCopyKeeps ==
  ASSUME RecoveryInv, SyncCopy
  PROVE  RecoveryInv'
<1>1. /\ phase = "SyncCopy" /\ phase' = "DropWal" /\ UNCHANGED <<then, build, acked, faults>>
      /\ SyncFile("restore")
  BY DEF SyncCopy, At, Goto
<1>2. /\ AllSafe' /\ Rooted' /\ dir'.marker = dir.marker
      /\ dir'.restore.synced /\ \A n : Holds(dir.restore, n) => Holds(dir'.restore, n)
      /\ \A e \in survivors' : \E d \in survivors : e.marker = d.marker
  BY <1>1, SyncFileKeepsSafe
<1>3. \A e \in survivors' : e.marker = dir'.marker
  BY <1>1, <1>2 DEF RecoveryInv, MarkersStand
<1> QED
  BY <1>1, <1>2, <1>3
     DEF RecoveryInv, TypeOK, Rooted, MarkersStand, BackupsAreComplete, RestoresAreComplete,
         Finished

LEMMA TruncateWalKeeps ==
  ASSUME RecoveryInv, TruncateWal
  PROVE  RecoveryInv'
<1>1. /\ phase = "DropWal" /\ phase' = "DropWal" /\ UNCHANGED <<then, build, acked, faults>>
      /\ dir.wal.kind = "Data"
  BY DEF TruncateWal, At, Goto
<1>2. PICK main \in {dir.main, Torn} : WriteDatabase(main, Blank)
  BY DEF TruncateWal
<1>3. dir \in Directory /\ Safe(dir, acked) /\ dir.marker.kind # "None"
  BY <1>1, InvOfDir DEF RecoveryInv, MarkersStand
<1>4. Fits(main, Blank, dir.marker, acked)
  BY <1>1, <1>3, DirectoryFields, FileTypes DEF Fits, Safe
<1>5. /\ AllSafe' /\ Rooted' /\ dir'.marker = dir.marker
      /\ \A d \in survivors' : d.marker = dir'.marker
      /\ dir' = IF Exists(dir.main) THEN With(dir, main, Blank) ELSE dir
  BY <1>1, <1>2, <1>4, MarkedWriteKeepsSafe
<1>6. dir'.restore = dir.restore
  BY <1>3, <1>4, <1>5, WithFields DEF Fits
<1> QED
  BY <1>1, <1>3, <1>5, <1>6
     DEF RecoveryInv, TypeOK, Rooted, MarkersStand, BackupsAreComplete, RestoresAreComplete,
         Finished

LEMMA UnlinkWalKeeps ==
  ASSUME RecoveryInv, UnlinkWal
  PROVE  RecoveryInv'
<1>1. /\ phase = "DropWal" /\ phase' = "DropWal" /\ UNCHANGED <<then, build, acked, faults>>
      /\ dir' = [dir EXCEPT !.wal = Missing] /\ survivors' = {dir'}
  BY DEF UnlinkWal, At, Goto, ChangeAndSync
<1>2. dir \in Directory /\ Safe(dir, acked) /\ dir.marker.kind # "None"
  BY <1>1, InvOfDir DEF RecoveryInv, MarkersStand
<1>3. /\ dir' \in Directory /\ dir'.main = dir.main /\ dir'.wal = Missing
      /\ dir'.stale = dir.stale /\ dir'.marker = dir.marker /\ dir'.primary = dir.primary
      /\ dir'.restore = dir.restore
  BY <1>1, <1>2, FileTypes DEF Directory
<1>4. Safe(dir', acked)
  BY <1>2, <1>3, FileTypes DEF Safe
<1>5. AllSafe' /\ Rooted'
  BY <1>1, <1>3, <1>4, ChangeKeepsSafe
<1> QED
  BY <1>1, <1>2, <1>3, <1>5
     DEF RecoveryInv, TypeOK, Rooted, MarkersStand, BackupsAreComplete, RestoresAreComplete,
         Finished

LEMMA TruncateMainKeeps ==
  ASSUME RecoveryInv, TruncateMain
  PROVE  RecoveryInv'
<1>1. /\ phase \in {"DropWal", "DropMain"} /\ phase' = "DropMain"
      /\ UNCHANGED <<then, build, acked, faults>>
      /\ dir.wal.kind = "Missing" /\ WriteDatabase(Blank, dir.wal)
  BY DEF TruncateMain, At, Goto, RecoveryInv, RestoresAreComplete
<1>2. dir \in Directory /\ Safe(dir, acked) /\ dir.marker.kind # "None"
  BY <1>1, InvOfDir DEF RecoveryInv, MarkersStand
<1>3. Fits(Blank, dir.wal, dir.marker, acked)
  BY <1>1, <1>2, DirectoryFields, FileTypes DEF Fits, Safe
<1>4. /\ AllSafe' /\ Rooted' /\ dir'.marker = dir.marker
      /\ \A d \in survivors' : d.marker = dir'.marker
      /\ dir' = IF Exists(dir.main) THEN With(dir, Blank, dir.wal) ELSE dir
  BY <1>1, <1>3, MarkedWriteKeepsSafe
<1>5. dir'.restore = dir.restore /\ dir'.wal = dir.wal
  BY <1>2, <1>3, <1>4, WithFields DEF Fits
<1> QED
  BY <1>1, <1>2, <1>4, <1>5
     DEF RecoveryInv, TypeOK, Rooted, MarkersStand, BackupsAreComplete, RestoresAreComplete,
         Finished

LEMMA UnlinkMainKeeps ==
  ASSUME RecoveryInv, UnlinkMain
  PROVE  RecoveryInv'
<1>1. /\ phase \in {"DropWal", "DropMain"} /\ UNCHANGED <<then, build, acked, faults>>
      /\ phase' = IF dir.marker.kind = "Backup" THEN "PlaceCopy" ELSE "ClearMarker"
      /\ dir' = [dir EXCEPT !.main = Missing] /\ survivors' = {dir'}
      /\ dir.wal.kind = "Missing"
  BY DEF UnlinkMain, At, Goto, ChangeAndSync, RecoveryInv, RestoresAreComplete
<1>2. /\ dir \in Directory /\ Safe(dir, acked) /\ dir.marker.kind # "None" /\ then = "Off"
      /\ dir.marker.kind \in {"None", "Fresh", "Backup"}
  BY <1>1, InvOfDir, DirectoryFields DEF RecoveryInv, MarkersStand, Marker
<1>3. /\ dir' \in Directory /\ dir'.main = Missing /\ dir'.wal = dir.wal
      /\ dir'.stale = dir.stale /\ dir'.marker = dir.marker /\ dir'.primary = dir.primary
      /\ dir'.restore = dir.restore
  BY <1>1, <1>2, FileTypes DEF Directory
<1>4. Safe(dir', acked)
  BY <1>1, <1>2, <1>3, FileTypes DEF Safe
<1>5. AllSafe' /\ Rooted'
  BY <1>1, <1>3, <1>4, ChangeKeepsSafe
<1>6. dir.marker.kind = "Fresh" => Whole(dir', acked)
  BY <1>1, <1>2, <1>3, FileTypes DEF Safe, Whole, Effective
<1> QED
  BY <1>1, <1>2, <1>3, <1>5, <1>6
     DEF RecoveryInv, TypeOK, Rooted, MarkersStand, BackupsAreComplete, RestoresAreComplete,
         Finished

LEMMA PlaceCopyKeeps ==
  ASSUME RecoveryInv, PlaceCopy
  PROVE  RecoveryInv'
<1>1. /\ phase = "PlaceCopy" /\ phase' = "SyncPlaced" /\ UNCHANGED <<then, build, acked, faults>>
      /\ dir.wal.kind = "Missing" /\ dir.marker.kind = "Backup"
      /\ Holds(dir.restore, acked) /\ dir.restore.synced
      /\ survivors' = survivors \cup {dir'}
  BY DEF PlaceCopy, At, Goto, ChangeDirectory, RecoveryInv, RestoresAreComplete
<1>2. dir \in Directory /\ Safe(dir, acked)
  BY InvOfDir
<1>3. dir' = [dir EXCEPT !.main = dir.restore, !.restore = Missing, !.stale = FALSE]
  BY <1>1 DEF PlaceCopy, ChangeDirectory
<1>4. /\ dir' \in Directory /\ dir'.main = dir.restore /\ dir'.wal = dir.wal
      /\ dir'.stale = FALSE /\ dir'.marker = dir.marker /\ dir'.primary = dir.primary
  BY <1>2, <1>3, FileTypes, DirectoryFields DEF Directory
<1>5. Safe(dir', acked)
  BY <1>1, <1>2, <1>4, FileTypes DEF Safe, Holds
<1>6. AllSafe' /\ Rooted'
  BY <1>1, <1>4, <1>5, ChangeKeepsSafe
<1>7. Whole(dir', acked)
  BY <1>1, <1>4 DEF Whole, Holds, Effective
<1>8. \A d \in survivors' : d.marker = dir'.marker
  BY <1>1, <1>4 DEF RecoveryInv, MarkersStand
<1> QED
  BY <1>1, <1>4, <1>6, <1>7, <1>8
     DEF RecoveryInv, TypeOK, Rooted, MarkersStand, BackupsAreComplete, RestoresAreComplete,
         Finished

LEMMA SyncPlacedKeeps ==
  ASSUME RecoveryInv, SyncPlaced
  PROVE  RecoveryInv'
<1>1. /\ phase = "SyncPlaced" /\ phase' = "ClearMarker"
      /\ UNCHANGED <<dir, then, build, acked, faults>> /\ survivors' = {dir'}
  BY DEF SyncPlaced, At, Goto, ChangeAndSync
<1>2. AllSafe' /\ Rooted'
  BY <1>1, InvOfDir, ChangeKeepsSafe
<1> QED
  BY <1>1, <1>2
     DEF RecoveryInv, TypeOK, Rooted, MarkersStand, BackupsAreComplete, RestoresAreComplete,
         Finished

LEMMA ClearMarkerKeeps ==
  ASSUME RecoveryInv, ClearMarker
  PROVE  RecoveryInv'
<1>1. /\ phase = "ClearMarker" /\ phase' = "SyncCleared"
      /\ UNCHANGED <<then, build, acked, faults>>
      /\ dir' = [dir EXCEPT !.marker = NoMarker] /\ survivors' = survivors \cup {dir'}
  BY DEF ClearMarker, At, Goto, ChangeDirectory
<1>2. dir \in Directory /\ Safe(dir, acked) /\ Whole(dir, acked)
  BY <1>1, InvOfDir DEF RecoveryInv, RestoresAreComplete
<1>3. /\ dir' \in Directory /\ dir'.main = dir.main /\ dir'.wal = dir.wal
      /\ dir'.stale = dir.stale /\ dir'.marker = NoMarker
  BY <1>1, <1>2, FileTypes DEF Directory
<1>4. Effective(dir') = Effective(dir)
  BY <1>3 DEF Effective
<1>5. Safe(dir', acked)
  BY <1>2, <1>3, <1>4, FileTypes DEF Safe, Whole
<1>6. AllSafe' /\ Rooted'
  BY <1>1, <1>3, <1>5, ChangeKeepsSafe
<1> QED
  BY <1>1, <1>3, <1>4, <1>6, FileTypes
     DEF RecoveryInv, TypeOK, Rooted, MarkersStand, BackupsAreComplete, RestoresAreComplete,
         Finished

LEMMA SyncClearedKeeps ==
  ASSUME RecoveryInv, SyncCleared
  PROVE  RecoveryInv'
<1>1. /\ phase = "SyncCleared" /\ phase' = then
      /\ UNCHANGED <<dir, then, build, acked, faults>> /\ survivors' = {dir'}
  BY DEF SyncCleared, At, Goto, ChangeAndSync
<1>2. AllSafe' /\ Rooted'
  BY <1>1, InvOfDir, ChangeKeepsSafe
<1> QED
  BY <1>1, <1>2
     DEF RecoveryInv, TypeOK, Rooted, MarkersStand, BackupsAreComplete, RestoresAreComplete,
         Finished

------------------------------------------------------------
(* The upgrade, and the application. *)

LEMMA InspectKeeps ==
  ASSUME RecoveryInv, Inspect
  PROVE  RecoveryInv'
<1>1. CASE Orphaned(dir)
  BY <1>1
     DEF Inspect, At, Goto, RecoveryInv, TypeOK, AllSafe, MarkersStand,
         BackupsAreComplete, RestoresAreComplete, Finished
<1>2. CASE ~Orphaned(dir)
  <2>1. /\ phase = "Inspect" /\ UNCHANGED <<then, build, acked, faults>>
        /\ phase' = IF Exists(dir.main) THEN "Open" ELSE "PublishMarker"
        /\ dir' = WithoutPartials(dir) /\ survivors' = {dir'}
    BY <1>2 DEF Inspect, At, Goto, ChangeAndSync
  <2>2. dir \in Directory /\ Safe(dir, acked) /\ dir.marker.kind = "None"
    BY <2>1, InvOfDir DEF RecoveryInv, MarkersStand
  <2>3. /\ dir' \in Directory /\ Safe(dir', acked)
        /\ dir'.marker = dir.marker /\ dir'.main = dir.main
    BY <2>1, <2>2, CleanedRoot
  <2>4. AllSafe' /\ Rooted'
    BY <2>1, <2>3, ChangeKeepsSafe
  <2>5. ~Exists(dir'.main) => dir'.wal.kind = "Missing"
    BY <2>3 DEF Safe, Exists
  <2> QED
    BY <2>1, <2>2, <2>3, <2>4, <2>5
       DEF RecoveryInv, TypeOK, Rooted, MarkersStand, BackupsAreComplete, RestoresAreComplete,
           Finished
<1> QED BY <1>1, <1>2

(* A connection closed over the only root there is *)
LEMMA ClosingAloneKeeps ==
  ASSUME RecoveryInv, phase \in {"Open", "Ready"},
         NEW c \in Closed(dir), WriteDatabase(c.main, c.wal), Goto("Off"), faults' = faults
  PROVE  RecoveryInv'
<1>1. dir \in Directory /\ Safe(dir, acked) /\ survivors = {dir}
  BY InvOfDir DEF RecoveryInv, MarkersStand
<1>2. phase' = "Off" /\ UNCHANGED <<then, build, acked>>
  BY DEF Goto
<1>3. /\ dir' = IF Exists(dir.main) THEN With(dir, c.main, c.wal) ELSE dir
      /\ survivors' = {dir'}
  BY <1>1, SoleWrite
<1>4. dir' \in Directory /\ Safe(dir', acked)
  BY <1>1, <1>3, ClosingKeeps
<1>5. AllSafe' /\ Rooted'
  BY <1>2, <1>3, <1>4, ChangeKeepsSafe
<1> QED
  BY <1>2, <1>5
     DEF RecoveryInv, TypeOK, Rooted, MarkersStand, BackupsAreComplete, RestoresAreComplete,
         Finished

LEMMA RefuseDatabaseKeeps ==
  ASSUME RecoveryInv, RefuseDatabase
  PROVE  RecoveryInv'
BY ClosingAloneKeeps DEF RefuseDatabase, At

LEMMA CloseKeeps ==
  ASSUME RecoveryInv, Close
  PROVE  RecoveryInv'
BY ClosingAloneKeeps DEF Close, At

LEMMA OpenCurrentKeeps ==
  ASSUME RecoveryInv, OpenCurrent
  PROVE  RecoveryInv'
<1>1. /\ phase = "Open" /\ phase' = "Ready" /\ UNCHANGED <<then, build, acked, faults>>
      /\ Effective(dir).kind = "Data" /\ Effective(dir).schema = build
      /\ WriteDatabase(Effective(dir), Missing)
  BY DEF OpenCurrent, At, Goto
<1>2. /\ dir \in Directory /\ Safe(dir, acked) /\ survivors = {dir} /\ dir.marker.kind = "None"
  BY <1>1, InvOfDir DEF RecoveryInv, MarkersStand
<1>3. /\ dir' = IF Exists(dir.main) THEN With(dir, Effective(dir), Missing) ELSE dir
      /\ survivors' = {dir'}
  BY <1>1, <1>2, SoleWrite
<1>4. PICK e : e = With(dir, Effective(dir), Missing)
  OBVIOUS
<1>5. Effective(dir) \in File /\ Missing \in File
  BY <1>2, EffectiveIsFile, FileTypes
<1>6. /\ e \in Directory /\ Safe(e, acked) /\ Effective(e) = Effective(dir)
      /\ e.marker = dir.marker
  BY <1>2, <1>4, <1>5, CheckpointKeeps, WithFields
<1>7. /\ dir' \in Directory /\ Safe(dir', acked) /\ Effective(dir') = Effective(dir)
      /\ dir'.marker = dir.marker
  BY <1>2, <1>3, <1>4, <1>6
<1>8. AllSafe' /\ Rooted'
  BY <1>1, <1>3, <1>7, ChangeKeepsSafe
<1> QED
  BY <1>1, <1>2, <1>3, <1>7, <1>8
     DEF RecoveryInv, TypeOK, Rooted, MarkersStand, BackupsAreComplete, RestoresAreComplete,
         Finished

LEMMA CreateBackupKeeps ==
  ASSUME RecoveryInv, CreateBackup
  PROVE  RecoveryInv'
<1>1. /\ phase = "Open" /\ phase' = "SyncBackup" /\ UNCHANGED <<then, build, acked, faults>>
      /\ Effective(dir).kind = "Data"
      /\ dir' = [Checkpointed(dir) EXCEPT !.partial = Unsynced(Effective(dir))]
      /\ survivors' = survivors \cup {dir'}
  BY DEF CreateBackup, At, Goto, ChangeDirectory
<1>2. dir \in Directory /\ Safe(dir, acked) /\ dir.marker.kind = "None"
  BY <1>1, InvOfDir DEF RecoveryInv, MarkersStand
<1>3. PICK e : e = With(dir, Effective(dir), Missing)
  OBVIOUS
<1>4. Effective(dir) \in File /\ Missing \in File
  BY <1>2, EffectiveIsFile, FileTypes
<1>5. e \in Directory /\ Safe(e, acked) /\ e.marker = dir.marker /\ e.wal = Missing
  BY <1>2, <1>3, <1>4, CheckpointKeeps, WithFields
<1>6. PICK f : f = Unsynced(Effective(dir))
  OBVIOUS
<1>7. f \in File /\ Holds(f, acked)
  <2>1. Holds(Effective(dir), acked)
    BY <1>1, <1>2, WholeHolds
  <2> QED BY <1>4, <1>6, <2>1 DEF Unsynced, File, Holds
<1>8. dir' = [e EXCEPT !.partial = f]
  BY <1>1, <1>3, <1>6 DEF Checkpointed, With
<1>9. /\ dir' \in Directory /\ dir'.main = e.main /\ dir'.wal = e.wal
      /\ dir'.stale = e.stale /\ dir'.marker = e.marker /\ dir'.primary = e.primary
      /\ dir'.partial = f
  BY <1>5, <1>7, <1>8 DEF Directory
<1>10. Safe(dir', acked)
  BY <1>5, <1>9, SafetyIsDecided
<1>11. AllSafe' /\ Rooted'
  BY <1>1, <1>9, <1>10, ChangeKeepsSafe
<1> QED
  BY <1>1, <1>2, <1>5, <1>7, <1>9, <1>11, FileTypes
     DEF RecoveryInv, TypeOK, Rooted, MarkersStand, BackupsAreComplete, RestoresAreComplete,
         Finished

LEMMA SyncBackupKeeps ==
  ASSUME RecoveryInv, SyncBackup
  PROVE  RecoveryInv'
<1>1. /\ phase = "SyncBackup" /\ phase' = "KeepPrevious" /\ UNCHANGED <<then, build, acked, faults>>
      /\ SyncFile("partial")
  BY DEF SyncBackup, At, Goto
<1>2. /\ AllSafe' /\ Rooted' /\ dir'.marker = dir.marker /\ dir'.wal = dir.wal
      /\ dir'.partial.synced /\ \A n : Holds(dir.partial, n) => Holds(dir'.partial, n)
  BY <1>1, SyncFileKeepsSafe
<1> QED
  BY <1>1, <1>2
     DEF RecoveryInv, TypeOK, Rooted, MarkersStand, BackupsAreComplete, RestoresAreComplete,
         Finished

LEMMA KeepPreviousKeeps ==
  ASSUME RecoveryInv, KeepPrevious
  PROVE  RecoveryInv'
<1>1. /\ phase = "KeepPrevious" /\ phase' = "PublishBackup"
      /\ UNCHANGED <<then, build, acked, faults>> /\ survivors' = survivors \cup {dir'}
      /\ dir' = IF Exists(dir.primary)
                THEN [dir EXCEPT !.previous = dir.primary, !.primary = Missing] ELSE dir
  BY DEF KeepPrevious, At, Goto, ChangeDirectory
<1>2. dir \in Directory /\ Safe(dir, acked) /\ dir.marker.kind = "None"
  BY <1>1, InvOfDir DEF RecoveryInv, MarkersStand
<1>3. /\ dir' \in Directory /\ dir'.main = dir.main /\ dir'.wal = dir.wal
      /\ dir'.stale = dir.stale /\ dir'.marker = dir.marker /\ dir'.partial = dir.partial
  BY <1>1, <1>2, FileTypes, DirectoryFields DEF Directory
<1>4. Safe(dir', acked)
  BY <1>2, <1>3, SafetyIsDecided
<1>5. AllSafe' /\ Rooted'
  BY <1>1, <1>3, <1>4, ChangeKeepsSafe
<1> QED
  BY <1>1, <1>2, <1>3, <1>5
     DEF RecoveryInv, TypeOK, Rooted, MarkersStand, BackupsAreComplete, RestoresAreComplete,
         Finished

LEMMA PublishBackupKeeps ==
  ASSUME RecoveryInv, PublishBackup
  PROVE  RecoveryInv'
<1>1. /\ phase = "PublishBackup" /\ phase' = "SyncBackupRoot"
      /\ UNCHANGED <<then, build, acked, faults>> /\ survivors' = survivors \cup {dir'}
      /\ dir' = [dir EXCEPT !.primary = dir.partial, !.partial = Missing]
  BY DEF PublishBackup, At, Goto, ChangeDirectory
<1>2. dir \in Directory /\ Safe(dir, acked) /\ dir.marker.kind = "None"
  BY <1>1, InvOfDir DEF RecoveryInv, MarkersStand
<1>3. /\ dir' \in Directory /\ dir'.main = dir.main /\ dir'.wal = dir.wal
      /\ dir'.stale = dir.stale /\ dir'.marker = dir.marker /\ dir'.primary = dir.partial
  BY <1>1, <1>2, FileTypes, DirectoryFields DEF Directory
<1>4. Safe(dir', acked)
  BY <1>2, <1>3, SafetyIsDecided
<1>5. AllSafe' /\ Rooted'
  BY <1>1, <1>3, <1>4, ChangeKeepsSafe
<1> QED
  BY <1>1, <1>2, <1>3, <1>5
     DEF RecoveryInv, TypeOK, Rooted, MarkersStand, BackupsAreComplete, RestoresAreComplete,
         Finished

LEMMA SyncBackupRootKeeps ==
  ASSUME RecoveryInv, SyncBackupRoot
  PROVE  RecoveryInv'
<1>1. /\ phase = "SyncBackupRoot" /\ phase' = "PublishMarker"
      /\ UNCHANGED <<dir, then, build, acked, faults>> /\ survivors' = {dir'}
  BY DEF SyncBackupRoot, At, Goto, ChangeAndSync
<1>2. AllSafe' /\ Rooted'
  BY <1>1, InvOfDir, ChangeKeepsSafe
<1> QED
  BY <1>1, <1>2
     DEF RecoveryInv, TypeOK, Rooted, MarkersStand, BackupsAreComplete, RestoresAreComplete,
         Finished

(* The marker names a target above zero, and a backup that is complete. *)
LEMMA PublishMarkerKeeps ==
  ASSUME RecoveryInv, PublishMarker
  PROVE  RecoveryInv'
<1>1. /\ phase = "PublishMarker" /\ phase' = "SyncMarker"
      /\ UNCHANGED <<then, build, acked, faults>> /\ survivors' = survivors \cup {dir'}
  BY DEF PublishMarker, At, Goto, ChangeDirectory
<1>2. /\ dir \in Directory /\ Safe(dir, acked) /\ dir.marker.kind = "None"
      /\ dir.wal.kind = "Missing" /\ build \in 1..Latest
      /\ Exists(dir.main) => Holds(dir.primary, acked) /\ dir.primary.synced
  BY <1>1, InvOfDir, BuildsAreManifests
     DEF RecoveryInv, TypeOK, MarkersStand, BackupsAreComplete
<1>3. PICK m : m = IF Exists(dir.main) THEN BackupMarker(dir.primary, build)
                                      ELSE FreshMarker(build)
  OBVIOUS
<1>4. /\ m \in Marker /\ m.target = build
      /\ m.kind = IF Exists(dir.main) THEN "Backup" ELSE "Fresh"
  <2>1. dir.primary \in File /\ Missing \in File /\ dir.primary.schema \in Schema /\ build \in Schema
        /\ 0 \in Schema
    BY <1>2, DirectoryFields, FileTypes, LatestIsPositive DEF File, Schema
  <2> QED BY <1>3, <2>1 DEF Marker, BackupMarker, FreshMarker
<1>5. dir' = [dir EXCEPT !.marker = m]
  BY <1>3 DEF PublishMarker, ChangeDirectory
<1>6. /\ dir' \in Directory /\ dir'.main = dir.main /\ dir'.wal = dir.wal
      /\ dir'.stale = dir.stale /\ dir'.marker = m /\ dir'.primary = dir.primary
  BY <1>2, <1>4, <1>5 DEF Directory
<1>7. Effective(dir') = Effective(dir) /\ Whole(dir', acked)
  BY <1>2, <1>6 DEF Effective, Safe, Whole
<1>8. Safe(dir', acked)
  <2>1. ~Exists(dir.main) => acked = 0
    BY <1>2, WholeHolds
  <2>2. dir.main.kind = "Data" => dir.main.rows = acked
    BY <1>2 DEF Safe, Whole, Holds, Effective
  <2>3. build > 0 /\ m.target > 0
    BY <1>2, <1>4, LatestIsPositive
  <2> QED BY <1>2, <1>4, <1>6, <2>1, <2>2, <2>3 DEF Safe
<1>9. AllSafe' /\ Rooted'
  BY <1>1, <1>6, <1>8, ChangeKeepsSafe
<1> QED
  BY <1>1, <1>2, <1>4, <1>6, <1>7, <1>9
     DEF RecoveryInv, TypeOK, Rooted, MarkersStand, BackupsAreComplete, RestoresAreComplete,
         Finished

LEMMA SyncMarkerKeeps ==
  ASSUME RecoveryInv, SyncMarker
  PROVE  RecoveryInv'
<1>1. /\ phase = "SyncMarker" /\ phase' = IF Exists(dir.main) THEN "Migrate" ELSE "Create"
      /\ UNCHANGED <<dir, then, build, acked, faults>> /\ survivors' = {dir'}
  BY DEF SyncMarker, At, Goto, ChangeAndSync, AfterMarker
<1>2. /\ dir \in Directory /\ Safe(dir, acked) /\ Whole(dir, acked) /\ dir.wal.kind = "Missing"
      /\ dir.marker.kind # "None"
  BY <1>1, InvOfDir DEF RecoveryInv, BackupsAreComplete, MarkersStand
<1>3. AllSafe' /\ Rooted'
  BY <1>1, InvOfDir, ChangeKeepsSafe
<1>4. IF Exists(dir.main) THEN Holds(Effective(dir), acked) ELSE acked = 0
  BY <1>2, FileTypes DEF Whole, Holds, Effective, Exists, Safe
<1> QED
  BY <1>1, <1>2, <1>3, <1>4
     DEF RecoveryInv, TypeOK, Rooted, MarkersStand, BackupsAreComplete, RestoresAreComplete,
         Finished

LEMMA CreateDatabaseKeeps ==
  ASSUME RecoveryInv, CreateDatabase
  PROVE  RecoveryInv'
<1>1. /\ phase = "Create" /\ phase' = "Migrate" /\ UNCHANGED <<then, build, acked, faults>>
      /\ dir' = [dir EXCEPT !.main = Data(0, 0)] /\ survivors' = survivors \cup {dir'}
  BY DEF CreateDatabase, At, Goto, ChangeDirectory
<1>2. /\ dir \in Directory /\ Safe(dir, acked) /\ dir.marker.kind # "None"
      /\ acked = 0 /\ dir.wal.kind = "Missing"
  BY <1>1, InvOfDir DEF RecoveryInv, MarkersStand, BackupsAreComplete
<1>3. /\ dir' \in Directory /\ dir'.main = Data(0, 0) /\ dir'.wal = dir.wal
      /\ dir'.stale = dir.stale /\ dir'.marker = dir.marker /\ dir'.primary = dir.primary
  BY <1>1, <1>2, FileTypes DEF Directory
<1>4. Safe(dir', acked)
  BY <1>2, <1>3, FileTypes DEF Safe
<1>5. AllSafe' /\ Rooted'
  BY <1>1, <1>3, <1>4, ChangeKeepsSafe
<1>6. Holds(Effective(dir'), acked)
  BY <1>2, <1>3, FileTypes DEF Effective, Safe, Holds
<1>7. \A d \in survivors' : d.marker = dir'.marker
  BY <1>1, <1>3 DEF RecoveryInv, MarkersStand
<1> QED
  BY <1>1, <1>2, <1>3, <1>5, <1>6, <1>7
     DEF RecoveryInv, TypeOK, Rooted, MarkersStand, BackupsAreComplete, RestoresAreComplete,
         Finished

LEMMA MigrateKeeps ==
  ASSUME RecoveryInv, Migrate
  PROVE  RecoveryInv'
<1>1. /\ phase = "Migrate" /\ phase' = "Migrate" /\ UNCHANGED <<then, build, acked, faults>>
      /\ Effective(dir).schema < build
      /\ WriteDatabase(dir.main, [Effective(dir) EXCEPT !.schema = @ + 1])
  BY DEF Migrate, At, Goto
<1>2. /\ dir \in Directory /\ Safe(dir, acked) /\ dir.marker.kind # "None"
      /\ Holds(Effective(dir), acked) /\ build \in 1..Latest
  BY <1>1, InvOfDir, BuildsAreManifests
     DEF RecoveryInv, TypeOK, MarkersStand, BackupsAreComplete
<1>3. PICK w : w = [Effective(dir) EXCEPT !.schema = Effective(dir).schema + 1]
  OBVIOUS
<1>4. w \in File /\ w.synced /\ Holds(w, acked)
  <2>1. Effective(dir) \in File /\ Effective(dir).synced
    BY <1>2, EffectiveIsFile DEF Safe
  <2>2. Effective(dir).schema + 1 \in Schema
    BY <1>1, <1>2, <2>1, LatestIsPositive DEF File, Schema
  <2> QED BY <1>2, <1>3, <2>1, <2>2 DEF File, Holds
<1>5. Exists(dir.main)
  BY <1>2 DEF Safe, Effective, Exists, Holds
<1>6. dir.main \in File /\ Fits(dir.main, w, dir.marker, acked)
  BY <1>2, <1>4, <1>5, DirectoryFields DEF Fits, Safe, Holds, Exists
<1>7. /\ AllSafe' /\ Rooted' /\ dir'.marker = dir.marker
      /\ \A d \in survivors' : d.marker = dir'.marker
      /\ dir' = With(dir, dir.main, w)
  BY <1>1, <1>3, <1>5, <1>6, MarkedWriteKeepsSafe
<1>8. dir'.wal = w /\ dir'.stale = dir.stale
  BY <1>2, <1>4, <1>6, <1>7, WithFields
<1>9. Holds(Effective(dir'), acked)
  BY <1>2, <1>4, <1>8 DEF Safe, Holds, Effective
<1> QED
  BY <1>1, <1>2, <1>7, <1>9
     DEF RecoveryInv, TypeOK, Rooted, MarkersStand, BackupsAreComplete, RestoresAreComplete,
         Finished

LEMMA FinishMigrationKeeps ==
  ASSUME RecoveryInv, FinishMigration
  PROVE  RecoveryInv'
<1>1. /\ phase = "Migrate" /\ Effective(dir).schema = build
      /\ WriteDatabase(Effective(dir), Missing)
      /\ phase' = "ClearMarker" /\ then' = "Ready" /\ UNCHANGED <<build, acked, faults>>
  BY DEF FinishMigration, At, GotoThen
<1>2. /\ dir \in Directory /\ Safe(dir, acked) /\ dir.marker.kind # "None"
      /\ Holds(Effective(dir), acked)
  BY <1>1, InvOfDir DEF RecoveryInv, MarkersStand, BackupsAreComplete
<1>3. Fits(Effective(dir), Missing, dir.marker, acked)
  BY <1>2, CheckpointKeeps
<1>4. /\ AllSafe' /\ Rooted' /\ dir'.marker = dir.marker
      /\ \A d \in survivors' : d.marker = dir'.marker
      /\ dir' = IF Exists(dir.main) THEN With(dir, Effective(dir), Missing) ELSE dir
  BY <1>1, <1>3, MarkedWriteKeepsSafe
<1>5. Effective(dir') = Effective(dir)
  BY <1>2, <1>4, CheckpointKeeps
<1> QED
  BY <1>1, <1>2, <1>4, <1>5
     DEF RecoveryInv, TypeOK, Rooted, MarkersStand, BackupsAreComplete, RestoresAreComplete,
         Finished, Whole, Holds

LEMMA WriteKeeps ==
  ASSUME RecoveryInv, Write
  PROVE  RecoveryInv'
<1>1. /\ phase = "Ready" /\ UNCHANGED <<phase, then, build, faults>>
      /\ acked < MaxWrites /\ acked' = acked + 1
      /\ WriteDatabase(dir.main, [Effective(dir) EXCEPT !.rows = @ + 1])
  BY DEF Write, At
<1>2. /\ dir \in Directory /\ Safe(dir, acked) /\ dir.marker.kind = "None"
      /\ survivors = {dir} /\ acked \in 0..MaxWrites
      /\ Effective(dir).kind = "Data" /\ Effective(dir).schema = build
  BY <1>1, InvOfDir DEF RecoveryInv, TypeOK, MarkersStand, Finished
<1>3. Holds(Effective(dir), acked) /\ Exists(dir.main)
  BY <1>2, WholeHolds DEF Safe, Effective, Exists
<1>4. PICK w : w = [Effective(dir) EXCEPT !.rows = Effective(dir).rows + 1]
  OBVIOUS
<1>5. w \in File /\ w.synced /\ Holds(w, acked + 1) /\ w.schema = build
  <2>1. Effective(dir) \in File /\ Effective(dir).synced
    BY <1>2, EffectiveIsFile DEF Safe
  <2>2. Effective(dir).rows + 1 \in 0..MaxWrites
    BY <1>1, <1>2, <1>3, BoundsAreNatural DEF Holds
  <2> QED BY <1>2, <1>3, <1>4, <2>1, <2>2 DEF File, Holds
<1>6. dir' = With(dir, dir.main, w) /\ survivors' = {dir'}
  BY <1>1, <1>2, <1>3, <1>4, SoleWrite
<1>7. dir.main \in File
  BY <1>2, DirectoryFields
<1>8. /\ dir' \in Directory /\ dir'.main = dir.main /\ dir'.wal = w
      /\ dir'.stale = dir.stale /\ dir'.marker = dir.marker
  BY <1>2, <1>5, <1>6, <1>7, WithFields
<1>9. Effective(dir') = w
  BY <1>2, <1>5, <1>8 DEF Safe, Holds, Effective
<1>10. Safe(dir', acked')
  <2>1. Whole(dir', acked')
    BY <1>1, <1>5, <1>9 DEF Whole
  <2> QED BY <1>2, <1>3, <1>5, <1>8, <2>1 DEF Safe, Exists
<1>11. AllSafe' /\ Rooted'
  BY <1>6, <1>8, <1>10 DEF AllSafe, Rooted
<1>12. acked' \in 0..MaxWrites
  BY <1>1, <1>2, BoundsAreNatural
<1> QED
  BY <1>1, <1>2, <1>5, <1>6, <1>8, <1>9, <1>11, <1>12
     DEF RecoveryInv, TypeOK, Rooted, MarkersStand, BackupsAreComplete, RestoresAreComplete,
         Finished, Holds

------------------------------------------------------------
(* The theorems. *)

LEMMA InitRecovers == Init => RecoveryInv
<1> SUFFICES ASSUME Init PROVE RecoveryInv
  OBVIOUS
<1>1. PICK f \in {Missing, Data(0, 0)} \cup {Data(s, 1) : s \in Schema \ {0}} :
        dir = [EmptyDirectory EXCEPT !.main = f] /\ acked = f.rows
  BY DEF Init
<1>2. /\ f \in File /\ f.synced /\ f.rows \in 0..MaxWrites
      /\ f.kind = "Data" \/ (f.kind = "Missing" /\ f.rows = 0)
  <2>1. f \in {Missing, Data(0, 0)} \/ \E s \in Schema \ {0} : f = Data(s, 1)
    BY <1>1
  <2>2. ASSUME NEW s \in Schema
        PROVE  /\ Data(s, 1) \in File /\ Data(s, 1).synced
               /\ Data(s, 1).rows \in 0..MaxWrites /\ Data(s, 1).kind = "Data"
    BY BoundsAreNatural DEF Data, File
  <2> QED BY <2>1, <2>2, FileTypes, BoundsAreNatural
<1>3. EmptyDirectory \in Directory
  BY FileTypes DEF EmptyDirectory, Directory
<1>4. /\ dir \in Directory /\ dir.main = f /\ dir.wal = Missing /\ dir.stale = FALSE
      /\ dir.marker = NoMarker
  BY <1>1, <1>2, <1>3 DEF Directory, EmptyDirectory
<1>5. Whole(dir, acked)
  BY <1>1, <1>2, <1>4, FileTypes DEF Whole, Holds, Effective
<1>6. Safe(dir, acked)
  BY <1>2, <1>4, <1>5, FileTypes DEF Safe
<1>7. phase = "Off" /\ then = "Off" /\ build \in Builds /\ survivors = {dir} /\ faults = 0
  BY DEF Init
<1>8. acked \in 0..MaxWrites /\ faults \in 0..MaxFaults
  BY <1>1, <1>2, <1>7, BoundsAreNatural
<1>9. TypeOK /\ AllSafe
  BY <1>4, <1>6, <1>7, <1>8 DEF TypeOK, AllSafe, Phase
<1>10. MarkersStand /\ BackupsAreComplete /\ RestoresAreComplete /\ Finished
  BY <1>7 DEF MarkersStand, BackupsAreComplete, RestoresAreComplete, Finished
<1> QED BY <1>9, <1>10 DEF RecoveryInv

LEMMA StepsRecover == RecoveryInv /\ [Next]_vars => RecoveryInv'
<1> SUFFICES ASSUME RecoveryInv, [Next]_vars PROVE RecoveryInv'
  OBVIOUS
<1>1. CASE Recover
  BY <1>1, ReadMarkerKeeps, KeepFinishedMigrationKeeps, UndoUnfinishedMigrationKeeps,
     CopyBackupKeeps, SyncCopyKeeps, TruncateWalKeeps, UnlinkWalKeeps, TruncateMainKeeps,
     UnlinkMainKeeps, PlaceCopyKeeps, SyncPlacedKeeps, ClearMarkerKeeps, SyncClearedKeeps
     DEF Recover
<1>2. CASE Upgrade
  BY <1>2, InspectKeeps, RefuseDatabaseKeeps, OpenCurrentKeeps, CreateBackupKeeps,
     SyncBackupKeeps, KeepPreviousKeeps, PublishBackupKeeps, SyncBackupRootKeeps,
     PublishMarkerKeeps, SyncMarkerKeeps, CreateDatabaseKeeps, MigrateKeeps, FinishMigrationKeeps
     DEF Upgrade
<1>3. CASE Start \/ MigrationFails \/ Write \/ Close \/ Crash \/ PowerLoss
  BY <1>3, StartKeeps, MigrationFailsKeeps, WriteKeeps, CloseKeeps, CrashKeeps, PowerLossKeeps
<1>4. CASE UNCHANGED vars
  BY <1>4
     DEF vars, RecoveryInv, TypeOK, AllSafe, MarkersStand, BackupsAreComplete,
         RestoresAreComplete, Finished
<1> QED BY <1>1, <1>2, <1>3, <1>4 DEF Next

LEMMA RecoveryIsInvariant == Spec => []RecoveryInv
BY InitRecovers, StepsRecover, PTL DEF Spec

(* Every root the next start-up may find is safe. *)
LEMMA OutcomesAreSafe ==
  ASSUME RecoveryInv, NEW d \in Outcomes
  PROVE  /\ d \in Directory /\ Safe(d, acked)
         /\ d = dir \/ \E e \in survivors : d.marker = e.marker /\ Effective(d) = Effective(e)
BY InvOfDir, PowerLossIsSafe DEF Outcomes, RecoveryInv, TypeOK, AllSafe

(* Wherever the Supervisor dies or the power fails in prepare_database, a *)
(* migration or its undoing, the next start-up that succeeds serves every *)
(* transaction the application was told is durable.                       *)
THEOREM CommittedDataSurvives == Spec => []NothingIsLost
<1>1. RecoveryInv => NothingIsLost
  BY OutcomesAreSafe, SafeRootsResolve DEF NothingIsLost
<1> QED BY <1>1, RecoveryIsInvariant, PTL

(* prepare_database hands out a repository only over a database at the *)
(* build's last migration, once no power loss brings a marker back.    *)
THEOREM OnlyFinishedDatabasesServe == Spec => []ServesFinishedDatabase
<1>1. RecoveryInv => ServesFinishedDatabase
  BY OutcomesAreSafe DEF ServesFinishedDatabase, RecoveryInv, MarkersStand, Finished
<1> QED BY <1>1, RecoveryIsInvariant, PTL

------------------------------------------------------------
HIDE DEF Phase, Marked, Unmarked, Undoing, BackingUp

(***************************************************************************)
(* Frames on a stream (FramedIo, encode_frame).  A stream is in step when  *)
(* its units are those of whole frames in their order.                     *)
(***************************************************************************)
WholeFrames(units) == Len(units) % FrameUnits = 0

LEMMA Remainder ==
  ASSUME NEW F \in Nat \ {0}, NEW k \in Nat
  PROVE  (k % F) \in Nat /\ (k % F) < F
OBVIOUS

LEMMA SmallRemainder ==
  ASSUME NEW F \in Nat \ {0}, NEW k \in Nat, k < F
  PROVE  k % F = k
OBVIOUS

LEMMA RemainderIsUnique ==
  ASSUME NEW F \in Nat \ {0}, NEW k \in Nat, NEW q \in Int, NEW r \in Nat, r < F, k = F * q + r
  PROVE  k % F = r
OBVIOUS

LEMMA Division ==
  ASSUME NEW F \in Nat \ {0}, NEW k \in Nat
  PROVE  \E q \in Int : k = F * q + (k % F)
<1>1. PICK q \in Int : q = k \div F
  OBVIOUS
<1>2. k = F * q + (k % F)
  BY <1>1, SMTT(20)
<1> QED  BY ONLY <1>2, q \in Int, Zenon

LEMMA Distributes ==
  ASSUME NEW F \in Int, NEW p \in Int, NEW q \in Int
  PROVE  F * (p + q) = F * p + F * q
OBVIOUS

LEMMA RemainderOfSum ==
  ASSUME NEW F \in Nat \ {0}, NEW n \in Nat, NEW k \in Nat, n % F = 0
  PROVE  (n + k) % F = k % F
<1>1. PICK q \in Int : k = F * q + (k % F)
  BY Division
<1>2. PICK p \in Int : n = F * p + (n % F)
  BY Division
<1>3. PICK r \in Nat : r = k % F
  BY Remainder
<1>4. F * (p + q) = F * p + F * q
  BY Distributes
<1>5. n = F * p
  BY ONLY n % F = 0, <1>2, F \in Nat, p \in Int, n \in Nat
<1>6. k = F * q + r
  BY ONLY <1>1, <1>3, Zenon
<1>7. n + k = F * (p + q) + r
  BY ONLY <1>4, <1>5, <1>6, F * p \in Int, F * q \in Int, r \in Nat
<1>8. r < F
  BY <1>3, Remainder
<1>9. n + k \in Nat /\ p + q \in Int
  OBVIOUS
<1>10. (n + k) % F = r
  BY ONLY RemainderIsUnique, <1>7, <1>8, <1>9, F \in Nat \ {0}, r \in Nat
<1> QED  BY ONLY <1>10, <1>3, Zenon

LEMMA FrameLength == FrameUnits \in Nat \ {0} /\ FrameUnits >= 2 /\ FrameUnits % FrameUnits = 0
  /\ 0 % FrameUnits = 0
<1>1. FrameUnits \in Nat \ {0} /\ FrameUnits >= 2
  BY FramesHaveAHeader
<1>2. FrameUnits = FrameUnits * 1 + 0
  BY <1>1
<1>3. FrameUnits % FrameUnits = 0
  BY ONLY RemainderIsUnique, <1>1, <1>2, 0 \in Nat, 1 \in Int, 0 < FrameUnits
<1> QED  BY <1>1, <1>3, SmallRemainder

(* Which unit of its frame is the k-th of a stream that is in step *)
UnitAt(k) == ((k - 1) % FrameUnits) + 1

LEMMA UnitsInStep ==
  ASSUME NEW units
  PROVE  InStep(units) <=> \A k \in DOMAIN units :
           units[k].unit = UnitAt(k) /\ (units[k].unit > 1 => units[k].of = units[k - 1].of)
BY Zenon DEF InStep, UnitAt

LEMMA UnitsOfFrames ==
  /\ UnitAt(1) = 1
  /\ \A k \in 1..FrameUnits : UnitAt(k) = k
  /\ \A n, k \in Nat : n % FrameUnits = 0 /\ k > 0 => UnitAt(n + k) = UnitAt(k)
<1>1. FrameUnits \in Nat \ {0} /\ FrameUnits >= 2
  BY FrameLength
<1>2. ASSUME NEW k \in 1..FrameUnits PROVE UnitAt(k) = k
  <2>1. PICK j \in Nat : j = k - 1
    BY <1>1
  <2>2. j < FrameUnits
    BY <1>1, <2>1
  <2>3. j % FrameUnits = j
    BY ONLY <1>1, <2>2, SmallRemainder, j \in Nat
  <2>4. (k - 1) % FrameUnits = k - 1
    BY ONLY <2>1, <2>3, Zenon
  <2> QED  BY <1>1, <2>4 DEF UnitAt
<1>3. ASSUME NEW n \in Nat, NEW k \in Nat, n % FrameUnits = 0, k > 0 PROVE UnitAt(n + k) = UnitAt(k)
  <2>1. PICK j \in Nat : j = k - 1
    BY <1>3
  <2>2. (n + j) % FrameUnits = j % FrameUnits
    BY ONLY <1>1, <1>3, RemainderOfSum, n \in Nat, j \in Nat
  <2>3. n + j = (n + k) - 1
    BY <2>1
  <2>4. ((n + k) - 1) % FrameUnits = (k - 1) % FrameUnits
    BY ONLY <2>1, <2>2, <2>3, Zenon
  <2> QED  BY ONLY <2>4, Zenon DEF UnitAt
<1> QED  BY <1>1, <1>2, <1>3

(* What encode_frame writes of a message *)
LEMMA AFrame ==
  ASSUME NEW m, NEW M, m \in M
  PROVE  /\ Frame(m) \in Seq([of : M, unit : Nat]) /\ Len(Frame(m)) = FrameUnits
         /\ \A k \in 1..FrameUnits : Frame(m)[k] = [of |-> m, unit |-> k]
         /\ DOMAIN Frame(m) = 1..FrameUnits
         /\ InStep(Frame(m)) /\ WholeFrames(Frame(m)) /\ Message(Frame(m)) = m
         /\ Rest(Frame(m)) = <<>>
<1>1. FrameUnits \in Nat \ {0} /\ FrameUnits >= 2
  BY FrameLength
<1>2. /\ Frame(m) \in Seq([of : M, unit : Nat]) /\ Len(Frame(m)) = FrameUnits
      /\ \A k \in 1..FrameUnits : Frame(m)[k] = [of |-> m, unit |-> k]
      /\ DOMAIN Frame(m) = 1..FrameUnits
  BY <1>1 DEF Frame
<1>3. InStep(Frame(m))
  <2> SUFFICES ASSUME NEW k \in 1..FrameUnits
               PROVE  /\ Frame(m)[k].unit = UnitAt(k)
                      /\ Frame(m)[k].unit > 1 => Frame(m)[k].of = Frame(m)[k - 1].of
    BY <1>2, UnitsInStep
  <2>1. k > 1 => k - 1 \in 1..FrameUnits
    BY <1>1
  <2>2. Frame(m)[k].unit = k /\ Frame(m)[k].of = m /\ (k > 1 => Frame(m)[k - 1].of = m)
    BY <1>2, <2>1
  <2>3. UnitAt(k) = k
    BY UnitsOfFrames
  <2> QED  BY <2>2, <2>3
<1>4. WholeFrames(Frame(m))
  BY <1>2, FrameLength DEF WholeFrames
<1>5. Message(Frame(m)) = m
  BY <1>1, <1>2 DEF Message
<1>6. Rest(Frame(m)) = <<>>
  BY <1>1, <1>2 DEF Rest
<1> QED  BY <1>2, <1>3, <1>4, <1>5, <1>6

LEMMA NothingIsInStep == InStep(<<>>) /\ WholeFrames(<<>>)
  BY FrameLength DEF InStep, WholeFrames

(* Whole frames and then a stream in step *)
LEMMA StreamsJoin ==
  ASSUME NEW U, NEW s \in Seq(U), NEW t \in Seq(U), InStep(s), WholeFrames(s), InStep(t)
  PROVE  InStep(s \o t) /\ (WholeFrames(t) => WholeFrames(s \o t))
<1>1. FrameUnits \in Nat \ {0}
  BY FrameLength
<1>2. Len(s) \in Nat /\ Len(t) \in Nat /\ Len(s \o t) = Len(s) + Len(t)
      /\ DOMAIN (s \o t) = 1..(Len(s) + Len(t))
      /\ DOMAIN s = 1..Len(s) /\ DOMAIN t = 1..Len(t)
  OBVIOUS
<1>3. InStep(s \o t)
  <2> SUFFICES ASSUME NEW k \in 1..(Len(s) + Len(t))
               PROVE  /\ (s \o t)[k].unit = UnitAt(k)
                      /\ (s \o t)[k].unit > 1 => (s \o t)[k].of = (s \o t)[k - 1].of
    BY <1>2, UnitsInStep
  <2>1. CASE k \in 1..Len(s)
    BY <1>2, <2>1, UnitsInStep, UnitsOfFrames
  <2>2. CASE k \notin 1..Len(s)
    <3>1. PICK j \in 1..Len(t) : k = Len(s) + j
      BY <1>2, <2>2
    <3>2. (s \o t)[k] = t[j]
      BY <1>2, <3>1
    <3>3. j > 1 => (s \o t)[k - 1] = t[j - 1]
      BY <1>2, <3>1
    <3>4. t[j].unit = UnitAt(j) /\ (t[j].unit > 1 => t[j].of = t[j - 1].of)
      BY <1>2, UnitsInStep
    <3>5. UnitAt(k) = UnitAt(j)
      BY <1>2, <3>1, UnitsOfFrames, WholeFrames(s) DEF WholeFrames
    <3> QED  BY <3>2, <3>3, <3>4, <3>5, UnitsOfFrames, SMTT(60)
  <2> QED  BY <2>1, <2>2
<1>4. WholeFrames(t) => WholeFrames(s \o t)
  BY ONLY <1>1, <1>2, WholeFrames(s), RemainderOfSum, ZenonT(60) DEF WholeFrames
<1> QED  BY <1>3, <1>4

(* The beginning of a stream *)
LEMMA StreamsBegin ==
  ASSUME NEW U, NEW s \in Seq(U), NEW t \in Seq(U), InStep(s \o t)
  PROVE  InStep(s)
<1>1. /\ Len(s) \in Nat /\ Len(t) \in Nat /\ DOMAIN (s \o t) = 1..(Len(s) + Len(t))
      /\ DOMAIN s = 1..Len(s)
      /\ \A k \in 1..Len(s) : (s \o t)[k] = s[k]
  OBVIOUS
<1> SUFFICES ASSUME NEW k \in 1..Len(s)
             PROVE  s[k].unit = UnitAt(k) /\ (s[k].unit > 1 => s[k].of = s[k - 1].of)
  BY <1>1, UnitsInStep
<1>2. k \in DOMAIN (s \o t)
  BY <1>1
<1>3. (s \o t)[k].unit = UnitAt(k) /\ ((s \o t)[k].unit > 1 => (s \o t)[k].of = (s \o t)[k - 1].of)
  BY <1>2, UnitsInStep
<1>4. k > 1 => k - 1 \in 1..Len(s)
  BY <1>1
<1> QED  BY <1>1, <1>3, <1>4, UnitsOfFrames

(* A frame was read. *)
LEMMA StreamsGoOn ==
  ASSUME NEW U, NEW s \in Seq(U), Arrived(s)
  PROVE  /\ Rest(s) \in Seq(U) /\ Len(Rest(s)) = Len(s) - FrameUnits
         /\ \A k \in DOMAIN Rest(s) : k + FrameUnits \in DOMAIN s /\ Rest(s)[k] = s[k + FrameUnits]
         /\ InStep(s) => InStep(Rest(s))
         /\ WholeFrames(s) <=> WholeFrames(Rest(s))
<1>1. FrameUnits \in Nat \ {0} /\ FrameUnits % FrameUnits = 0
  BY FrameLength
<1>2. Len(s) \in Nat /\ FrameUnits <= Len(s) /\ DOMAIN s = 1..Len(s)
  BY <1>1 DEF Arrived
<1>3. /\ Rest(s) \in Seq(U) /\ Len(Rest(s)) = Len(s) - FrameUnits
      /\ DOMAIN Rest(s) = 1..(Len(s) - FrameUnits)
      /\ \A k \in 1..(Len(s) - FrameUnits) : Rest(s)[k] = s[k + FrameUnits]
  <2>1. PICK n \in Nat : n = Len(s)
    BY <1>2
  <2>2. PICK f \in Nat : f = FrameUnits /\ f > 0 /\ f <= n
    BY <1>1, <1>2, <2>1
  <2>3. Rest(s) = SubSeq(s, f + 1, n)
    BY <2>1, <2>2 DEF Rest
  <2> QED  BY <2>1, <2>2, <2>3
<1>4. ASSUME InStep(s) PROVE InStep(Rest(s))
  <2> SUFFICES ASSUME NEW k \in 1..(Len(s) - FrameUnits)
               PROVE  /\ Rest(s)[k].unit = UnitAt(k)
                      /\ Rest(s)[k].unit > 1 => Rest(s)[k].of = Rest(s)[k - 1].of
    BY <1>3, UnitsInStep
  <2>1. PICK j \in DOMAIN s : j = k + FrameUnits
    BY <1>1, <1>2
  <2>2. s[j].unit = UnitAt(j) /\ (s[j].unit > 1 => s[j].of = s[j - 1].of)
    BY ONLY <1>4, UnitsInStep, j \in DOMAIN s
  <2>3. UnitAt(j) = UnitAt(k)
    <3>1. k \in Nat /\ k > 0 /\ FrameUnits + k = j
      BY <1>1, <1>2, <2>1
    <3>2. UnitAt(FrameUnits + k) = UnitAt(k)
      BY <1>1, <3>1, UnitsOfFrames
    <3> QED  BY ONLY <3>1, <3>2, Zenon
  <2>4. Rest(s)[k] = s[j] /\ (k > 1 => Rest(s)[k - 1] = s[j - 1])
    BY <1>1, <1>2, <1>3, <2>1
  <2> QED  BY <2>2, <2>3, <2>4, UnitsOfFrames
<1>5. WholeFrames(s) <=> WholeFrames(Rest(s))
  <2>5. Len(s) - FrameUnits \in Nat
    BY <1>1, <1>2
  <2>1. PICK n \in Nat : n = Len(s) - FrameUnits
    BY ONLY <2>5, Zenon
  <2>4. Len(Rest(s)) = n
    BY ONLY <1>3, <2>1
  <2>2. Len(s) = FrameUnits + n
    BY <1>1, <1>2, <2>1
  <2>3. (FrameUnits + n) % FrameUnits = n % FrameUnits
    BY ONLY <1>1, RemainderOfSum, n \in Nat
  <2> QED  BY ONLY <2>4, <2>2, <2>3, Zenon DEF WholeFrames
<1> QED  BY <1>1, <1>2, <1>3, <1>4, <1>5

(***************************************************************************)
(* The inductive invariant of a channel.  The operators take what they     *)
(* look into as arguments: x is a connection, b the bridge, s a            *)
(* Supervisor, chosen the case that is kept.                               *)
(***************************************************************************)
Spoken(chosen, i) == Negotiated(chosen.offers, chosen.versions[i])
ServerProof(chosen, i) == ProofBy(i, "server", Spoken(chosen, i), chosen.offers)
BridgeProof(chosen, i) == ProofBy(i, "client", Spoken(chosen, i), chosen.offers)

ChannelVersions(chosen) == {0} \cup {Spoken(chosen, i) : i \in Supervisors}

ChannelMessages(chosen) ==
  {Hello(chosen.offers), Rejected("IncompatibleVersion"), Rejected("AuthenticationFailed"), Event}
  \cup {Challenge(Spoken(chosen, i), ServerProof(chosen, i)) : i \in Supervisors}
  \cup {ClientProof(BridgeProof(chosen, i)) : i \in Supervisors}
  \cup {Accepted(Spoken(chosen, i)) : i \in Supervisors}
  \cup {Request(c) : c \in Calls} \cup {Response(c) : c \in Calls}

Units(chosen) == [of : ChannelMessages(chosen), unit : Nat]
Streams(chosen) == Seq(Units(chosen))

LinkRecord(chosen) ==
  [up : Streams(chosen), down : Streams(chosen), client : BOOLEAN, server : BOOLEAN,
   gotDown : Streams(chosen), version : ChannelVersions(chosen), work : SUBSET Calls,
   writing : Streams(chosen)]

ServingAt == {"Accepting", "Hello", "Proof"}
TokenAt   == {"Guarded", "Clear"} \cup ServingAt
LockedAt  == {"Locked", "Written", "Closing", "Unlocking"} \cup TokenAt
LinkedAt  == {"Challenge", "Acceptance", "Connected"}

ServerRecord == [at : {"Off", "Gone"} \cup LockedAt, queue : Seq(Links),
                 link : Links \cup {Nobody}, active : SUBSET Links]
BridgeRecord(chosen) ==
  [at : {"Token", "Waiting", "Connecting", "Backoff", "Closed"} \cup LinkedAt,
   token : Supervisors \cup {Nobody}, link : Links \cup {Nobody}, version : ChannelVersions(chosen)]
RuntimeRecord ==
  [lock : Supervisors \cup {Nobody}, token : Supervisors \cup {Nobody},
   temporary : Supervisors \cup {Nobody}, endpoint : Supervisors \cup {Nobody}]
CallersRecord ==
  [queue : Seq(Calls), pending : SUBSET Calls,
   told : [Calls -> {"Nothing", "Asked", "Unavailable", "Busy", "Duplicate", "Timeout", "Done",
                     "Answered", "Violation"}],
   answer : [Calls -> Calls \cup {Nobody}]]

ChannelTypes ==
  /\ channelCase \in ChannelCases
  /\ runtime \in RuntimeRecord
  /\ servers \in [Supervisors -> ServerRecord]
  /\ links \in [Links -> LinkRecord(channelCase)]
  /\ bridge \in BridgeRecord(channelCase)
  /\ callers \in CallersRecord
  /\ served \subseteq Calls

(* What a Supervisor has by virtue of how far it came *)
RuntimeFits(rt, at, i, platform) ==
  /\ at \in LockedAt => rt.lock = i
  /\ at \in TokenAt => rt.token = i
  /\ at \in ServingAt => rt.endpoint = i \/ platform = "Windows"

RuntimesFit == \A i \in Supervisors : RuntimeFits(runtime, servers[i].at, i, channelCase.platform)

InQueue(queue) == {queue[k] : k \in DOMAIN queue}
NoneTwice(queue) == \A j, k \in DOMAIN queue : queue[j] = queue[k] => j = k

(* A connection is in one place of a Supervisor at most. *)
ServerFits(s) ==
  /\ NoneTwice(s.queue)
  /\ s.link \notin InQueue(s.queue) /\ s.link \notin s.active
  /\ \A l \in s.active : l \notin InQueue(s.queue)
  /\ s.link # Nobody <=> s.at \in {"Hello", "Proof"}
  /\ s.at \notin ServingAt => s.queue = <<>> /\ s.active = {}

ServersFit == \A i \in Supervisors : ServerFits(servers[i])

Carries(units, messages) == \A k \in DOMAIN units : units[k].of \in messages
Replies(done) == {Response(c) : c \in done} \cup {Event}
Asks(ordered) == {Request(c) : c \in ordered}

(* Calls that were taken out of the queue, or never were in it, and not *)
(* refused                                                              *)
Ordered(cs) == {c \in Calls : cs.told[c] \notin {"Nothing", "Busy", "Duplicate"}
  /\ c \notin InQueue(cs.queue)}

(* A connection whose first message the Supervisor did not read yet *)
Awaits(s, l) == l \in InQueue(s.queue) \/ (s.at = "Hello" /\ s.link = l)
AwaitingFits(chosen, x, b) ==
  /\ x.up = Frame(Hello(chosen.offers)) /\ x.down = <<>> /\ x.writing = <<>> /\ x.work = {}
  /\ x.client => b.at = "Challenge"

(* One that was challenged *)
Proves(s, l) == s.at = "Proof" /\ s.link = l
ProvingFits(chosen, x, b, i) ==
  /\ x.version = Spoken(chosen, i) /\ x.writing = <<>> /\ x.work = {}
  /\ x.client =>
       \/ /\ b.at = "Challenge" /\ x.up = <<>>
          /\ x.down = Frame(Challenge(Spoken(chosen, i), ServerProof(chosen, i)))
       \/ /\ b.at = "Acceptance" /\ b.token = i /\ b.version = Spoken(chosen, i)
          /\ Len(x.up) = FrameUnits /\ x.down = <<>>

(* One with a session *)
ServedFits(chosen, x, b, i, ordered) ==
  /\ x.version = Spoken(chosen, i) /\ Carries(x.up, Asks(ordered))
  /\ x.client => /\ b.at \in {"Acceptance", "Connected"}
                 /\ b.token = i /\ b.version = Spoken(chosen, i) /\ WholeFrames(x.up)

StagesFit(chosen, s, i, l, x, b, ordered) ==
  /\ Awaits(s, l) => AwaitingFits(chosen, x, b)
  /\ Proves(s, l) => ProvingFits(chosen, x, b, i)
  /\ l \in s.active => ServedFits(chosen, x, b, i, ordered)

(* What is under way on any *)
StreamsFit(x, b, done) ==
  /\ ~x.client => x.down = <<>> /\ x.gotDown = <<>>
  /\ ~x.server => x.up = <<>> /\ x.writing = <<>> /\ x.work = {}
  /\ InStep(x.up) /\ Carries(x.writing, Replies(done)) /\ x.work \subseteq done
  /\ x.client =>
       /\ InStep((x.gotDown \o x.down) \o x.writing)
       /\ x.server => WholeFrames((x.gotDown \o x.down) \o x.writing)
       /\ b.at = "Challenge" =>
            x.gotDown = <<>> /\ x.writing = <<>> /\ (x.down = <<>> \/ Len(x.down) = FrameUnits)
       /\ b.at = "Acceptance" =>
            /\ x.gotDown = <<>>
            /\ \A k \in DOMAIN x.down : k > FrameUnits => x.down[k].of \in Replies(done)
       /\ b.at = "Connected" =>
            /\ Len(x.gotDown) < FrameUnits
            /\ Carries(x.gotDown, Replies(done)) /\ Carries(x.down, Replies(done))

(* Who has which connection *)
EndsFit ==
  /\ bridge.link # Nobody <=> bridge.at \in LinkedAt
  /\ \A l \in Links : links[l].client <=> bridge.link = l
  /\ \A l \in Links : links[l].server <=> \E i \in Supervisors : l \in LinksOf(servers[i])
  /\ \A i, j \in Supervisors : i # j => \A l \in LinksOf(servers[i]) : l \notin LinksOf(servers[j])

CallsFit(cs, done, b, pending) ==
  /\ NoneTwice(cs.queue)
  /\ \A k \in DOMAIN cs.queue : cs.told[cs.queue[k]] \notin {"Nothing", "Busy", "Duplicate"}
  /\ done \subseteq Ordered(cs)
  /\ \A c \in Calls : cs.told[c] = "Answered" =>
       /\ cs.answer[c] \in done
       /\ RequestId[cs.answer[c]] = RequestId[c] /\ OperationId[cs.answer[c]] = OperationId[c]
  /\ b.at # "Connected" => cs.pending = {}
  /\ IsFiniteSet(cs.pending) /\ Cardinality(cs.pending) <= pending
  /\ \A c, d \in cs.pending : RequestId[c] = RequestId[d] => c = d

ChannelInv ==
  /\ ChannelTypes
  /\ RuntimesFit
  /\ ServersFit
  /\ EndsFit
  /\ \A l \in Links : StreamsFit(links[l], bridge, served)
  /\ \A i \in Supervisors, l \in Links :
       StagesFit(channelCase, servers[i], i, l, links[l], bridge, Ordered(callers))
  /\ CallsFit(callers, served, bridge, channelCase.pending)

------------------------------------------------------------
(* One connection *)

ServerClosed(x) ==
  IF ~x.client THEN Free ELSE [x EXCEPT !.server = FALSE, !.up = <<>>, !.work = {},
    !.writing = <<>>]
ClientClosed(x) ==
  IF ~x.server THEN Free ELSE [x EXCEPT !.client = FALSE, !.down = <<>>, !.gotDown = <<>>]

LEMMA FreeLinks ==
  ASSUME NEW chosen, NEW b, NEW done
  PROVE  /\ Free \in LinkRecord(chosen) /\ Free.client = FALSE /\ Free.server = FALSE
         /\ Free.work = {}
         /\ Free.up = <<>> /\ Free.down = <<>> /\ Free.gotDown = <<>> /\ Free.writing = <<>>
         /\ StreamsFit(Free, b, done)
<1>1. <<>> \in Streams(chosen)
  BY DEF Streams
<1>2. 0 \in ChannelVersions(chosen)
  BY DEF ChannelVersions
<1>3. /\ Free \in LinkRecord(chosen) /\ Free.client = FALSE /\ Free.server = FALSE /\ Free.work = {}
      /\ Free.up = <<>> /\ Free.down = <<>> /\ Free.gotDown = <<>> /\ Free.writing = <<>>
  BY <1>1, <1>2 DEF Free, LinkRecord
<1>4. Carries(<<>>, Replies(done))
  BY DEF Carries
<1>5. StreamsFit(Free, b, done)
  BY <1>3, <1>4, NothingIsInStep DEF StreamsFit
<1> QED  BY <1>3, <1>5

LEMMA ServerEndCloses ==
  ASSUME NEW chosen, NEW x \in LinkRecord(chosen), NEW b, NEW done, StreamsFit(x, b, done)
  PROVE  /\ ServerClosed(x) \in LinkRecord(chosen) /\ StreamsFit(ServerClosed(x), b, done)
         /\ ServerClosed(x).client = x.client /\ ServerClosed(x).server = FALSE
<1>1. CASE ~x.client
  BY <1>1, FreeLinks DEF ServerClosed, LinkRecord
<1>2. CASE x.client
  <2>1. PICK y : y = [x EXCEPT !.server = FALSE, !.up = <<>>, !.work = {}, !.writing = <<>>]
    OBVIOUS
  <2>2. <<>> \in Streams(chosen) /\ x.gotDown \in Streams(chosen) /\ x.down \in Streams(chosen)
        /\ x.writing \in Streams(chosen)
    BY DEF Streams, LinkRecord
  <2>3. /\ y \in LinkRecord(chosen) /\ y.client = x.client /\ y.server = FALSE /\ y.up = <<>>
        /\ y.work = {} /\ y.writing = <<>> /\ y.down = x.down /\ y.gotDown = x.gotDown
    BY <2>1, <2>2 DEF LinkRecord
  <2>4. ServerClosed(x) = y
    BY <1>2, <2>1 DEF ServerClosed
  <2>5. InStep(x.gotDown \o x.down)
    <3>1. x.gotDown \o x.down \in Seq(Units(chosen)) /\ x.writing \in Seq(Units(chosen))
      BY <2>2 DEF Streams
    <3>2. InStep((x.gotDown \o x.down) \o x.writing)
      BY <1>2 DEF StreamsFit
    <3> QED  BY <3>1, <3>2, StreamsBegin
  <2>6. (y.gotDown \o y.down) \o y.writing = x.gotDown \o x.down
    BY <2>2, <2>3 DEF Streams
  <2>7. InStep(y.up) /\ Carries(y.writing, Replies(done)) /\ y.work \subseteq done
    BY <2>3, NothingIsInStep DEF Carries
  <2>8. InStep((y.gotDown \o y.down) \o y.writing)
    BY ONLY <2>5, <2>6, Zenon
  <2>9. /\ b.at = "Challenge" => y.gotDown = <<>> /\ y.writing = <<>>
           /\ (y.down = <<>> \/ Len(y.down) = FrameUnits)
        /\ b.at = "Acceptance" =>
             /\ y.gotDown = <<>>
             /\ \A k \in DOMAIN y.down : k > FrameUnits => y.down[k].of \in Replies(done)
        /\ b.at = "Connected" =>
             /\ Len(y.gotDown) < FrameUnits
             /\ Carries(y.gotDown, Replies(done)) /\ Carries(y.down, Replies(done))
    BY <1>2, <2>3 DEF StreamsFit
  <2>10. StreamsFit(y, b, done)
    BY ONLY <1>2, <2>3, <2>7, <2>8, <2>9, Zenon DEF StreamsFit
  <2> QED  BY <2>3, <2>4, <2>10
<1>3. x.client \in BOOLEAN
  BY DEF LinkRecord
<1> QED  BY <1>1, <1>2, <1>3

LEMMA ClientEndCloses ==
  ASSUME NEW chosen, NEW x \in LinkRecord(chosen), NEW b, NEW other, NEW done,
         StreamsFit(x, b, done)
  PROVE  /\ ClientClosed(x) \in LinkRecord(chosen) /\ StreamsFit(ClientClosed(x), other, done)
         /\ ClientClosed(x).client = FALSE /\ ClientClosed(x).server = x.server
         /\ x.server => /\ ClientClosed(x).up = x.up /\ ClientClosed(x).version = x.version
                        /\ ClientClosed(x).work = x.work /\ ClientClosed(x).writing = x.writing
                        /\ ClientClosed(x).down = <<>>
<1>1. CASE ~x.server
  BY <1>1, FreeLinks DEF ClientClosed, LinkRecord
<1>2. CASE x.server
  <2>1. PICK y : y = [x EXCEPT !.client = FALSE, !.down = <<>>, !.gotDown = <<>>]
    OBVIOUS
  <2>2. <<>> \in Streams(chosen)
    BY DEF Streams
  <2>3. /\ y \in LinkRecord(chosen) /\ y.client = FALSE /\ y.server = x.server /\ y.up = x.up
        /\ y.work = x.work /\ y.writing = x.writing /\ y.down = <<>> /\ y.gotDown = <<>>
        /\ y.version = x.version
    BY <2>1, <2>2 DEF LinkRecord
  <2>4. ClientClosed(x) = y
    BY <1>2, <2>1 DEF ClientClosed
  <2>5. StreamsFit(y, other, done)
    BY <2>3 DEF StreamsFit
  <2> QED  BY <2>3, <2>4, <2>5
<1>3. x.server \in BOOLEAN
  BY DEF LinkRecord
<1> QED  BY <1>1, <1>2, <1>3

(* More was carried out, and the bridge turned to something else. *)
LEMMA MoreReplies ==
  ASSUME NEW done, NEW more, done \subseteq more
  PROVE  /\ Replies(done) \subseteq Replies(more)
         /\ \A units : Carries(units, Replies(done)) => Carries(units, Replies(more))
BY DEF Replies, Carries

LEMMA MoreAsks ==
  ASSUME NEW ordered, NEW more, ordered \subseteq more
  PROVE  \A units : Carries(units, Asks(ordered)) => Carries(units, Asks(more))
BY DEF Asks, Carries

LEMMA StreamsStayFit ==
  ASSUME NEW x, NEW b, NEW other, NEW done, NEW more, StreamsFit(x, b, done), done \subseteq more,
         ~x.client \/ other.at = b.at
  PROVE  StreamsFit(x, other, more)
<1>1. /\ Carries(x.writing, Replies(more)) /\ x.work \subseteq more
      /\ Carries(x.gotDown, Replies(done)) => Carries(x.gotDown, Replies(more))
      /\ Carries(x.down, Replies(done)) => Carries(x.down, Replies(more))
      /\ Replies(done) \subseteq Replies(more)
  BY MoreReplies DEF StreamsFit
<1>2. CASE x.client
  <2>1. other.at = b.at
    BY <1>2
  <2>2. /\ InStep((x.gotDown \o x.down) \o x.writing)
        /\ x.server => WholeFrames((x.gotDown \o x.down) \o x.writing)
    BY ONLY <1>2, StreamsFit(x, b, done), Zenon DEF StreamsFit
  <2>3. other.at = "Challenge" => x.gotDown = <<>> /\ x.writing = <<>>
        /\ (x.down = <<>> \/ Len(x.down) = FrameUnits)
    BY ONLY <1>2, <2>1, StreamsFit(x, b, done), Zenon DEF StreamsFit
  <2>4. other.at = "Acceptance" =>
          /\ x.gotDown = <<>>
          /\ \A k \in DOMAIN x.down : k > FrameUnits => x.down[k].of \in Replies(more)
    BY <1>1, <1>2, <2>1 DEF StreamsFit
  <2>5. other.at = "Connected" =>
          /\ Len(x.gotDown) < FrameUnits
          /\ Carries(x.gotDown, Replies(more)) /\ Carries(x.down, Replies(more))
    BY <1>1, <1>2, <2>1 DEF StreamsFit
  <2>6. /\ ~x.server => x.up = <<>> /\ x.writing = <<>> /\ x.work = {}
        /\ InStep(x.up) /\ Carries(x.writing, Replies(more)) /\ x.work \subseteq more
    BY <1>1 DEF StreamsFit
  <2> QED  BY ONLY <1>2, <2>2, <2>3, <2>4, <2>5, <2>6, Zenon DEF StreamsFit
<1>3. CASE ~x.client
  BY <1>1, <1>3 DEF StreamsFit
<1> QED  BY <1>2, <1>3

------------------------------------------------------------
(* A step of the channel *)

LEMMA StagesStay ==
  ASSUME NEW chosen, NEW s, NEW t, NEW i, NEW l, NEW x, NEW b, NEW other, NEW ordered, NEW more,
         StagesFit(chosen, s, i, l, x, b, ordered), ordered \subseteq more,
         Awaits(t, l) => Awaits(s, l), Proves(t, l) => Proves(s, l), l \in t.active
           => l \in s.active,
         other = b \/ ~x.client
  PROVE  StagesFit(chosen, t, i, l, x, other, more)
<1>1. Awaits(t, l) => AwaitingFits(chosen, x, other)
  BY DEF StagesFit, AwaitingFits
<1>2. Proves(t, l) => ProvingFits(chosen, x, other, i)
  BY DEF StagesFit, ProvingFits
<1>3. l \in t.active => ServedFits(chosen, x, other, i, more)
  BY MoreAsks DEF StagesFit, ServedFits
<1> QED  BY <1>1, <1>2, <1>3, Zenon DEF StagesFit

(* What becomes of a connection in a step *)
Untouched(l) ==
  /\ links'[l] = links[l] /\ (bridge' = bridge \/ ~links[l].client)
  /\ \A i \in Supervisors :
       /\ Awaits(servers'[i], l) => Awaits(servers[i], l)
       /\ Proves(servers'[i], l) => Proves(servers[i], l)
       /\ l \in servers'[i].active => l \in servers[i].active

FitsAfter(l) ==
  /\ StreamsFit(links'[l], bridge', served')
  /\ \A i \in Supervisors :
       StagesFit(channelCase, servers'[i], i, l, links'[l], bridge', Ordered(callers'))

CallsFitAfter ==
  /\ CallsFit(callers', served', bridge', channelCase.pending)
  /\ served \subseteq served' /\ Ordered(callers) \subseteq Ordered(callers')

LEMMA StepsFit ==
  ASSUME ChannelInv, ChannelTypes', channelCase' = channelCase,
         RuntimesFit', ServersFit', EndsFit', CallsFitAfter,
         \A l \in Links : Untouched(l) \/ FitsAfter(l)
  PROVE  ChannelInv'
<1>1. ASSUME NEW l \in Links PROVE StreamsFit(links'[l], bridge', served')
  <2>1. CASE Untouched(l)
    <3>1. StreamsFit(links[l], bridge, served) /\ links'[l] = links[l]
          /\ (bridge' = bridge \/ ~links[l].client)
      BY <2>1 DEF ChannelInv, Untouched
    <3>2. ~links[l].client \/ bridge'.at = bridge.at
      BY <3>1
    <3>3. StreamsFit(links[l], bridge', served')
      BY <3>1, <3>2, StreamsStayFit DEF CallsFitAfter
    <3> QED  BY <3>1, <3>3
  <2> QED  BY <2>1 DEF FitsAfter
<1>2. ASSUME NEW i \in Supervisors, NEW l \in Links
      PROVE  StagesFit(channelCase, servers'[i], i, l, links'[l], bridge', Ordered(callers'))
  <2>1. CASE Untouched(l)
    BY <2>1, StagesStay DEF ChannelInv, Untouched, CallsFitAfter
  <2> QED  BY <2>1 DEF FitsAfter
<1> QED  BY <1>1, <1>2 DEF ChannelInv, CallsFitAfter

(* The calls are not concerned. *)
LEMMA CallsStay ==
  ASSUME ChannelInv, UNCHANGED callVars, bridge'.at = "Connected" \/ bridge.at # "Connected"
  PROVE  CallsFitAfter /\ callers' \in CallersRecord /\ served' \subseteq Calls
<1>1. callers' = callers /\ served' = served
  BY DEF callVars
<1>2. callers \in CallersRecord /\ served \subseteq Calls
      /\ CallsFit(callers, served, bridge, channelCase.pending)
  BY DEF ChannelInv, ChannelTypes
<1>3. CallsFit(callers, served, bridge', channelCase.pending)
  BY <1>2 DEF CallsFit
<1> QED  BY <1>1, <1>2, <1>3 DEF CallsFitAfter

LEMMA ServerFields ==
  ASSUME ChannelInv, NEW i \in Supervisors
  PROVE  /\ servers[i] \in ServerRecord /\ ServerFits(servers[i])
         /\ RuntimeFits(runtime, servers[i].at, i, channelCase.platform)
         /\ servers[i].queue \in Seq(Links) /\ servers[i].active \in SUBSET Links
         /\ servers[i].link \in Links \cup {Nobody}
         /\ servers[i].at \in {"Off", "Gone"} \cup LockedAt
BY DEF ChannelInv, ChannelTypes, ServerRecord, ServersFit, RuntimesFit

ConnectionsStay == UNCHANGED <<links, bridge, channelCase, callVars>>

(* The start and the end of a Supervisor that has no connections *)
LEMMA RuntimeMoves ==
  ASSUME ChannelInv, NEW i \in Supervisors, NEW at \in {"Off", "Gone"} \cup LockedAt, Goes(i, at),
         servers[i].at \notin {"Hello", "Proof"}, at \notin {"Hello", "Proof"},
         at \in ServingAt \/ servers[i].at \notin ServingAt,
         runtime' \in RuntimeRecord, RuntimesFit', ConnectionsStay
  PROVE  ChannelInv'
<1>1. ChannelTypes
  BY DEF ChannelInv
<1>2. PICK s : s = [servers[i] EXCEPT !.at = at]
  OBVIOUS
<1>3. /\ s \in ServerRecord /\ s.at = at /\ s.queue = servers[i].queue /\ s.link = servers[i].link
      /\ s.active = servers[i].active
  BY <1>1, <1>2 DEF ChannelTypes, ServerRecord
<1>4. /\ servers' \in [Supervisors -> ServerRecord] /\ servers'[i] = s
      /\ \A j \in Supervisors : j # i => servers'[j] = servers[j]
  BY <1>1, <1>2, <1>3 DEF ChannelTypes, Goes
<1>5. ServerFits(s)
  BY <1>3, ServerFields DEF ServerFits
<1>6. ServersFit'
  BY <1>4, <1>5, ServerFields DEF ServersFit
<1>7. \A j \in Supervisors : LinksOf(servers'[j]) = LinksOf(servers[j])
  BY <1>3, <1>4 DEF LinksOf
<1>8. \A j \in Supervisors, l \in Links :
        /\ Awaits(servers'[j], l) => Awaits(servers[j], l)
        /\ Proves(servers'[j], l) => Proves(servers[j], l)
        /\ l \in servers'[j].active => l \in servers[j].active
  BY <1>3, <1>4 DEF Awaits, Proves
<1>9. links' = links /\ bridge' = bridge /\ channelCase' = channelCase /\ UNCHANGED callVars
  BY DEF ConnectionsStay
<1>10. CallsFitAfter /\ callers' \in CallersRecord /\ served' \subseteq Calls
  BY <1>9, CallsStay
<1>11. ChannelTypes'
  BY <1>1, <1>4, <1>9, <1>10 DEF ChannelTypes
<1>12. EndsFit'
  BY <1>7, <1>9 DEF ChannelInv, EndsFit
<1>13. \A l \in Links : Untouched(l)
  BY <1>8, <1>9 DEF Untouched
<1> QED  BY <1>6, <1>9, <1>10, <1>11, <1>12, <1>13, StepsFit

(* Only who holds the lock is anywhere between the lock and its release. *)
LEMMA OneHoldsTheLock ==
  ASSUME ChannelInv, NEW i \in Supervisors, servers[i].at \in LockedAt
  PROVE  \A j \in Supervisors : j # i => servers[j].at \notin LockedAt
BY DEF ChannelInv, RuntimeFits, RuntimesFit

LEMMA NobodyElse == Nobody \notin Supervisors /\ Nobody \notin Links
  BY NobodyIsElsewhere

LEMMA ServerGoes ==
  ASSUME ChannelInv, NEW i \in Supervisors, NEW at, Goes(i, at)
  PROVE  servers'[i].at = at /\ \A j \in Supervisors : j # i => servers'[j] = servers[j]
BY DEF ChannelInv, ChannelTypes, Goes, ServerRecord

(* Whoever else there is has nothing of the runtime directory. *)
LEMMA OthersFit ==
  ASSUME ChannelInv, NEW i \in Supervisors, channelCase' = channelCase,
         servers[i].at \in LockedAt \/ runtime.lock = Nobody,
         \A j \in Supervisors : j # i => servers'[j] = servers[j],
         RuntimeFits(runtime', servers'[i].at, i, channelCase.platform)
  PROVE  RuntimesFit'
<1>1. \A j \in Supervisors : j # i => servers[j].at \notin LockedAt
  BY NobodyElse, OneHoldsTheLock DEF ChannelInv, RuntimesFit, RuntimeFits
<1>2. \A j \in Supervisors : j # i => RuntimeFits(runtime', servers'[j].at, j, channelCase.platform)
  BY <1>1 DEF RuntimeFits, LockedAt, TokenAt
<1> QED  BY <1>2 DEF RuntimesFit

(* A step of who holds the lock *)
LEMMA HolderMoves ==
  ASSUME ChannelInv, NEW i \in Supervisors, NEW at \in {"Gone"} \cup LockedAt, Goes(i, at),
         servers[i].at \in LockedAt, servers[i].at \notin {"Hello", "Proof"},
           at \notin {"Hello", "Proof"},
         at \in ServingAt \/ servers[i].at \notin ServingAt,
         runtime' \in RuntimeRecord, RuntimeFits(runtime', at, i, channelCase.platform),
           ConnectionsStay
  PROVE  ChannelInv'
<1>1. servers'[i].at = at /\ \A j \in Supervisors : j # i => servers'[j] = servers[j]
  BY ServerGoes
<1>2. channelCase' = channelCase
  BY DEF ConnectionsStay
<1>3. RuntimeFits(runtime', servers'[i].at, i, channelCase.platform)
  BY <1>1
<1>4. RuntimesFit'
  BY <1>1, <1>2, <1>3, OthersFit
<1> QED  BY <1>4, RuntimeMoves

LEMMA Acquires ==
  ASSUME ChannelInv, NEW i \in Supervisors, Acquire(i), UNCHANGED callVars
  PROVE  ChannelInv'
<1>1. runtime \in RuntimeRecord /\ RuntimesFit
  BY DEF ChannelInv, ChannelTypes
<1>2. servers[i].at = "Off" /\ ConnectionsStay /\ channelCase' = channelCase
  BY DEF Acquire, ConnectionsStay
<1>3. CASE runtime.lock = Nobody
  <2>1. Goes(i, "Locked") /\ runtime' = [runtime EXCEPT !.lock = i]
    BY <1>3 DEF Acquire
  <2>2. runtime' \in RuntimeRecord /\ runtime'.lock = i
    BY <1>1, <2>1 DEF RuntimeRecord
  <2>3. servers'[i].at = "Locked" /\ \A j \in Supervisors : j # i => servers'[j] = servers[j]
    BY <2>1, ServerGoes
  <2>4. RuntimeFits(runtime', "Locked", i, channelCase.platform)
    BY <2>2 DEF RuntimeFits, TokenAt, ServingAt
  <2>5. RuntimesFit'
    BY <1>2, <1>3, <2>3, <2>4, OthersFit
  <2> QED  BY <1>2, <2>1, <2>2, <2>5, RuntimeMoves DEF LockedAt, ServingAt
<1>4. CASE runtime.lock # Nobody
  <2>1. Goes(i, "Gone") /\ runtime' = runtime
    BY <1>4 DEF Acquire
  <2>2. servers'[i].at = "Gone" /\ \A j \in Supervisors : j # i => servers'[j] = servers[j]
    BY <2>1, ServerGoes
  <2>3. RuntimesFit'
    BY <1>1, <1>2, <2>1, <2>2 DEF RuntimesFit, RuntimeFits, LockedAt, TokenAt, ServingAt
  <2> QED  BY <1>1, <1>2, <2>1, <2>3, RuntimeMoves DEF LockedAt, ServingAt
<1> QED  BY <1>3, <1>4

LEMMA WritesTemporary ==
  ASSUME ChannelInv, NEW i \in Supervisors, WriteTemporary(i), UNCHANGED callVars
  PROVE  ChannelInv'
<1>1. servers[i].at = "Locked" /\ Goes(i, "Written") /\ ConnectionsStay
  BY DEF WriteTemporary, ConnectionsStay
<1>2. RuntimeFits(runtime, "Locked", i, channelCase.platform) /\ runtime \in RuntimeRecord
  BY <1>1, ServerFields DEF ChannelInv, ChannelTypes
<1>3. runtime' \in RuntimeRecord /\ RuntimeFits(runtime', "Written", i, channelCase.platform)
  BY <1>2 DEF WriteTemporary, RuntimeRecord, RuntimeFits, LockedAt, TokenAt, ServingAt
<1> QED  BY <1>1, <1>3, HolderMoves DEF LockedAt, TokenAt, ServingAt

LEMMA PublishesToken ==
  ASSUME ChannelInv, NEW i \in Supervisors, PublishToken(i), UNCHANGED callVars
  PROVE  ChannelInv'
<1>1. servers[i].at = "Written" /\ Goes(i, "Guarded") /\ ConnectionsStay
  BY DEF PublishToken, ConnectionsStay
<1>2. RuntimeFits(runtime, "Written", i, channelCase.platform) /\ runtime \in RuntimeRecord
  BY <1>1, ServerFields DEF ChannelInv, ChannelTypes
<1>3. runtime' \in RuntimeRecord /\ RuntimeFits(runtime', "Guarded", i, channelCase.platform)
  BY <1>2 DEF PublishToken, RuntimeRecord, RuntimeFits, LockedAt, TokenAt, ServingAt
<1> QED  BY <1>1, <1>3, HolderMoves DEF LockedAt, TokenAt, ServingAt

LEMMA FailsToPublish ==
  ASSUME ChannelInv, NEW i \in Supervisors, TokenFails(i), UNCHANGED callVars
  PROVE  ChannelInv'
<1>1. servers[i].at \in {"Locked", "Written"} /\ Goes(i, "Gone") /\ ConnectionsStay
  BY DEF TokenFails, ConnectionsStay
<1>2. runtime \in RuntimeRecord
  BY DEF ChannelInv, ChannelTypes
<1>3. runtime' \in RuntimeRecord
  BY <1>2 DEF TokenFails, RuntimeRecord
<1>4. RuntimeFits(runtime', "Gone", i, channelCase.platform)
  BY DEF RuntimeFits, LockedAt, TokenAt, ServingAt
<1> QED  BY <1>1, <1>3, <1>4, HolderMoves DEF LockedAt, TokenAt, ServingAt

LEMMA RemovesStale ==
  ASSUME ChannelInv, NEW i \in Supervisors, RemoveStale(i), UNCHANGED callVars
  PROVE  ChannelInv'
<1>1. servers[i].at = "Guarded" /\ Goes(i, "Clear") /\ ConnectionsStay
  BY DEF RemoveStale, ConnectionsStay
<1>2. RuntimeFits(runtime, "Guarded", i, channelCase.platform) /\ runtime \in RuntimeRecord
  BY <1>1, ServerFields DEF ChannelInv, ChannelTypes
<1>3. runtime' \in RuntimeRecord /\ RuntimeFits(runtime', "Clear", i, channelCase.platform)
  BY <1>2 DEF RemoveStale, RuntimeRecord, RuntimeFits, LockedAt, TokenAt, ServingAt
<1> QED  BY <1>1, <1>3, HolderMoves DEF LockedAt, TokenAt, ServingAt

LEMMA Binds ==
  ASSUME ChannelInv, NEW i \in Supervisors, BindSocket(i) \/ BindPipe(i), UNCHANGED callVars
  PROVE  ChannelInv'
<1>1. servers[i].at \in {"Guarded", "Clear"} /\ Goes(i, "Accepting") /\ ConnectionsStay
      /\ runtime' = [runtime EXCEPT !.endpoint = i]
  BY DEF BindSocket, BindPipe, ConnectionsStay
<1>2. RuntimeFits(runtime, servers[i].at, i, channelCase.platform) /\ runtime \in RuntimeRecord
  BY <1>1, ServerFields DEF ChannelInv, ChannelTypes
<1>3. runtime' \in RuntimeRecord /\ RuntimeFits(runtime', "Accepting", i, channelCase.platform)
  BY <1>1, <1>2 DEF RuntimeRecord, RuntimeFits, LockedAt, TokenAt, ServingAt
<1> QED  BY <1>1, <1>3, HolderMoves DEF LockedAt, TokenAt, ServingAt

LEMMA FailsToBind ==
  ASSUME ChannelInv, NEW i \in Supervisors, BindFails(i), UNCHANGED callVars
  PROVE  ChannelInv'
<1>1. servers[i].at = "Clear" /\ Goes(i, "Closing") /\ ConnectionsStay
  BY DEF BindFails, ConnectionsStay
<1>2. RuntimeFits(runtime, "Clear", i, channelCase.platform) /\ runtime \in RuntimeRecord
  BY <1>1, ServerFields DEF ChannelInv, ChannelTypes
<1>3. runtime' \in RuntimeRecord /\ RuntimeFits(runtime', "Closing", i, channelCase.platform)
  BY <1>2 DEF BindFails, RuntimeRecord, RuntimeFits, LockedAt, TokenAt, ServingAt
<1> QED  BY <1>1, <1>3, HolderMoves DEF LockedAt, TokenAt, ServingAt

LEMMA DropsGuard ==
  ASSUME ChannelInv, NEW i \in Supervisors, DropGuard(i), UNCHANGED callVars
  PROVE  ChannelInv'
<1>1. ConnectionsStay
  BY DEF DropGuard, ConnectionsStay
<1>2. RuntimeFits(runtime, servers[i].at, i, channelCase.platform) /\ runtime \in RuntimeRecord
  BY ServerFields DEF ChannelInv, ChannelTypes
<1>3. CASE servers[i].at = "Closing"
  BY <1>1, <1>2, <1>3, HolderMoves DEF DropGuard, RuntimeRecord, RuntimeFits, LockedAt, TokenAt,
     ServingAt
<1>4. CASE servers[i].at = "Unlocking"
  BY <1>1, <1>2, <1>4, HolderMoves DEF DropGuard, RuntimeRecord, RuntimeFits, LockedAt, TokenAt,
     ServingAt
<1> QED  BY <1>3, <1>4 DEF DropGuard

LEMMA EnsuresPending ==
  ASSUME ChannelInv, NEW i \in Supervisors, EnsurePending(i), UNCHANGED callVars
  PROVE  ChannelInv'
<1>1. servers[i].at = "Accepting" /\ ConnectionsStay /\ servers' = servers
      /\ runtime' = [runtime EXCEPT !.endpoint = i] /\ channelCase.platform = "Windows"
  BY DEF EnsurePending, ConnectionsStay
<1>2. Goes(i, "Accepting")
  BY <1>1 DEF Goes, ChannelInv, ChannelTypes, ServerRecord
<1>3. RuntimeFits(runtime, "Accepting", i, channelCase.platform) /\ runtime \in RuntimeRecord
  BY <1>1, ServerFields DEF ChannelInv, ChannelTypes
<1>4. runtime' \in RuntimeRecord /\ RuntimeFits(runtime', "Accepting", i, channelCase.platform)
  BY <1>1, <1>3 DEF RuntimeRecord, RuntimeFits, LockedAt, TokenAt, ServingAt
<1> QED  BY <1>1, <1>2, <1>4, HolderMoves DEF LockedAt, TokenAt, ServingAt

------------------------------------------------------------
(* A Supervisor closes connections. *)

LEMMA HasLink ==
  ASSUME NEW s, NEW l \in Links
  PROVE  /\ l \in LinksOf(s) <=> l \in s.active \/ l \in InQueue(s.queue) \/ l = s.link
         /\ l \notin LinksOf(s) => ~Awaits(s, l) /\ ~Proves(s, l) /\ l \notin s.active
BY NobodyElse DEF LinksOf, InQueue, Awaits, Proves

LEMMA HeldLinks ==
  ASSUME ChannelInv, NEW l \in Links
  PROVE  /\ links[l] \in LinkRecord(channelCase) /\ StreamsFit(links[l], bridge, served)
         /\ links[l].client \in BOOLEAN /\ links[l].server \in BOOLEAN
         /\ links[l].client <=> bridge.link = l
         /\ \A i \in Supervisors : l \in LinksOf(servers[i]) =>
              /\ links[l].server
              /\ \A j \in Supervisors : j # i => l \notin LinksOf(servers[j])
         /\ \A i \in Supervisors :
              StagesFit(channelCase, servers[i], i, l, links[l], bridge, Ordered(callers))
<1>1. links[l] \in LinkRecord(channelCase)
  BY DEF ChannelInv, ChannelTypes
<1>2. links[l].client \in BOOLEAN /\ links[l].server \in BOOLEAN
  BY <1>1 DEF LinkRecord
<1>3. EndsFit
  BY DEF ChannelInv
<1>4. /\ links[l].client <=> bridge.link = l
      /\ \A i \in Supervisors : l \in LinksOf(servers[i]) => links[l].server
      /\ \A i, j \in Supervisors : i # j
         => \A k \in LinksOf(servers[i]) : k \notin LinksOf(servers[j])
  BY <1>3 DEF EndsFit
<1> QED  BY <1>1, <1>2, <1>4 DEF ChannelInv

LEMMA ServerHangs ==
  ASSUME ChannelInv, NEW i \in Supervisors, NEW s \in ServerRecord, NEW gone, NEW ls,
         servers' = [servers EXCEPT ![i] = s], servers[i].at \in LockedAt, ServerFits(s),
         gone \subseteq LinksOf(servers[i]), LinksOf(s) = LinksOf(servers[i]) \ gone,
         \A l \in Links : /\ Awaits(s, l) => Awaits(servers[i], l)
                          /\ Proves(s, l) => Proves(servers[i], l)
                          /\ l \in s.active => l \in servers[i].active,
         \A l \in Links \ gone : ls[l] = links[l],
         \A l \in gone \cap Links : /\ ls[l] \in LinkRecord(channelCase)
                                    /\ StreamsFit(ls[l], bridge, served)
                                    /\ ls[l].client = links[l].client,
         links' = CloseServerEnd(ls, gone),
         runtime' \in RuntimeRecord, RuntimeFits(runtime', s.at, i, channelCase.platform),
         UNCHANGED <<bridge, channelCase, callVars>>
  PROVE  ChannelInv'
<1>1. ChannelTypes /\ EndsFit
  BY DEF ChannelInv
<1>2. /\ servers' \in [Supervisors -> ServerRecord] /\ servers'[i] = s
      /\ \A j \in Supervisors : j # i => servers'[j] = servers[j]
  BY <1>1 DEF ChannelTypes
<1>3. channelCase' = channelCase /\ bridge' = bridge /\ UNCHANGED callVars
  OBVIOUS
<1>4. CallsFitAfter /\ callers' \in CallersRecord /\ served' \subseteq Calls
  BY <1>3, CallsStay
<1>5. RuntimesFit'
  BY <1>2, <1>3, OthersFit
<1>6. ServersFit'
  BY <1>2, ServerFields DEF ServersFit
<1>7. links' = [l \in Links |-> links'[l]]
  BY DEF CloseServerEnd
<1>8. ASSUME NEW l \in Links, l \notin gone
      PROVE  links'[l] = links[l] /\ links'[l] \in LinkRecord(channelCase)
  BY <1>8, HeldLinks DEF CloseServerEnd
<1>9. ASSUME NEW l \in Links, l \in gone
      PROVE  /\ links'[l] \in LinkRecord(channelCase) /\ StreamsFit(links'[l], bridge, served)
             /\ links'[l].client = links[l].client /\ links'[l].server = FALSE
             /\ \A j \in Supervisors : l \notin LinksOf(servers'[j])
  <2>1. ls[l] \in LinkRecord(channelCase) /\ StreamsFit(ls[l], bridge, served)
        /\ ls[l].client = links[l].client
    BY <1>9
  <2>2. PICK x \in LinkRecord(channelCase) : x = ls[l]
    BY <2>1
  <2>4. links'[l] = ServerClosed(x)
    BY <1>9, <2>2 DEF CloseServerEnd, ServerClosed
  <2>5. /\ ServerClosed(x) \in LinkRecord(channelCase)
        /\ StreamsFit(ServerClosed(x), bridge, served)
        /\ ServerClosed(x).client = x.client /\ ServerClosed(x).server = FALSE
    BY <2>1, <2>2, ServerEndCloses
  <2>3. \A j \in Supervisors : l \notin LinksOf(servers'[j])
    BY <1>2, <1>9, HeldLinks
  <2> QED  BY <2>1, <2>2, <2>3, <2>4, <2>5
<1>10. ChannelTypes'
  <2>1. links' \in [Links -> LinkRecord(channelCase)]
    BY <1>7, <1>8, <1>9
  <2> QED  BY <1>1, <1>2, <1>3, <1>4, <2>1 DEF ChannelTypes
<1>11. EndsFit'
  <2>1. \A l \in Links : links'[l].client = links[l].client
    BY <1>8, <1>9
  <2>2. ASSUME NEW l \in Links
        PROVE  links'[l].server <=> \E j \in Supervisors : l \in LinksOf(servers'[j])
    <3>1. CASE l \in gone
      BY <1>9, <3>1
    <3>2. CASE l \notin gone
      BY <1>1, <1>2, <1>8, <3>2 DEF EndsFit
    <3> QED  BY <3>1, <3>2
  <2>3. \A j \in Supervisors : LinksOf(servers'[j]) \subseteq LinksOf(servers[j])
    BY <1>2
  <2> QED  BY <1>1, <1>3, <2>1, <2>2, <2>3 DEF EndsFit
<1>12. ASSUME NEW l \in Links PROVE Untouched(l) \/ FitsAfter(l)
  <2>1. CASE l \in gone
    <3>1. \A j \in Supervisors : ~Awaits(servers'[j], l) /\ ~Proves(servers'[j], l)
          /\ l \notin servers'[j].active
      BY <1>9, <2>1, HasLink
    <3>2. StreamsFit(links'[l], bridge', served')
      BY <1>3, <1>9, <2>1 DEF callVars
    <3> QED  BY <3>1, <3>2 DEF FitsAfter, StagesFit
  <2>2. CASE l \notin gone
    BY <1>2, <1>3, <1>8, <2>2 DEF Untouched
  <2> QED  BY <2>1, <2>2
<1> QED  BY <1>3, <1>4, <1>5, <1>6, <1>10, <1>11, <1>12, StepsFit


LEMMA FirstGoes ==
  ASSUME NEW S, NEW q \in Seq(S), q # <<>>, NoneTwice(q)
  PROVE  /\ Tail(q) \in Seq(S) /\ Head(q) \in InQueue(q) /\ Head(q) \in S
         /\ InQueue(Tail(q)) = InQueue(q) \ {Head(q)} /\ NoneTwice(Tail(q))
<1>1. /\ Len(q) \in Nat /\ Len(q) >= 1 /\ DOMAIN q = 1..Len(q) /\ Head(q) = q[1] /\ q[1] \in S
      /\ Tail(q) \in Seq(S) /\ DOMAIN Tail(q) = 1..(Len(q) - 1)
      /\ \A k \in 1..(Len(q) - 1) : Tail(q)[k] = q[k + 1]
  OBVIOUS
<1>2. Head(q) \in InQueue(q)
  BY <1>1 DEF InQueue
<1>3. \A k \in 1..(Len(q) - 1) : k + 1 \in DOMAIN q /\ k + 1 # 1
  BY <1>1
<1>4. \A k \in DOMAIN q : k # 1 => k - 1 \in 1..(Len(q) - 1) /\ (k - 1) + 1 = k
  BY <1>1
<1>5. NoneTwice(Tail(q))
  <2> SUFFICES ASSUME NEW j \in 1..(Len(q) - 1), NEW k \in 1..(Len(q) - 1), Tail(q)[j] = Tail(q)[k]
               PROVE  j = k
    BY <1>1 DEF NoneTwice
  <2>1. q[j + 1] = q[k + 1]
    BY <1>1
  <2>2. j + 1 = k + 1
    BY <1>3, <2>1 DEF NoneTwice
  <2> QED  BY <2>2
<1>6. ASSUME NEW x \in InQueue(Tail(q)) PROVE x \in InQueue(q) /\ x # Head(q)
  BY <1>1, <1>3 DEF InQueue, NoneTwice
<1>7. ASSUME NEW x \in InQueue(q), x # Head(q) PROVE x \in InQueue(Tail(q))
  <2>1. PICK k \in DOMAIN q : x = q[k]
    BY DEF InQueue
  <2>2. k # 1
    BY <1>1, <1>7, <2>1
  <2>3. k - 1 \in DOMAIN Tail(q) /\ Tail(q)[k - 1] = x
    BY <1>1, <1>4, <2>1, <2>2
  <2> QED  BY <2>3 DEF InQueue
<1> QED  BY <1>1, <1>2, <1>5, <1>6, <1>7

(* It closes them as they are. *)
LEMMA ServerLeaves ==
  ASSUME ChannelInv, NEW i \in Supervisors, NEW s \in ServerRecord, NEW gone,
         servers' = [servers EXCEPT ![i] = s], servers[i].at \in LockedAt, ServerFits(s),
         gone \subseteq LinksOf(servers[i]), LinksOf(s) = LinksOf(servers[i]) \ gone,
         \A l \in Links : /\ Awaits(s, l) => Awaits(servers[i], l)
                          /\ Proves(s, l) => Proves(servers[i], l)
                          /\ l \in s.active => l \in servers[i].active,
         links' = CloseServerEnd(links, gone),
         runtime' \in RuntimeRecord, RuntimeFits(runtime', s.at, i, channelCase.platform),
         UNCHANGED <<bridge, channelCase, callVars>>
  PROVE  ChannelInv'
<1>1. \A l \in Links : links[l] \in LinkRecord(channelCase) /\ StreamsFit(links[l], bridge, served)
  BY HeldLinks
<1>2. PICK ls : ls = links
  OBVIOUS
<1>3. links' = CloseServerEnd(ls, gone)
  BY <1>2
<1> QED  BY <1>1, <1>2, <1>3, ServerHangs

Silent(at) == [at |-> at, queue |-> <<>>, link |-> Nobody, active |-> {}]

LEMMA Hanging ==
  ASSUME ChannelInv, NEW i \in Supervisors, NEW at \in {"Closing", "Gone"}, Hangs(i, at),
         servers[i].at \in LockedAt,
         runtime' \in RuntimeRecord, RuntimeFits(runtime', at, i, channelCase.platform),
         UNCHANGED <<bridge, channelCase, callVars>>
  PROVE  ChannelInv'
<1>1. PICK s : s = Silent(at)
  OBVIOUS
<1>2. s.at = at /\ s.queue = <<>> /\ s.link = Nobody /\ s.active = {}
  BY <1>1 DEF Silent
<1>3. s \in ServerRecord
  BY <1>1 DEF LockedAt, Silent, ServerRecord
<1>4. ServerFits(s)
  BY <1>2, NobodyElse DEF ServerFits, NoneTwice, InQueue, ServingAt
<1>5. InQueue(s.queue) = {}
  BY <1>2 DEF InQueue
<1>6. LinksOf(s) = {}
  BY <1>2 DEF LinksOf
<1>7. \A l \in Links : ~Awaits(s, l) /\ ~Proves(s, l) /\ l \notin s.active
  BY <1>2, <1>5 DEF Awaits, Proves
<1>8. servers' = [servers EXCEPT ![i] = s] /\ links' = CloseServerEnd(links, LinksOf(servers[i]))
  BY <1>1 DEF Hangs, Silent
<1>9. RuntimeFits(runtime', s.at, i, channelCase.platform)
  BY <1>2
<1> QED  BY <1>3, <1>4, <1>6, <1>7, <1>8, <1>9, ServerLeaves

LEMMA Retires ==
  ASSUME ChannelInv, NEW i \in Supervisors, Retire(i), UNCHANGED callVars
  PROVE  ChannelInv'
<1>1. servers[i].at \in ServingAt /\ Hangs(i, "Closing") /\ UNCHANGED <<bridge, channelCase>>
      /\ runtime' = [runtime EXCEPT !.endpoint = WithoutEndpointOf(i)]
  BY DEF Retire, Serving, ServingAt
<1>2. runtime \in RuntimeRecord /\ RuntimeFits(runtime, servers[i].at, i, channelCase.platform)
  BY ServerFields DEF ChannelInv, ChannelTypes
<1>3. servers[i].at \in LockedAt
  BY <1>1 DEF LockedAt, TokenAt
<1>4. runtime' \in RuntimeRecord /\ runtime'.lock = runtime.lock
  BY <1>1, <1>2 DEF RuntimeRecord, WithoutEndpointOf
<1>5. RuntimeFits(runtime', "Closing", i, channelCase.platform)
  BY <1>2, <1>3, <1>4 DEF RuntimeFits, TokenAt, ServingAt
<1> QED  BY <1>1, <1>3, <1>4, <1>5, Hanging

LEMMA Dies ==
  ASSUME ChannelInv, NEW i \in Supervisors, Die(i), UNCHANGED callVars
  PROVE  ChannelInv'
<1>1. Hangs(i, "Gone") /\ UNCHANGED <<bridge, channelCase>>
  BY DEF Die
<1>2. runtime \in RuntimeRecord /\ servers[i].at \in {"Off", "Gone"} \cup LockedAt
  BY ServerFields DEF ChannelInv, ChannelTypes
<1>3. servers[i].at \in LockedAt
  BY <1>2 DEF Die
<1>4. runtime' \in RuntimeRecord
  BY <1>2 DEF Die, RuntimeRecord, WithoutEndpointOf
<1>5. RuntimeFits(runtime', "Gone", i, channelCase.platform)
  BY DEF RuntimeFits, LockedAt, TokenAt, ServingAt
<1> QED  BY <1>1, <1>3, <1>4, <1>5, Hanging

(* The connection it was about to accept *)
LEMMA FirstRefused ==
  ASSUME ChannelInv, NEW i \in Supervisors, servers[i].at = "Accepting", servers[i].queue # <<>>,
         servers' = [servers EXCEPT ![i].queue = Tail(@)],
         links' = CloseServerEnd(links, {Head(servers[i].queue)}),
         runtime' \in RuntimeRecord, RuntimeFits(runtime', "Accepting", i, channelCase.platform),
         UNCHANGED <<bridge, channelCase, callVars>>
  PROVE  ChannelInv'
<1>1. PICK s : s = [servers[i] EXCEPT !.queue = Tail(@)]
  OBVIOUS
<1>2. PICK l : l = Head(servers[i].queue)
  OBVIOUS
<1>3. servers[i] \in ServerRecord /\ ServerFits(servers[i])
  BY ServerFields
<1>4. servers[i].queue \in Seq(Links) /\ NoneTwice(servers[i].queue)
  BY <1>3 DEF ServerRecord, ServerFits
<1>5. /\ Tail(servers[i].queue) \in Seq(Links) /\ l \in InQueue(servers[i].queue) /\ l \in Links
      /\ InQueue(Tail(servers[i].queue)) = InQueue(servers[i].queue) \ {l}
      /\ NoneTwice(Tail(servers[i].queue))
  BY <1>2, <1>4, FirstGoes
<1>6. /\ s \in ServerRecord /\ s.at = "Accepting" /\ s.queue = Tail(servers[i].queue)
      /\ s.link = servers[i].link /\ s.active = servers[i].active
  BY <1>1, <1>3, <1>5 DEF ServerRecord
<1>7. ServerFits(s)
  BY <1>3, <1>5, <1>6 DEF ServerFits, ServingAt
<1>8. servers[i].link = Nobody
  BY <1>3 DEF ServerFits
<1>9. LinksOf(s) = LinksOf(servers[i]) \ {l} /\ {l} \subseteq LinksOf(servers[i])
  <2>1. /\ LinksOf(s) = s.active \cup InQueue(s.queue) \cup ({s.link} \ {Nobody})
        /\ LinksOf(servers[i]) = servers[i].active \cup InQueue(servers[i].queue) \cup ({servers[i].link} \ {Nobody})
    BY DEF LinksOf, InQueue
  <2>2. l \notin servers[i].active
    BY <1>3, <1>5 DEF ServerFits
  <2> QED  BY <1>5, <1>6, <1>8, <2>1, <2>2
<1>10. \A k \in Links : /\ Awaits(s, k) => Awaits(servers[i], k)
                        /\ Proves(s, k) => Proves(servers[i], k)
                        /\ k \in s.active => k \in servers[i].active
  BY <1>5, <1>6 DEF Awaits, Proves
<1>11. servers' = [servers EXCEPT ![i] = s] /\ links' = CloseServerEnd(links, {l})
       /\ servers[i].at \in LockedAt
  BY <1>1, <1>2 DEF LockedAt, TokenAt, ServingAt
<1>12. RuntimeFits(runtime', s.at, i, channelCase.platform)
  BY <1>6
<1> QED  BY <1>6, <1>7, <1>9, <1>10, <1>11, <1>12, ServerLeaves

LEMMA FailsToReplenish ==
  ASSUME ChannelInv, NEW i \in Supervisors, ReplenishFails(i), UNCHANGED callVars
  PROVE  ChannelInv'
<1>1. /\ servers[i].at = "Accepting" /\ servers[i].queue # <<>> /\ channelCase.platform = "Windows"
      /\ servers' = [servers EXCEPT ![i].queue = Tail(@)]
      /\ links' = CloseServerEnd(links, {Head(servers[i].queue)})
      /\ runtime' = [runtime EXCEPT !.endpoint = WithoutEndpointOf(i)]
      /\ UNCHANGED <<bridge, channelCase, callVars>>
  BY DEF ReplenishFails
<1>2. runtime \in RuntimeRecord /\ RuntimeFits(runtime, "Accepting", i, channelCase.platform)
  BY <1>1, ServerFields DEF ChannelInv, ChannelTypes
<1>3. runtime' \in RuntimeRecord /\ runtime'.lock = runtime.lock /\ runtime'.token = runtime.token
  BY <1>1, <1>2 DEF RuntimeRecord, WithoutEndpointOf
<1>4. RuntimeFits(runtime', "Accepting", i, channelCase.platform)
  BY <1>1, <1>2, <1>3 DEF RuntimeFits
<1> QED  BY <1>1, <1>3, <1>4, FirstRefused

LEMMA RejectsPeer ==
  ASSUME ChannelInv, NEW i \in Supervisors, RejectPeer(i), UNCHANGED callVars
  PROVE  ChannelInv'
BY ServerFields, FirstRefused DEF RejectPeer, ChannelInv, ChannelTypes


(* A handshake that ends without a session: ls differs in the connection *)
(* in hand only, and there as its streams allow.                         *)
LEMMA HandshakeRefused ==
  ASSUME ChannelInv, NEW i \in Supervisors, servers[i].at \in {"Hello", "Proof"},
         NEW ls, Refuses(i, ls),
         \A l \in Links : l # servers[i].link => ls[l] = links[l],
         \A l \in Links : l = servers[i].link =>
            /\ ls[l] \in LinkRecord(channelCase) /\ StreamsFit(ls[l], bridge, served)
            /\ ls[l].client = links[l].client,
         UNCHANGED <<runtime, bridge, channelCase, callVars>>
  PROVE  ChannelInv'
<1>1. servers[i] \in ServerRecord /\ ServerFits(servers[i])
      /\ RuntimeFits(runtime, servers[i].at, i, channelCase.platform) /\ runtime \in RuntimeRecord
  BY ServerFields DEF ChannelInv, ChannelTypes
<1>2. PICK l : l = servers[i].link
  OBVIOUS
<1>3. PICK s : s = [servers[i] EXCEPT !.at = "Accepting", !.link = Nobody]
  OBVIOUS
<1>4. l \in Links /\ l # Nobody
  BY <1>1, <1>2 DEF ServerFits, ServerRecord
<1>5. "Accepting" \in ServingAt /\ "Accepting" \in {"Off", "Gone"} \cup LockedAt
  BY DEF LockedAt, TokenAt, ServingAt
<1>6. /\ s \in ServerRecord /\ s.at = "Accepting" /\ s.queue = servers[i].queue
      /\ s.link = Nobody /\ s.active = servers[i].active
  BY <1>1, <1>3, <1>5 DEF ServerRecord
<1>7. ServerFits(s)
  <2>1. Nobody \notin InQueue(servers[i].queue) /\ Nobody \notin servers[i].active
    BY <1>1, NobodyElse DEF ServerRecord, InQueue
  <2> QED  BY <1>1, <1>5, <1>6, <2>1 DEF ServerFits
<1>8. LinksOf(s) = LinksOf(servers[i]) \ {l} /\ {l} \subseteq LinksOf(servers[i])
  BY <1>1, <1>2, <1>4, <1>6 DEF LinksOf, InQueue, ServerFits
<1>9. \A k \in Links : /\ Awaits(s, k) => Awaits(servers[i], k)
                       /\ Proves(s, k) => Proves(servers[i], k)
                       /\ k \in s.active => k \in servers[i].active
  BY <1>6 DEF Awaits, Proves
<1>10. servers' = [servers EXCEPT ![i] = s] /\ links' = CloseServerEnd(ls, {l})
  BY <1>2, <1>3 DEF Refuses
<1>11. servers[i].at \in LockedAt
  BY DEF LockedAt, TokenAt, ServingAt
<1>12. RuntimeFits(runtime', s.at, i, channelCase.platform) /\ runtime' \in RuntimeRecord
  BY <1>1, <1>6, <1>11 DEF RuntimeFits, LockedAt, TokenAt, ServingAt
<1>13. \A k \in Links \ {l} : ls[k] = links[k]
  BY <1>2
<1>14. \A k \in {l} \cap Links : /\ ls[k] \in LinkRecord(channelCase)
       /\ StreamsFit(ls[k], bridge, served)
                                 /\ ls[k].client = links[k].client
  BY <1>2
<1> QED  BY <1>6, <1>7, <1>8, <1>9, <1>10, <1>11, <1>12, <1>13, <1>14, ServerHangs

LEMMA HandshakeGivenUp ==
  ASSUME ChannelInv, NEW i \in Supervisors, GiveUpHandshake(i), UNCHANGED callVars
  PROVE  ChannelInv'
<1>1. servers[i].at \in {"Hello", "Proof"} /\ Refuses(i, links) /\ UNCHANGED <<runtime, bridge,
      channelCase, callVars>>
  BY DEF GiveUpHandshake
<1>2. PICK ls : ls = links
  OBVIOUS
<1>3. Refuses(i, ls)
  BY <1>1, <1>2
<1>4. \A l \in Links : links[l] \in LinkRecord(channelCase) /\ StreamsFit(links[l], bridge, served)
  BY HeldLinks
<1> QED  BY <1>1, <1>2, <1>3, <1>4, HandshakeRefused

LEMMA EndsSession ==
  ASSUME ChannelInv, NEW i \in Supervisors, SessionEnds(i), UNCHANGED callVars
  PROVE  ChannelInv'
<1>1. servers[i] \in ServerRecord /\ ServerFits(servers[i])
      /\ RuntimeFits(runtime, servers[i].at, i, channelCase.platform) /\ runtime \in RuntimeRecord
  BY ServerFields DEF ChannelInv, ChannelTypes
<1>2. PICK l \in servers[i].active :
        /\ links' = CloseServerEnd(links, {l}) /\ servers' = [servers EXCEPT ![i].active = @ \ {l}]
        /\ UNCHANGED <<runtime, bridge, channelCase, spent>>
  BY DEF SessionEnds
<1>3. PICK s : s = [servers[i] EXCEPT !.active = @ \ {l}]
  OBVIOUS
<1>4. /\ s \in ServerRecord /\ s.at = servers[i].at /\ s.queue = servers[i].queue
      /\ s.link = servers[i].link /\ s.active = servers[i].active \ {l} /\ l \in Links
  BY <1>1, <1>3 DEF ServerRecord
<1>5. servers[i].at \in ServingAt
  BY <1>1 DEF ServerFits
<1>6. ServerFits(s)
  BY <1>1, <1>4, <1>5 DEF ServerFits
<1>7. LinksOf(s) = LinksOf(servers[i]) \ {l} /\ {l} \subseteq LinksOf(servers[i])
  BY <1>1, <1>4 DEF LinksOf, InQueue, ServerFits
<1>8. \A k \in Links : /\ Awaits(s, k) => Awaits(servers[i], k)
                       /\ Proves(s, k) => Proves(servers[i], k)
                       /\ k \in s.active => k \in servers[i].active
  BY <1>4 DEF Awaits, Proves
<1>9. servers' = [servers EXCEPT ![i] = s] /\ servers[i].at \in LockedAt
  BY <1>2, <1>3, <1>5 DEF LockedAt, TokenAt
<1>10. RuntimeFits(runtime', s.at, i, channelCase.platform) /\ runtime' \in RuntimeRecord
  BY <1>1, <1>2, <1>4
<1> QED  BY <1>2, <1>4, <1>6, <1>7, <1>8, <1>9, <1>10, ServerLeaves

(* What a Supervisor reads and writes of a handshake *)
LEMMA HandshakeAnswered ==
  ASSUME NEW x \in LinkRecord(channelCase), NEW y \in LinkRecord(channelCase), NEW done, NEW m,
         m \in ChannelMessages(channelCase), StreamsFit(x, bridge, done), x.server, x.client,
         Arrived(x.up), x.down = <<>>, x.writing = <<>>, x.work = {},
         bridge.at \in {"Challenge", "Acceptance"},
         y.up = Rest(x.up), y.down = Frame(m), y.client = x.client, y.server = x.server,
         y.gotDown = x.gotDown, y.writing = x.writing, y.work = x.work
  PROVE  StreamsFit(y, bridge, done)
<1>1. x.gotDown = <<>> /\ InStep(x.up)
  BY DEF StreamsFit
<1>2. x.up \in Seq(Units(channelCase))
  BY DEF LinkRecord, Streams
<1>3. InStep(Rest(x.up))
  BY <1>1, <1>2, StreamsGoOn
<1>4. /\ Frame(m) \in Seq(Units(channelCase)) /\ Len(Frame(m)) = FrameUnits
      /\ DOMAIN Frame(m) = 1..FrameUnits /\ InStep(Frame(m)) /\ WholeFrames(Frame(m))
  BY AFrame DEF Units
<1>5. (y.gotDown \o y.down) \o y.writing = Frame(m)
  BY <1>1, <1>4
<1>6. InStep((y.gotDown \o y.down) \o y.writing) /\ WholeFrames((y.gotDown \o y.down) \o y.writing)
  BY ONLY <1>4, <1>5, Zenon
<1>7. \A k \in DOMAIN y.down : ~(k > FrameUnits)
  BY ONLY <1>4, FrameLength, y.down = Frame(m)
<1>8. Carries(y.writing, Replies(done)) /\ y.work \subseteq done
  BY DEF StreamsFit
<1>9. y.client /\ y.server /\ InStep(y.up) /\ y.gotDown = <<>> /\ y.writing = <<>>
      /\ Len(y.down) = FrameUnits
  BY <1>1, <1>3, <1>4
<1>10. bridge.at # "Connected"
  OBVIOUS
<1> QED  BY ONLY <1>6, <1>7, <1>8, <1>9, <1>10, Zenon DEF StreamsFit

------------------------------------------------------------
(* One connection moves on. *)

ElsewhereTheSame(l) ==
  \A j \in Supervisors, k \in Links \ {l} :
    /\ Awaits(servers'[j], k) => Awaits(servers[j], k)
    /\ Proves(servers'[j], k) => Proves(servers[j], k)
    /\ k \in servers'[j].active => k \in servers[j].active

LEMMA LinkMoves ==
  ASSUME ChannelInv, NEW l \in Links, NEW y \in LinkRecord(channelCase),
         links' = [links EXCEPT ![l] = y], y.client = links[l].client, y.server = links[l].server,
         servers' \in [Supervisors -> ServerRecord], ServersFit',
         \A j \in Supervisors : LinksOf(servers'[j]) = LinksOf(servers[j]), ElsewhereTheSame(l),
         runtime' = runtime, RuntimesFit', channelCase' = channelCase,
         bridge' \in BridgeRecord(channelCase), bridge'.link = bridge.link,
         bridge'.link # Nobody <=> bridge'.at \in LinkedAt,
         bridge' = bridge \/ bridge.link = l,
         CallsFitAfter, callers' \in CallersRecord, served' \subseteq Calls,
         FitsAfter(l)
  PROVE  ChannelInv'
<1>1. ChannelTypes /\ EndsFit
  BY DEF ChannelInv
<1>2. /\ links' \in [Links -> LinkRecord(channelCase)] /\ links'[l] = y
      /\ \A k \in Links : k # l => links'[k] = links[k]
  BY <1>1 DEF ChannelTypes
<1>3. ChannelTypes'
  BY <1>1, <1>2 DEF ChannelTypes
<1>4. \A k \in Links : links'[k].client = links[k].client /\ links'[k].server = links[k].server
  BY <1>2
<1>5. EndsFit'
  BY <1>1, <1>4 DEF EndsFit
<1>6. ASSUME NEW k \in Links, k # l PROVE Untouched(k)
  <2>1. links'[k] = links[k]
    BY <1>2, <1>6
  <2>2. links[k].client <=> bridge.link = k
    BY HeldLinks
  <2>3. bridge' = bridge \/ ~links[k].client
    BY <1>6, <2>2
  <2> QED  BY <1>6, <2>1, <2>3 DEF Untouched, ElsewhereTheSame
<1> QED  BY <1>3, <1>5, <1>6, StepsFit

(* A step of a Supervisor in service *)
LEMMA ServerTakes ==
  ASSUME ChannelInv, NEW i \in Supervisors, NEW l \in Links, NEW y \in LinkRecord(channelCase),
         links' = [links EXCEPT ![l] = y], y.client = links[l].client, y.server = links[l].server,
         NEW s \in ServerRecord, servers' = [servers EXCEPT ![i] = s], ServerFits(s),
         servers[i].at \in ServingAt, s.at \in ServingAt,
         LinksOf(s) = LinksOf(servers[i]), l \in LinksOf(servers[i]),
         \A k \in Links \ {l} : /\ Awaits(s, k) => Awaits(servers[i], k)
                                /\ Proves(s, k) => Proves(servers[i], k)
                                /\ k \in s.active => k \in servers[i].active,
         UNCHANGED <<runtime, bridge, channelCase, callers>>, served' \subseteq Calls,
         CallsFitAfter, StreamsFit(y, bridge, served'),
         StagesFit(channelCase, s, i, l, y, bridge, Ordered(callers))
  PROVE  ChannelInv'
<1>1. ChannelTypes /\ EndsFit
  BY DEF ChannelInv
<1>2. /\ servers' \in [Supervisors -> ServerRecord] /\ servers'[i] = s
      /\ \A j \in Supervisors : j # i => servers'[j] = servers[j]
  BY <1>1 DEF ChannelTypes
<1>3. ServersFit'
  BY <1>2, ServerFields DEF ServersFit
<1>4. \A j \in Supervisors : LinksOf(servers'[j]) = LinksOf(servers[j])
  BY <1>2
<1>5. ElsewhereTheSame(l)
  BY <1>2 DEF ElsewhereTheSame
<1>6. RuntimesFit'
  <2>1. servers[i].at \in LockedAt
    BY DEF LockedAt, TokenAt
  <2>2. RuntimeFits(runtime, servers[i].at, i, channelCase.platform)
    BY ServerFields
  <2>3. RuntimeFits(runtime', servers'[i].at, i, channelCase.platform)
    BY <1>2, <2>2 DEF RuntimeFits, LockedAt, TokenAt
  <2> QED  BY <1>2, <2>1, <2>3, OthersFit
<1>7. links'[l] = y
  BY <1>1 DEF ChannelTypes
<1>8. FitsAfter(l)
  <2>1. StreamsFit(links'[l], bridge', served')
    BY <1>7
  <2>2. ASSUME NEW j \in Supervisors
        PROVE  StagesFit(channelCase, servers'[j], j, l, links'[l], bridge', Ordered(callers'))
    <3>1. CASE j = i
      BY <1>2, <1>7, <3>1
    <3>2. CASE j # i
      BY <1>2, <3>2, HeldLinks, HasLink DEF StagesFit
    <3> QED  BY <3>1, <3>2
  <2> QED  BY <2>1, <2>2 DEF FitsAfter
<1>9. bridge' \in BridgeRecord(channelCase) /\ bridge' = bridge /\ bridge'.link = bridge.link
      /\ (bridge'.link # Nobody <=> bridge'.at \in LinkedAt) /\ callers' \in CallersRecord
  BY <1>1 DEF ChannelTypes, EndsFit
<1> QED  BY <1>2, <1>3, <1>4, <1>5, <1>6, <1>8, <1>9, LinkMoves

LEMMA AcceptsNext ==
  ASSUME ChannelInv, NEW i \in Supervisors, AcceptNext(i), UNCHANGED callVars
  PROVE  ChannelInv'
<1>1. /\ servers[i].at = "Accepting" /\ servers[i].queue # <<>> /\ links' = links
      /\ servers' = [servers EXCEPT ![i].at = "Hello", ![i].link = Head(servers[i].queue),
         ![i].queue = Tail(@)]
      /\ UNCHANGED <<runtime, bridge, channelCase, callers, served>>
  BY DEF AcceptNext, callVars
<1>2. PICK l : l = Head(servers[i].queue)
  OBVIOUS
<1>3. PICK s : s = [servers[i] EXCEPT !.at = "Hello", !.link = l, !.queue = Tail(@)]
  OBVIOUS
<1>4. servers[i] \in ServerRecord /\ ServerFits(servers[i])
  BY ServerFields
<1>5. servers[i].queue \in Seq(Links) /\ NoneTwice(servers[i].queue)
  BY <1>4 DEF ServerRecord, ServerFits
<1>6. /\ Tail(servers[i].queue) \in Seq(Links) /\ l \in InQueue(servers[i].queue) /\ l \in Links
      /\ InQueue(Tail(servers[i].queue)) = InQueue(servers[i].queue) \ {l}
      /\ NoneTwice(Tail(servers[i].queue))
  BY <1>1, <1>2, <1>5, FirstGoes
<1>7. "Hello" \in ServingAt /\ "Accepting" \in ServingAt
      /\ "Hello" \in {"Off", "Gone"} \cup LockedAt
  BY DEF LockedAt, TokenAt, ServingAt
<1>8. /\ s \in ServerRecord /\ s.at = "Hello" /\ s.queue = Tail(servers[i].queue)
      /\ s.link = l /\ s.active = servers[i].active
  BY <1>3, <1>4, <1>6, <1>7 DEF ServerRecord
<1>9. ServerFits(s)
  BY <1>4, <1>6, <1>7, <1>8, NobodyElse DEF ServerFits
<1>10. servers[i].link = Nobody
  BY <1>1, <1>4 DEF ServerFits
<1>11. LinksOf(s) = LinksOf(servers[i]) /\ l \in LinksOf(servers[i])
  <2>1. /\ LinksOf(s) = s.active \cup InQueue(s.queue) \cup ({s.link} \ {Nobody})
        /\ LinksOf(servers[i]) = servers[i].active \cup InQueue(servers[i].queue) \cup ({servers[i].link} \ {Nobody})
    BY DEF LinksOf, InQueue
  <2> QED  BY <1>6, <1>8, <1>10, <2>1, NobodyElse
<1>12. \A k \in Links : /\ Awaits(s, k) => Awaits(servers[i], k)
                        /\ Proves(s, k) => Proves(servers[i], k)
                        /\ k \in s.active => k \in servers[i].active
  BY <1>6, <1>8 DEF Awaits, Proves
<1>13. servers' = [servers EXCEPT ![i] = s]
  BY <1>1, <1>2, <1>3
<1>14. PICK y : y = links[l]
  OBVIOUS
<1>15. y \in LinkRecord(channelCase) /\ StreamsFit(y, bridge, served)
       /\ StagesFit(channelCase, servers[i], i, l, y, bridge, Ordered(callers))
  BY <1>6, <1>14, HeldLinks
<1>16. links' = [links EXCEPT ![l] = y]
  BY <1>1, <1>6, <1>14 DEF ChannelInv, ChannelTypes
<1>17. StagesFit(channelCase, s, i, l, y, bridge, Ordered(callers))
  BY <1>6, <1>12, <1>15, StagesStay
<1>18. CallsFitAfter /\ served' \subseteq Calls
  BY <1>1, CallsStay DEF callVars
<1>19. StreamsFit(y, bridge, served')
  BY <1>1, <1>15
<1> QED  BY <1>1, <1>6, <1>7, <1>8, <1>9, <1>11, <1>12, <1>13, <1>14, <1>15, <1>16, <1>17, <1>18,
                <1>19, ServerTakes, ZenonT(60)


LEMMA InHand ==
  ASSUME ChannelInv, NEW i \in Supervisors, servers[i].at \in {"Hello", "Proof"}
  PROVE  /\ servers[i].link \in Links /\ servers[i].link \in LinksOf(servers[i])
         /\ links[servers[i].link].server
         /\ servers[i].link \notin InQueue(servers[i].queue)
         /\ servers[i].link \notin servers[i].active
<1>1. servers[i] \in ServerRecord /\ ServerFits(servers[i])
  BY ServerFields
<1>2. servers[i].link \in Links
  BY <1>1 DEF ServerFits, ServerRecord
<1>3. servers[i].link \in LinksOf(servers[i])
  BY <1>2, HasLink
<1>4. links[servers[i].link].server
  BY <1>2, <1>3, HeldLinks
<1> QED  BY <1>1, <1>2, <1>3, <1>4 DEF ServerFits

(* What is said on a connection *)
LEMMA MessagesOf ==
  ASSUME NEW i \in Supervisors
  PROVE  /\ Hello(channelCase.offers) \in ChannelMessages(channelCase)
         /\ Rejected("IncompatibleVersion") \in ChannelMessages(channelCase)
         /\ Rejected("AuthenticationFailed") \in ChannelMessages(channelCase)
         /\ Challenge(Spoken(channelCase, i), ServerProof(channelCase,
            i)) \in ChannelMessages(channelCase)
         /\ ClientProof(BridgeProof(channelCase, i)) \in ChannelMessages(channelCase)
         /\ Accepted(Spoken(channelCase, i)) \in ChannelMessages(channelCase)
         /\ Spoken(channelCase, i) \in ChannelVersions(channelCase)
BY DEF ChannelMessages, ChannelVersions

LEMMA ReceivesHello ==
  ASSUME ChannelInv, NEW i \in Supervisors, ReceiveHello(i), UNCHANGED callVars
  PROVE  ChannelInv'
<1>1. /\ servers[i].at = "Hello" /\ Arrived(links[servers[i].link].up)
      /\ UNCHANGED <<runtime, bridge, channelCase, callVars>>
  BY DEF ReceiveHello
<1>2. PICK l : l = servers[i].link
  OBVIOUS
<1>3. PICK x : x = links[l]
  OBVIOUS
<1>4. /\ l \in Links /\ l \in LinksOf(servers[i]) /\ l \notin InQueue(servers[i].queue)
      /\ l \notin servers[i].active
      /\ links \in [Links -> LinkRecord(channelCase)]
  BY <1>1, <1>2, InHand DEF ChannelInv, ChannelTypes
<1>5. /\ x \in LinkRecord(channelCase) /\ StreamsFit(x, bridge, served) /\ x.client \in BOOLEAN
      /\ x.server = TRUE /\ StagesFit(channelCase, servers[i], i, l, x, bridge, Ordered(callers))
  BY <1>3, <1>4, HeldLinks
<1>6. AwaitingFits(channelCase, x, bridge)
  BY <1>1, <1>2, <1>5 DEF StagesFit, Awaits
<1>7. /\ x.up = Frame(Hello(channelCase.offers)) /\ x.down = <<>> /\ x.writing = <<>> /\ x.work = {}
      /\ x.client => bridge.at = "Challenge"
  BY <1>6 DEF AwaitingFits
<1>8. Message(x.up) = Hello(channelCase.offers) /\ Rest(x.up) = <<>>
  BY <1>7, MessagesOf, AFrame
<1>9. Message(x.up).versions = channelCase.offers
  BY <1>8 DEF Hello
<1>10. Negotiated(channelCase.offers, channelCase.versions[i]) = Spoken(channelCase, i)
  BY DEF Spoken
<1>11. <<>> \in Streams(channelCase)
  BY DEF Streams
<1>12. PICK ls : ls = [links EXCEPT ![l].up = Rest(@)]
  OBVIOUS
<1>13. /\ ls[l] \in LinkRecord(channelCase) /\ ls[l] = [x EXCEPT !.up = <<>>]
       /\ \A k \in Links : k # l => ls[k] = links[k]
  BY <1>3, <1>4, <1>5, <1>8, <1>11, <1>12 DEF LinkRecord
<1>14. CASE x.client = FALSE
  <2>1. Refuses(i, ls)
    BY <1>2, <1>3, <1>12, <1>14 DEF ReceiveHello
  <2>2. StreamsFit(ls[l], bridge, served) /\ ls[l].client = x.client
    BY <1>5, <1>13, <1>14, NothingIsInStep DEF StreamsFit, LinkRecord
  <2>3. /\ \A k \in Links : k # servers[i].link => ls[k] = links[k]
        /\ \A k \in Links : k = servers[i].link =>
             /\ ls[k] \in LinkRecord(channelCase) /\ StreamsFit(ls[k], bridge, served)
             /\ ls[k].client = links[k].client
    BY <1>2, <1>3, <1>13, <2>2
  <2> QED  BY <1>1, <2>1, <2>3, HandshakeRefused
<1>15. CASE x.client = TRUE
  <2>1. bridge.at \in {"Challenge", "Acceptance"} /\ Arrived(x.up)
    BY <1>1, <1>2, <1>3, <1>7, <1>15
  <2>2. CASE Common(channelCase.offers, channelCase.versions[i]) = {}
    <3>1. PICK m : m = Rejected("IncompatibleVersion")
      OBVIOUS
    <3>2. PICK lt : lt = [ls EXCEPT ![l].down = @ \o Frame(m)]
      OBVIOUS
    <3>3. Refuses(i, lt)
      BY <1>2, <1>3, <1>9, <1>12, <1>15, <2>2, <3>1, <3>2 DEF ReceiveHello
    <3>4. m \in ChannelMessages(channelCase) /\ Frame(m) \in Streams(channelCase)
      BY <3>1, MessagesOf, AFrame DEF Streams, Units
    <3>5. <<>> \o Frame(m) = Frame(m)
      BY <3>4 DEF Streams
    <3>6. /\ \A k \in Links : k # l => lt[k] = links[k]
          /\ lt[l] = [x EXCEPT !.up = <<>>, !.down = Frame(m)]
      <4>1. DOMAIN ls = Links
        BY <1>4, <1>12
      <4>2. PICK z : z = ls[l]
        OBVIOUS
      <4>3. z = [x EXCEPT !.up = <<>>] /\ z.down = <<>>
        BY <1>5, <1>7, <1>13, <4>2 DEF LinkRecord
      <4>4. lt[l] = [z EXCEPT !.down = @ \o Frame(m)]
        BY <1>4, <3>2, <4>1, <4>2
      <4>5. lt[l] = [z EXCEPT !.down = Frame(m)]
        BY <3>5, <4>3, <4>4
      <4> QED  BY <1>4, <1>5, <1>13, <3>2, <4>1, <4>3, <4>5 DEF LinkRecord
    <3>7. /\ lt[l] \in LinkRecord(channelCase) /\ lt[l].up = Rest(x.up) /\ lt[l].down = Frame(m)
          /\ lt[l].client = x.client /\ lt[l].server = x.server /\ lt[l].gotDown = x.gotDown
          /\ lt[l].writing = x.writing /\ lt[l].work = x.work
      BY <1>5, <1>8, <1>11, <3>4, <3>6, ZenonT(60) DEF LinkRecord
    <3>8. StreamsFit(lt[l], bridge, served)
      BY <1>5, <1>7, <1>15, <2>1, <3>4, <3>7, HandshakeAnswered
    <3>9. /\ \A k \in Links : k # servers[i].link => lt[k] = links[k]
          /\ \A k \in Links : k = servers[i].link =>
               /\ lt[k] \in LinkRecord(channelCase) /\ StreamsFit(lt[k], bridge, served)
               /\ lt[k].client = links[k].client
      BY <1>2, <1>3, <3>6, <3>7, <3>8
    <3> QED  BY <1>1, <3>3, <3>9, HandshakeRefused
  <2>3. CASE Common(channelCase.offers, channelCase.versions[i]) # {}
    <3>1. PICK m : m = Challenge(Spoken(channelCase, i), ServerProof(channelCase, i))
      OBVIOUS
    <3>2. PICK y : y = [x EXCEPT !.up = <<>>, !.version = Spoken(channelCase, i), !.down = Frame(m)]
      OBVIOUS
    <3>3. m \in ChannelMessages(channelCase) /\ Frame(m) \in Streams(channelCase)
          /\ Spoken(channelCase, i) \in ChannelVersions(channelCase)
      BY <3>1, MessagesOf, AFrame DEF Streams, Units
    <3>4. <<>> \o Frame(m) = Frame(m)
      BY <3>3 DEF Streams
    <3>5. /\ links' = [ls EXCEPT ![l].version = Spoken(channelCase, i), ![l].down = @ \o Frame(m)]
          /\ servers' = [servers EXCEPT ![i].at = "Proof"]
      BY <1>2, <1>3, <1>9, <1>10, <1>12, <1>15, <2>3, <3>1, ZenonT(60) DEF ReceiveHello, ServerProof
    <3>6. links' = [links EXCEPT ![l] = y]
      BY <1>3, <1>4, <1>5, <1>7, <1>8, <1>12, <3>2, <3>4, <3>5 DEF LinkRecord
    <3>7. /\ y \in LinkRecord(channelCase) /\ y.up = <<>> /\ y.down = Frame(m)
          /\ y.client = x.client /\ y.server = x.server /\ y.gotDown = x.gotDown
          /\ y.writing = x.writing /\ y.work = x.work /\ y.version = Spoken(channelCase, i)
      BY <1>5, <1>11, <3>2, <3>3 DEF LinkRecord
    <3>8. StreamsFit(y, bridge, served)
      BY <1>5, <1>7, <1>8, <1>15, <2>1, <3>3, <3>7, HandshakeAnswered
    <3>9. PICK s : s = [servers[i] EXCEPT !.at = "Proof"]
      OBVIOUS
    <3>10. servers[i] \in ServerRecord /\ ServerFits(servers[i])
      BY ServerFields
    <3>11. "Proof" \in ServingAt /\ "Hello" \in ServingAt
           /\ "Proof" \in {"Off", "Gone"} \cup LockedAt
      BY DEF LockedAt, TokenAt, ServingAt
    <3>12. /\ s \in ServerRecord /\ s.at = "Proof" /\ s.queue = servers[i].queue
           /\ s.link = l /\ s.active = servers[i].active
      BY <1>2, <3>9, <3>10, <3>11 DEF ServerRecord
    <3>13. ServerFits(s)
      BY <1>1, <1>2, <3>10, <3>11, <3>12 DEF ServerFits
    <3>14. LinksOf(s) = LinksOf(servers[i])
      BY <1>2, <3>12 DEF LinksOf
    <3>15. \A k \in Links \ {l} : /\ Awaits(s, k) => Awaits(servers[i], k)
                                  /\ Proves(s, k) => Proves(servers[i], k)
                                  /\ k \in s.active => k \in servers[i].active
      BY <3>12 DEF Awaits, Proves
    <3>16. ~Awaits(s, l) /\ l \notin s.active
      BY <1>4, <3>12 DEF Awaits
    <3>17. ProvingFits(channelCase, y, bridge, i)
      BY <1>7, <1>15, <3>1, <3>7 DEF ProvingFits
    <3>18. StagesFit(channelCase, s, i, l, y, bridge, Ordered(callers))
      BY <3>16, <3>17 DEF StagesFit
    <3>19. servers' = [servers EXCEPT ![i] = s]
      BY <3>5, <3>9
    <3>20. CallsFitAfter /\ served' \subseteq Calls /\ UNCHANGED <<callers, served>>
      BY <1>1, CallsStay DEF callVars
    <3>21. StreamsFit(y, bridge, served')
      BY <3>8, <3>20
    <3> QED  BY <1>1, <1>3, <1>4, <3>6, <3>7, <3>10, <3>11, <3>12, <3>13, <3>14, <3>15, <3>18,
                    <3>19,
                <3>20, <3>21, ServerTakes
  <2> QED  BY <2>2, <2>3
<1> QED  BY <1>5, <1>14, <1>15


LEMMA ReceivesProof ==
  ASSUME ChannelInv, NEW i \in Supervisors, ReceiveProof(i), UNCHANGED callVars
  PROVE  ChannelInv'
<1>1. /\ servers[i].at = "Proof" /\ Arrived(links[servers[i].link].up)
      /\ UNCHANGED <<runtime, bridge, channelCase, callVars>>
  BY DEF ReceiveProof
<1>2. PICK l : l = servers[i].link
  OBVIOUS
<1>3. PICK x : x = links[l]
  OBVIOUS
<1>4. /\ l \in Links /\ l \in LinksOf(servers[i]) /\ l \notin InQueue(servers[i].queue)
      /\ l \notin servers[i].active
      /\ links \in [Links -> LinkRecord(channelCase)]
  BY <1>1, <1>2, InHand DEF ChannelInv, ChannelTypes
<1>5. /\ x \in LinkRecord(channelCase) /\ StreamsFit(x, bridge, served) /\ x.client \in BOOLEAN
      /\ x.server = TRUE /\ StagesFit(channelCase, servers[i], i, l, x, bridge, Ordered(callers))
  BY <1>3, <1>4, HeldLinks
<1>6. ProvingFits(channelCase, x, bridge, i) /\ Arrived(x.up)
  BY <1>1, <1>2, <1>3, <1>5 DEF StagesFit, Proves
<1>7. /\ x.version = Spoken(channelCase, i) /\ x.writing = <<>> /\ x.work = {}
      /\ x.client => /\ bridge.at = "Acceptance" /\ bridge.token = i
         /\ bridge.version = Spoken(channelCase, i)
                     /\ Len(x.up) = FrameUnits /\ x.down = <<>>
  BY <1>6, FrameLength DEF ProvingFits, Arrived
<1>8. x.up \in Seq(Units(channelCase)) /\ InStep(x.up) /\ x.down \in Streams(channelCase)
  BY <1>5 DEF LinkRecord, StreamsFit, Streams
<1>9. Rest(x.up) \in Streams(channelCase) /\ InStep(Rest(x.up)) /\ (x.client => Rest(x.up) = <<>>)
  <2>1. Rest(x.up) \in Seq(Units(channelCase)) /\ InStep(Rest(x.up))
        /\ Len(Rest(x.up)) = Len(x.up) - FrameUnits
    BY <1>6, <1>8, StreamsGoOn
  <2>2. x.client => Len(Rest(x.up)) = 0
    BY <1>7, <2>1, FrameLength
  <2>3. Len(Rest(x.up)) = 0 => Rest(x.up) = <<>>
    BY <2>1
  <2> QED  BY <2>1, <2>2, <2>3 DEF Streams
<1>10. PICK ls : ls = [links EXCEPT ![l].up = Rest(@)]
  OBVIOUS
<1>11. PICK z : z = [x EXCEPT !.up = Rest(@)]
  OBVIOUS
<1>12. /\ z \in LinkRecord(channelCase) /\ z.up = Rest(x.up) /\ z.down = x.down
       /\ z.client = x.client /\ z.server = x.server /\ z.gotDown = x.gotDown
       /\ z.writing = x.writing /\ z.work = x.work /\ z.version = x.version
  BY <1>5, <1>9, <1>11 DEF LinkRecord
<1>13. /\ ls[l] = z /\ DOMAIN ls = Links
       /\ \A k \in Links : k # l => ls[k] = links[k]
  BY <1>3, <1>4, <1>10, <1>11
<1>14. CASE x.client = FALSE
  <2>1. PICK lt : lt = [ls EXCEPT ![l].down = IF ls[l].client THEN @ \o Frame(Rejected("AuthenticationFailed")) ELSE @]
    OBVIOUS
  <2>2. Refuses(i, lt)
    BY <1>2, <1>3, <1>10, <1>14, <2>1 DEF ReceiveProof
  <2>3. /\ lt[l] = [z EXCEPT !.down = IF z.client THEN @ \o Frame(Rejected("AuthenticationFailed")) ELSE @]
        /\ \A k \in Links : k # l => lt[k] = links[k]
    BY <1>4, <1>13, <2>1
  <2>4. lt[l] = z
    BY <1>12, <1>14, <2>3 DEF LinkRecord
  <2>5. StreamsFit(z, bridge, served)
    BY <1>5, <1>9, <1>12, <1>14 DEF StreamsFit
  <2>6. /\ \A k \in Links : k # servers[i].link => lt[k] = links[k]
        /\ \A k \in Links : k = servers[i].link =>
             /\ lt[k] \in LinkRecord(channelCase) /\ StreamsFit(lt[k], bridge, served)
             /\ lt[k].client = links[k].client
    BY <1>2, <1>3, <1>12, <2>3, <2>4, <2>5
  <2> QED  BY <1>1, <2>2, <2>6, HandshakeRefused
<1>15. CASE x.client = TRUE
  <2>1. bridge.at \in {"Challenge", "Acceptance"} /\ x.down = <<>>
    BY <1>7, <1>15
  <2>2. CASE ~ProvesClient(i, Message(x.up), x.version)
    <3>1. PICK m : m = Rejected("AuthenticationFailed")
      OBVIOUS
    <3>2. PICK lt : lt = [ls EXCEPT ![l].down = IF ls[l].client THEN @ \o Frame(m) ELSE @]
      OBVIOUS
    <3>3. Refuses(i, lt)
      BY <1>2, <1>3, <1>10, <2>2, <3>1, <3>2 DEF ReceiveProof
    <3>4. m \in ChannelMessages(channelCase) /\ Frame(m) \in Streams(channelCase)
      BY <3>1, MessagesOf, AFrame DEF Streams, Units
    <3>5. <<>> \o Frame(m) = Frame(m)
      BY <3>4 DEF Streams
    <3>6. /\ \A k \in Links : k # l => lt[k] = links[k]
          /\ lt[l] = [z EXCEPT !.down = Frame(m)]
      <4>1. lt[l] = [z EXCEPT !.down = IF z.client THEN @ \o Frame(m) ELSE @]
        BY <1>4, <1>13, <3>2
      <4>3. z.client = TRUE /\ z.down \o Frame(m) = Frame(m)
        BY <1>12, <1>15, <2>1, <3>5
      <4>4. (IF z.client THEN z.down \o Frame(m) ELSE z.down) = Frame(m)
        BY ONLY <4>3
      <4>2. lt[l] = [z EXCEPT !.down = Frame(m)]
        BY ONLY <4>1, <4>4
      <4> QED  BY <1>4, <1>13, <3>2, <4>2
    <3>7. /\ lt[l] \in LinkRecord(channelCase) /\ lt[l].up = Rest(x.up) /\ lt[l].down = Frame(m)
          /\ lt[l].client = x.client /\ lt[l].server = x.server /\ lt[l].gotDown = x.gotDown
          /\ lt[l].writing = x.writing /\ lt[l].work = x.work
      BY <1>12, <3>4, <3>6 DEF LinkRecord
    <3>8. StreamsFit(lt[l], bridge, served)
      BY <1>5, <1>6, <1>7, <1>15, <2>1, <3>4, <3>7, HandshakeAnswered
    <3>9. /\ \A k \in Links : k # servers[i].link => lt[k] = links[k]
          /\ \A k \in Links : k = servers[i].link =>
               /\ lt[k] \in LinkRecord(channelCase) /\ StreamsFit(lt[k], bridge, served)
               /\ lt[k].client = links[k].client
      BY <1>2, <1>3, <3>6, <3>7, <3>8
    <3> QED  BY <1>1, <3>3, <3>9, HandshakeRefused
  <2>3. CASE ProvesClient(i, Message(x.up), x.version)
    <3>1. PICK m : m = Accepted(Spoken(channelCase, i))
      OBVIOUS
    <3>2. PICK y : y = [z EXCEPT !.down = Frame(m)]
      OBVIOUS
    <3>3. m \in ChannelMessages(channelCase) /\ Frame(m) \in Streams(channelCase)
      BY <3>1, MessagesOf, AFrame DEF Streams, Units
    <3>4. <<>> \o Frame(m) = Frame(m)
      BY <3>3 DEF Streams
    <3>5. /\ links' = [ls EXCEPT ![l].down = @ \o Frame(m)]
          /\ servers' = [servers EXCEPT ![i].at = "Accepting", ![i].link = Nobody,
             ![i].active = @ \cup {l}]
      BY <1>2, <1>3, <1>7, <1>10, <1>15, <2>3, <3>1 DEF ReceiveProof
    <3>6. links' = [links EXCEPT ![l] = y]
      <4>1. y = [z EXCEPT !.down = @ \o Frame(m)]
        BY <1>12, <2>1, <3>2, <3>4
      <4>2. links' = [ls EXCEPT ![l] = y]
        BY <1>4, <1>13, <3>5, <4>1
      <4> QED  BY <1>10, <4>2
    <3>7. /\ y \in LinkRecord(channelCase) /\ y.up = Rest(x.up) /\ y.down = Frame(m)
          /\ y.client = x.client /\ y.server = x.server /\ y.gotDown = x.gotDown
          /\ y.writing = x.writing /\ y.work = x.work /\ y.version = Spoken(channelCase, i)
      BY <1>7, <1>12, <3>2, <3>3 DEF LinkRecord
    <3>8. StreamsFit(y, bridge, served)
      BY <1>5, <1>6, <1>7, <1>15, <2>1, <3>3, <3>7, HandshakeAnswered
    <3>9. PICK s : s = [servers[i] EXCEPT !.at = "Accepting", !.link = Nobody,
          !.active = @ \cup {l}]
      OBVIOUS
    <3>10. servers[i] \in ServerRecord /\ ServerFits(servers[i])
      BY ServerFields
    <3>11. "Proof" \in ServingAt /\ "Accepting" \in ServingAt
           /\ "Accepting" \in {"Off", "Gone"} \cup LockedAt
      BY DEF LockedAt, TokenAt, ServingAt
    <3>12. /\ s \in ServerRecord /\ s.at = "Accepting" /\ s.queue = servers[i].queue
           /\ s.link = Nobody /\ s.active = servers[i].active \cup {l}
      BY <1>4, <3>9, <3>10, <3>11 DEF ServerRecord
    <3>13. ServerFits(s)
      <4>1. Nobody \notin InQueue(servers[i].queue) /\ Nobody \notin servers[i].active
        BY <3>10, NobodyElse DEF ServerRecord, InQueue
      <4> QED  BY <1>4, <3>10, <3>11, <3>12, <4>1, NobodyElse DEF ServerFits
    <3>14. LinksOf(s) = LinksOf(servers[i])
      BY <1>2, <1>4, <3>12, NobodyElse DEF LinksOf, InQueue
    <3>15. \A k \in Links \ {l} : /\ Awaits(s, k) => Awaits(servers[i], k)
                                  /\ Proves(s, k) => Proves(servers[i], k)
                                  /\ k \in s.active => k \in servers[i].active
      BY <3>12 DEF Awaits, Proves
    <3>16. ~Awaits(s, l) /\ ~Proves(s, l)
      BY <1>4, <3>12 DEF Awaits, Proves
    <3>17. ServedFits(channelCase, y, bridge, i, Ordered(callers))
      <4>1. y.up = <<>>
        BY <1>9, <1>15, <3>7
      <4>2. Carries(y.up, Asks(Ordered(callers))) /\ WholeFrames(y.up)
        BY <4>1, NothingIsInStep DEF Carries
      <4> QED  BY <1>7, <1>15, <3>7, <4>2 DEF ServedFits
    <3>18. StagesFit(channelCase, s, i, l, y, bridge, Ordered(callers))
      BY <3>16, <3>17 DEF StagesFit
    <3>19. servers' = [servers EXCEPT ![i] = s]
      BY <3>5, <3>9
    <3>20. CallsFitAfter /\ served' \subseteq Calls /\ UNCHANGED <<callers, served>>
      BY <1>1, CallsStay DEF callVars
    <3>21. StreamsFit(y, bridge, served')
      BY <3>8, <3>20
    <3> QED  BY <1>1, <1>3, <1>4, <3>6, <3>7, <3>10, <3>11, <3>12, <3>13, <3>14, <3>15, <3>18,
                    <3>19,
                <3>20, <3>21, ServerTakes
  <2> QED  BY <2>2, <2>3
<1> QED  BY <1>5, <1>14, <1>15

------------------------------------------------------------
(* A session *)

LEMMA SessionMoves ==
  ASSUME ChannelInv, NEW i \in Supervisors, NEW l \in servers[i].active,
         NEW y \in LinkRecord(channelCase),
         links' = [links EXCEPT ![l] = y], y.client = links[l].client, y.server = links[l].server,
         y.version = links[l].version,
         UNCHANGED <<runtime, servers, bridge, channelCase, callers>>, served' \subseteq Calls,
         CallsFitAfter, StreamsFit(y, bridge, served'),
         Carries(y.up, Asks(Ordered(callers))), y.client => WholeFrames(y.up)
  PROVE  ChannelInv'
<1>1. PICK s : s = servers[i]
  OBVIOUS
<1>2. s \in ServerRecord /\ ServerFits(s) /\ l \in Links /\ l \in LinksOf(s)
  BY <1>1, ServerFields DEF LinksOf
<1>3. servers' = [servers EXCEPT ![i] = s] /\ s.at \in ServingAt
  BY <1>1, <1>2 DEF ServerFits, ChannelInv, ChannelTypes
<1>4. StagesFit(channelCase, s, i, l, links[l], bridge, Ordered(callers))
  BY <1>1, <1>2, HeldLinks
<1>5. ServedFits(channelCase, links[l], bridge, i, Ordered(callers))
  BY <1>1, <1>4 DEF StagesFit
<1>6. ~Awaits(s, l) /\ ~Proves(s, l)
  BY <1>1, <1>2 DEF ServerFits, Awaits, Proves
<1>7. ServedFits(channelCase, y, bridge, i, Ordered(callers))
  BY <1>5 DEF ServedFits
<1>8. StagesFit(channelCase, s, i, l, y, bridge, Ordered(callers))
  BY <1>6, <1>7 DEF StagesFit
<1> QED  BY <1>1, <1>2, <1>3, <1>8, ServerTakes

LEMMA InSession ==
  ASSUME ChannelInv, NEW i \in Supervisors, NEW l \in servers[i].active
  PROVE  /\ l \in Links /\ links[l] \in LinkRecord(channelCase)
         /\ StreamsFit(links[l], bridge, served)
         /\ links[l].client \in BOOLEAN /\ links[l].server = TRUE
         /\ Carries(links[l].up, Asks(Ordered(callers)))
         /\ links[l].client => bridge.at \in {"Acceptance", "Connected"} /\ WholeFrames(links[l].up)
<1>1. l \in Links /\ l \in LinksOf(servers[i])
  BY ServerFields DEF LinksOf
<1>2. StagesFit(channelCase, servers[i], i, l, links[l], bridge, Ordered(callers))
  BY <1>1, HeldLinks
<1>3. ServedFits(channelCase, links[l], bridge, i, Ordered(callers))
  BY <1>2 DEF StagesFit
<1> QED  BY <1>1, <1>3, HeldLinks DEF ServedFits

LEMMA ServesRequest ==
  ASSUME ChannelInv, NEW i \in Supervisors, NEW l \in servers[i].active, ServeRequest(l),
         UNCHANGED <<runtime, servers, bridge, channelCase, callers>>
  PROVE  ChannelInv'
<1>1. PICK x : x = links[l]
  OBVIOUS
<1>2. /\ l \in Links /\ x \in LinkRecord(channelCase) /\ StreamsFit(x, bridge, served)
      /\ x.server = TRUE
      /\ Carries(x.up, Asks(Ordered(callers))) /\ (x.client => WholeFrames(x.up)) /\ Arrived(x.up)
  BY <1>1, InSession DEF ServeRequest
<1>3. x.up \in Seq(Units(channelCase)) /\ InStep(x.up) /\ x.work \subseteq served
  BY <1>2 DEF LinkRecord, StreamsFit, Streams
<1>4. /\ Rest(x.up) \in Seq(Units(channelCase)) /\ InStep(Rest(x.up))
      /\ \A k \in DOMAIN Rest(x.up) : k + FrameUnits \in DOMAIN x.up
         /\ Rest(x.up)[k] = x.up[k + FrameUnits]
      /\ (x.client => WholeFrames(Rest(x.up)))
  BY <1>2, <1>3, StreamsGoOn
<1>5. Carries(Rest(x.up), Asks(Ordered(callers)))
  BY <1>2, <1>4 DEF Carries
<1>6. PICK c \in Ordered(callers) : Message(x.up) = Request(c)
  BY <1>2, <1>3, FrameLength DEF Arrived, Carries, Asks, Message
<1>7. Message(x.up).call = c /\ c \in Calls
  BY <1>6 DEF Request, Ordered
<1>8. PICK y : y = [x EXCEPT !.up = Rest(@), !.work = @ \cup {c}]
  OBVIOUS
<1>9. /\ y \in LinkRecord(channelCase) /\ y.up = Rest(x.up) /\ y.work = x.work \cup {c}
      /\ y.client = x.client /\ y.server = x.server /\ y.down = x.down /\ y.gotDown = x.gotDown
      /\ y.writing = x.writing /\ y.version = x.version
  BY <1>2, <1>4, <1>7, <1>8 DEF LinkRecord, Streams
<1>10. links' = [links EXCEPT ![l] = y] /\ served' = served \cup {c}
  BY <1>1, <1>7, <1>8 DEF ServeRequest
<1>11. CallsFitAfter /\ served' \subseteq Calls
  BY <1>6, <1>7, <1>10 DEF ChannelInv, ChannelTypes, CallsFit, CallsFitAfter
<1>12. StreamsFit(x, bridge, served')
  BY <1>2, <1>10, StreamsStayFit
<1>13. y.work \subseteq served' /\ InStep(y.up)
  BY <1>3, <1>4, <1>9, <1>10
<1>14. StreamsFit(y, bridge, served')
  BY ONLY <1>2, <1>9, <1>12, <1>13 DEF StreamsFit
<1> QED  BY <1>1, <1>2, <1>4, <1>5, <1>9, <1>10, <1>11, <1>14, SessionMoves

(* A frame it begins to write *)
LEMMA WritesFrame ==
  ASSUME ChannelInv, NEW i \in Supervisors, NEW l \in servers[i].active, NEW m,
         m \in ChannelMessages(channelCase), m \in Replies(served), NEW work,
         work \subseteq links[l].work, links[l].writing = <<>>, links[l].client,
         links' = [links EXCEPT ![l].work = work, ![l].writing = Frame(m)],
         UNCHANGED <<runtime, servers, bridge, channelCase, callers, served>>
  PROVE  ChannelInv'
<1>1. PICK x : x = links[l]
  OBVIOUS
<1>2. /\ l \in Links /\ x \in LinkRecord(channelCase) /\ StreamsFit(x, bridge, served)
      /\ x.server = TRUE
      /\ x.client = TRUE /\ x.writing = <<>>
      /\ Carries(x.up, Asks(Ordered(callers))) /\ WholeFrames(x.up)
      /\ bridge.at \in {"Acceptance", "Connected"}
  BY <1>1, InSession
<1>3. /\ Frame(m) \in Seq(Units(channelCase)) /\ InStep(Frame(m)) /\ WholeFrames(Frame(m))
      /\ DOMAIN Frame(m) = 1..FrameUnits
      /\ \A k \in 1..FrameUnits : Frame(m)[k] = [of |-> m, unit |-> k]
  BY AFrame DEF Units
<1>4. PICK y : y = [x EXCEPT !.work = work, !.writing = Frame(m)]
  OBVIOUS
<1>5. /\ y \in LinkRecord(channelCase) /\ y.up = x.up /\ y.work = work
      /\ y.client = x.client /\ y.server = x.server /\ y.down = x.down /\ y.gotDown = x.gotDown
      /\ y.writing = Frame(m) /\ y.version = x.version
  BY <1>1, <1>2, <1>3, <1>4 DEF LinkRecord, Streams
<1>6. links' = [links EXCEPT ![l] = y]
  BY <1>1, <1>4
<1>7. Carries(y.writing, Replies(served))
  BY <1>3, <1>5 DEF Carries
<1>8. PICK came : came = x.gotDown \o x.down
  OBVIOUS
<1>9. came \in Seq(Units(channelCase)) /\ came \o x.writing = came /\ y.gotDown \o y.down = came
  BY <1>2, <1>5, <1>8 DEF LinkRecord, Streams
<1>10. InStep(came) /\ WholeFrames(came)
  <2>1. InStep((x.gotDown \o x.down) \o x.writing)
        /\ WholeFrames((x.gotDown \o x.down) \o x.writing)
    BY <1>2 DEF StreamsFit
  <2> QED  BY ONLY <1>8, <1>9, <2>1, Zenon
<1>11. InStep(came \o Frame(m)) /\ WholeFrames(came \o Frame(m))
  BY <1>3, <1>9, <1>10, StreamsJoin
<1>12. InStep((y.gotDown \o y.down) \o y.writing) /\ WholeFrames((y.gotDown \o y.down) \o y.writing)
  BY ONLY <1>5, <1>9, <1>11, Zenon
<1>13. InStep(y.up) /\ y.work \subseteq served /\ y.client /\ y.server /\ bridge.at # "Challenge"
  BY <1>1, <1>2, <1>5 DEF StreamsFit
<1>14. /\ bridge.at = "Acceptance" =>
            /\ y.gotDown = <<>>
            /\ \A k \in DOMAIN y.down : k > FrameUnits => y.down[k].of \in Replies(served)
       /\ bridge.at = "Connected" =>
            /\ Len(y.gotDown) < FrameUnits
            /\ Carries(y.gotDown, Replies(served)) /\ Carries(y.down, Replies(served))
  BY <1>2, <1>5 DEF StreamsFit
<1>15. StreamsFit(y, bridge, served')
  <2>1. StreamsFit(y, bridge, served)
    BY ONLY <1>7, <1>12, <1>13, <1>14, Zenon DEF StreamsFit
  <2> QED  BY <2>1
<1>16. CallsFitAfter /\ served' \subseteq Calls
  BY CallsStay DEF callVars
<1> QED  BY <1>1, <1>2, <1>5, <1>6, <1>15, <1>16, SessionMoves

LEMMA AnswersRequest ==
  ASSUME ChannelInv, NEW i \in Supervisors, NEW l \in servers[i].active, AnswerRequest(l),
         UNCHANGED <<runtime, servers, bridge, channelCase, callers>>
  PROVE  ChannelInv'
<1>1. PICK c \in links[l].work :
        links' = [links EXCEPT ![l].work = @ \ {c}, ![l].writing = Frame(Response(c))]
  BY DEF AnswerRequest
<1>2. links[l].writing = <<>> /\ links[l].client /\ served' = served
  BY DEF AnswerRequest
<1>3. c \in served /\ c \in Calls
  BY InSession DEF StreamsFit, ChannelInv, ChannelTypes
<1>4. Response(c) \in Replies(served) /\ Response(c) \in ChannelMessages(channelCase)
  BY <1>3 DEF Replies, ChannelMessages
<1>5. PICK work : work = links[l].work \ {c}
  OBVIOUS
<1>6. PICK m : m = Response(c)
  OBVIOUS
<1>7. links' = [links EXCEPT ![l].work = work, ![l].writing = Frame(m)]
  BY <1>1, <1>5, <1>6
<1>8. m \in ChannelMessages(channelCase) /\ m \in Replies(served) /\ work \subseteq links[l].work
  BY <1>4, <1>5, <1>6
<1> QED  BY <1>2, <1>7, <1>8, WritesFrame

LEMMA SendsEvent ==
  ASSUME ChannelInv, NEW i \in Supervisors, NEW l \in servers[i].active, SendEvent(l),
         UNCHANGED <<runtime, servers, bridge, channelCase, callers>>
  PROVE  ChannelInv'
<1>1. links[l].writing = <<>> /\ links[l].client /\ served' = served
      /\ links' = [links EXCEPT ![l].writing = Frame(Event)]
  BY DEF SendEvent
<1>2. Event \in Replies(served) /\ Event \in ChannelMessages(channelCase)
  BY DEF Replies, ChannelMessages
<1>3. PICK work : work = links[l].work
  OBVIOUS
<1>4. PICK m : m = Event
  OBVIOUS
<1>5. links' = [links EXCEPT ![l].work = work, ![l].writing = Frame(m)]
  BY <1>1, <1>3, <1>4, InSession DEF LinkRecord
<1> QED  BY <1>1, <1>2, <1>3, <1>4, <1>5, WritesFrame

LEMMA JoinsAssociate ==
  ASSUME NEW U
  PROVE  \A s, t, w \in Seq(U) : (s \o t) \o w = s \o (t \o w)
BY ConcatAssociative

(* The first of what is left to write goes after what was written. *)
OneWritten(U, s, t, w) ==
  /\ Head(w) \in U /\ Tail(w) \in Seq(U) /\ Append(t, Head(w)) \in Seq(U)
  /\ (s \o Append(t, Head(w))) \o Tail(w) = (s \o t) \o w
  /\ \E k \in DOMAIN w : Head(w) = w[k]
  /\ \A k \in DOMAIN Tail(w) : k + 1 \in DOMAIN w /\ Tail(w)[k] = w[k + 1]

LEMMA OneMore ==
  ASSUME NEW U, NEW s \in Seq(U), NEW t \in Seq(U), NEW w \in Seq(U), w # <<>>
  PROVE  OneWritten(U, s, t, w)
<1>1. /\ Len(w) \in Nat /\ Len(w) >= 1 /\ DOMAIN w = 1..Len(w) /\ Head(w) = w[1] /\ w[1] \in U
      /\ Tail(w) \in Seq(U) /\ DOMAIN Tail(w) = 1..(Len(w) - 1)
      /\ \A k \in 1..(Len(w) - 1) : Tail(w)[k] = w[k + 1]
  OBVIOUS
<1>2. PICK h \in U : h = Head(w)
  BY <1>1
<1>3. PICK rest \in Seq(U) : rest = Tail(w)
  BY <1>1
<1>4. PICK one \in Seq(U) : one = <<h>>
  <2>1. <<h>> \in Seq(U)
    OBVIOUS
  <2> QED  BY ONLY <2>1, Zenon
<1>5. Append(t, h) = t \o one /\ t \o one \in Seq(U) /\ s \o t \in Seq(U)
  BY <1>4, AppendIsConcat
<1>6. w = one \o rest
  BY <1>1, <1>2, <1>3, <1>4
<1>7. (s \o t) \o one = s \o (t \o one)
  BY JoinsAssociate
<1>12. PICK st \in Seq(U) : st = s \o t
  BY ONLY <1>5, Zenon
<1>13. (st \o one) \o rest = st \o (one \o rest)
  BY JoinsAssociate, SMTT(60)
<1>8. ((s \o t) \o one) \o rest = (s \o t) \o (one \o rest)
  BY ONLY <1>12, <1>13, Zenon
<1>9. (s \o Append(t, h)) \o rest = (s \o t) \o w
  BY ONLY <1>5, <1>6, <1>7, <1>8, Zenon
<1>10. Append(t, h) \in Seq(U)
  OBVIOUS
<1>11. (s \o Append(t, Head(w))) \o Tail(w) = (s \o t) \o w /\ Append(t, Head(w)) \in Seq(U)
  BY ONLY <1>2, <1>3, <1>9, <1>10, Zenon
<1>14. Head(w) = w[1] /\ 1 \in DOMAIN w
  BY <1>1
<1>15. \A k \in DOMAIN Tail(w) : k + 1 \in DOMAIN w /\ Tail(w)[k] = w[k + 1]
  BY <1>1
<1> QED  BY ONLY <1>1, <1>11, <1>14, <1>15, Zenon DEF OneWritten


LEMMA WritesUnit ==
  ASSUME ChannelInv, NEW i \in Supervisors, NEW l \in servers[i].active, WriteUnit(l),
         UNCHANGED <<runtime, servers, bridge, channelCase, callers>>
  PROVE  ChannelInv'
<1>1. PICK x : x = links[l]
  OBVIOUS
<1>2. /\ l \in Links /\ x \in LinkRecord(channelCase) /\ StreamsFit(x, bridge, served)
      /\ x.server = TRUE
      /\ x.client = TRUE /\ x.writing # <<>>
      /\ Carries(x.up, Asks(Ordered(callers))) /\ WholeFrames(x.up)
      /\ bridge.at \in {"Acceptance", "Connected"}
  BY <1>1, InSession DEF WriteUnit
<1>3. /\ x.gotDown \in Seq(Units(channelCase)) /\ x.down \in Seq(Units(channelCase))
      /\ x.writing \in Seq(Units(channelCase)) /\ Carries(x.writing, Replies(served))
  BY <1>2 DEF LinkRecord, Streams, StreamsFit
<1>4. PICK h : h = Head(x.writing)
  OBVIOUS
<1>5. PICK down : down = Append(x.down, h)
  OBVIOUS
<1>6. PICK rest : rest = Tail(x.writing)
  OBVIOUS
<1>7. /\ h \in Units(channelCase) /\ rest \in Seq(Units(channelCase))
      /\ down \in Seq(Units(channelCase))
      /\ (x.gotDown \o down) \o rest = (x.gotDown \o x.down) \o x.writing
      /\ \E k \in DOMAIN x.writing : h = x.writing[k]
      /\ \A k \in DOMAIN rest : k + 1 \in DOMAIN x.writing /\ rest[k] = x.writing[k + 1]
  <2>1. PICK w \in Seq(Units(channelCase)) : w = x.writing
    BY <1>3
  <2>2. PICK s \in Seq(Units(channelCase)) : s = x.gotDown
    BY <1>3
  <2>3. PICK t \in Seq(Units(channelCase)) : t = x.down
    BY <1>3
  <2>4. h = Head(w) /\ rest = Tail(w) /\ down = Append(t, Head(w)) /\ w # <<>>
    BY ONLY <1>2, <1>4, <1>5, <1>6, <2>1, <2>3, Zenon
  <2>5. OneWritten(Units(channelCase), s, t, w)
    BY <2>4, OneMore
  <2> QED  BY ONLY <2>1, <2>2, <2>3, <2>4, <2>5, Zenon DEF OneWritten
<1>8. PICK y : y = [x EXCEPT !.down = down, !.writing = rest]
  OBVIOUS
<1>9. /\ y \in LinkRecord(channelCase) /\ y.up = x.up /\ y.work = x.work
      /\ y.client = x.client /\ y.server = x.server /\ y.down = down /\ y.gotDown = x.gotDown
      /\ y.writing = rest /\ y.version = x.version
  BY <1>2, <1>7, <1>8 DEF LinkRecord, Streams
<1>10. links' = [links EXCEPT ![l] = y] /\ served' = served
  BY <1>1, <1>4, <1>5, <1>6, <1>8 DEF WriteUnit
<1>11. h.of \in Replies(served) /\ Carries(rest, Replies(served))
  BY <1>3, <1>7 DEF Carries
<1>12. \A k \in DOMAIN down : down[k] = h \/ (k \in DOMAIN x.down /\ down[k] = x.down[k])
  BY <1>3, <1>5
<1>13. InStep((y.gotDown \o y.down) \o y.writing) /\ WholeFrames((y.gotDown \o y.down) \o y.writing)
  <2>1. InStep((x.gotDown \o x.down) \o x.writing)
        /\ WholeFrames((x.gotDown \o x.down) \o x.writing)
    BY <1>2 DEF StreamsFit
  <2> QED  BY ONLY <1>7, <1>9, <2>1, Zenon
<1>14. /\ bridge.at = "Acceptance" =>
            /\ y.gotDown = <<>>
            /\ \A k \in DOMAIN y.down : k > FrameUnits => y.down[k].of \in Replies(served)
       /\ bridge.at = "Connected" =>
            /\ Len(y.gotDown) < FrameUnits
            /\ Carries(y.gotDown, Replies(served)) /\ Carries(y.down, Replies(served))
  BY <1>2, <1>9, <1>11, <1>12 DEF StreamsFit, Carries
<1>15. InStep(y.up) /\ y.work \subseteq served /\ y.client /\ y.server /\ bridge.at # "Challenge"
       /\ Carries(y.writing, Replies(served))
  BY <1>2, <1>9, <1>11 DEF StreamsFit
<1>16. StreamsFit(y, bridge, served')
  <2>1. StreamsFit(y, bridge, served)
    BY ONLY <1>13, <1>14, <1>15, Zenon DEF StreamsFit
  <2> QED  BY <1>10, <2>1
<1>17. CallsFitAfter /\ served' \subseteq Calls
  BY <1>10, CallsStay DEF callVars
<1>18. Carries(y.up, Asks(Ordered(callers))) /\ WholeFrames(y.up) /\ y.version = links[l].version
       /\ y.client = links[l].client /\ y.server = links[l].server
  BY <1>1, <1>2, <1>9
<1> QED  BY <1>9, <1>10, <1>16, <1>17, <1>18, SessionMoves

LEMMA Serves ==
  ASSUME ChannelInv, NEW i \in Supervisors, Serve(i)
  PROVE  ChannelInv'
<1>1. PICK l \in servers[i].active : ServeRequest(l) \/ AnswerRequest(l) \/ SendEvent(l)
      \/ WriteUnit(l)
  BY DEF Serve
<1>2. UNCHANGED <<runtime, servers, bridge, channelCase, callers>>
  BY DEF Serve
<1>3. CASE ServeRequest(l)
  BY <1>2, <1>3, ServesRequest
<1>4. CASE AnswerRequest(l)
  BY <1>2, <1>4, AnswersRequest
<1>5. CASE SendEvent(l)
  BY <1>2, <1>5, SendsEvent
<1>6. CASE WriteUnit(l)
  BY <1>2, <1>6, WritesUnit
<1> QED  BY <1>1, <1>3, <1>4, <1>5, <1>6

LEMMA Supervising ==
  ASSUME ChannelInv, NEW i \in Supervisors, Supervises(i)
  PROVE  ChannelInv'
<1>1. CASE Serve(i)
  BY <1>1, Serves
<1>2. CASE ServerStep(i) /\ UNCHANGED callVars
  <2>1. CASE WriteTemporary(i)
    BY <1>2, <2>1, WritesTemporary
  <2>2. CASE PublishToken(i)
    BY <1>2, <2>2, PublishesToken
  <2>3. CASE RemoveStale(i)
    BY <1>2, <2>3, RemovesStale
  <2>4. CASE BindSocket(i) \/ BindPipe(i)
    BY <1>2, <2>4, Binds
  <2>5. CASE DropGuard(i)
    BY <1>2, <2>5, DropsGuard
  <2>6. CASE AcceptNext(i)
    BY <1>2, <2>6, AcceptsNext
  <2>7. CASE EnsurePending(i)
    BY <1>2, <2>7, EnsuresPending
  <2>8. CASE ReceiveHello(i)
    BY <1>2, <2>8, ReceivesHello
  <2>9. CASE ReceiveProof(i)
    BY <1>2, <2>9, ReceivesProof
  <2>10. CASE GiveUpHandshake(i)
    BY <1>2, <2>10, HandshakeGivenUp
  <2>11. CASE SessionEnds(i)
    BY <1>2, <2>11, EndsSession
  <2> QED  BY <1>2, <2>1, <2>2, <2>3, <2>4, <2>5, <2>6, <2>7, <2>8, <2>9, <2>10, <2>11
                  DEF ServerStep
<1> QED  BY <1>1, <1>2 DEF Supervises

LEMMA Misfortunes ==
  ASSUME ChannelInv, NEW i \in Supervisors, Misfortune(i), UNCHANGED callVars
  PROVE  ChannelInv'
<1>1. CASE Acquire(i)
  BY <1>1, Acquires
<1>2. CASE Retire(i)
  BY <1>2, Retires
<1>3. CASE Die(i)
  BY <1>3, Dies
<1>4. CASE TokenFails(i)
  BY <1>4, FailsToPublish
<1>5. CASE BindFails(i)
  BY <1>5, FailsToBind
<1>6. CASE RejectPeer(i)
  BY <1>6, RejectsPeer
<1>7. CASE ReplenishFails(i)
  BY <1>7, FailsToReplenish
<1> QED  BY <1>1, <1>2, <1>3, <1>4, <1>5, <1>6, <1>7 DEF Misfortune

------------------------------------------------------------
(* The bridge *)

(* a is what is left of d and w without their first f elements, r what is *)
(* left of d.                                                             *)
Without(f, d, w, r, a) ==
  /\ Len(d) = Len(r) + f /\ Len(a) = Len(r) + Len(w)
  /\ \A k \in DOMAIN r : r[k] = d[k + f]
  /\ \A k \in DOMAIN a : a[k] = (d \o w)[k + f]

LEMMA ShiftedJoin ==
  ASSUME NEW U, NEW d \in Seq(U), NEW w \in Seq(U), NEW r \in Seq(U), NEW a \in Seq(U),
         NEW f \in Nat, Without(f, d, w, r, a)
  PROVE  a = r \o w
<1> USE DEF Without
<1>1. Len(r) \in Nat /\ Len(w) \in Nat /\ DOMAIN r = 1..Len(r) /\ DOMAIN a = 1..(Len(r) + Len(w))
  OBVIOUS
<1>2. ASSUME NEW k \in 1..(Len(r) + Len(w)) PROVE a[k] = (r \o w)[k]
  <2>1. CASE k <= Len(r)
    <3>1. (d \o w)[k + f] = d[k + f]
      BY <1>1, <2>1
    <3>2. (r \o w)[k] = r[k]
      BY <1>1, <2>1
    <3>4. k \in DOMAIN a /\ k \in DOMAIN r
      BY <1>1, <2>1
    <3>3. a[k] = (d \o w)[k + f] /\ r[k] = d[k + f]
      BY ONLY <3>4, Without(f, d, w, r, a), Zenon
    <3> QED  BY ONLY <3>1, <3>2, <3>3, Zenon
  <2>2. CASE k > Len(r)
    <3>1. (d \o w)[k + f] = w[k - Len(r)]
      BY <1>1, <2>2, SMTT(60)
    <3>2. (r \o w)[k] = w[k - Len(r)]
      BY <1>1, <2>2
    <3> QED  BY <1>1, <3>1, <3>2
  <2> QED  BY <1>1, <2>1, <2>2
<1>3. PICK b \in Seq(U) : b = r \o w
  <2>1. r \o w \in Seq(U)
    BY ONLY r \in Seq(U), w \in Seq(U)
  <2> QED  BY ONLY <2>1, Zenon
<1>4. Len(b) = Len(r) + Len(w)
  BY ONLY <1>3, r \in Seq(U), w \in Seq(U)
<1>5. \A k \in 1..Len(a) : a[k] = b[k]
  BY <1>1, <1>2, <1>3
<1>6. a = b
  BY <1>4, <1>5, SeqEqual
<1> QED BY <1>3, <1>6

(* A frame is read off the front of what came and what is to come. *)
LEMMA RestOfJoined ==
  ASSUME NEW U, NEW d \in Seq(U), NEW w \in Seq(U), Arrived(d)
  PROVE  Rest(d \o w) = Rest(d) \o w
<1>1. PICK f \in Nat : f = FrameUnits
  BY FrameLength
<1>2. PICK dw \in Seq(U) : dw = d \o w
  <2>1. d \o w \in Seq(U)
    OBVIOUS
  <2> QED  BY ONLY <2>1, Zenon
<1>3. Len(dw) = Len(d) + Len(w) /\ Len(w) \in Nat /\ Len(d) \in Nat
  BY <1>2
<1>4. Arrived(dw)
  BY <1>1, <1>3 DEF Arrived
<1>5. PICK r \in Seq(U) : /\ r = Rest(d) /\ Len(r) = Len(d) - f
                          /\ \A k \in DOMAIN r : k + f \in DOMAIN d /\ r[k] = d[k + f]
  BY <1>1, StreamsGoOn
<1>6. PICK a \in Seq(U) : /\ a = Rest(dw) /\ Len(a) = Len(dw) - f
                          /\ \A k \in DOMAIN a : k + f \in DOMAIN dw /\ a[k] = dw[k + f]
  BY <1>1, <1>4, StreamsGoOn
<1>7. Len(d) = Len(r) + f /\ Len(a) = Len(r) + Len(w)
  BY <1>3, <1>5, <1>6
<1>8. \A k \in DOMAIN r : r[k] = d[k + f]
  BY ONLY <1>5, Zenon
<1>9. \A k \in DOMAIN a : a[k] = (d \o w)[k + f]
  BY ONLY <1>2, <1>6, Zenon
<1>10. a = r \o w
  <2>1. Without(f, d, w, r, a)
    BY ONLY <1>7, <1>8, <1>9, Zenon DEF Without
  <2> QED  BY <2>1, ShiftedJoin
<1> QED  BY ONLY <1>2, <1>5, <1>6, <1>10, Zenon

(* What the bridge has of a connection once it read a frame of a handshake *)
ReadOff(x, y, b, done) ==
  /\ y \in LinkRecord(channelCase) /\ StreamsFit(y, b, done)
  /\ y.up = x.up /\ y.work = x.work /\ y.client = x.client /\ y.server = x.server
  /\ y.down = Rest(x.down) /\ y.gotDown = <<>> /\ y.writing = x.writing /\ y.version = x.version
  /\ b.at = "Challenge" => y.down = <<>>
  /\ b.at = "Acceptance" => Carries(y.down, Replies(done))

LEMMA BridgeReads ==
  ASSUME NEW x \in LinkRecord(channelCase), NEW b, NEW done, NEW y, StreamsFit(x, b, done),
         x.client,
         Arrived(x.down), b.at \in {"Challenge", "Acceptance"}, y = [x EXCEPT !.down = Rest(@)]
  PROVE  ReadOff(x, y, b, done)
<1>1. /\ x.down \in Seq(Units(channelCase)) /\ x.writing \in Seq(Units(channelCase))
      /\ x.gotDown = <<>>
      /\ x.down # <<>>
  BY FrameLength DEF LinkRecord, Streams, StreamsFit, Arrived
<1>2. /\ Rest(x.down) \in Seq(Units(channelCase)) /\ Len(Rest(x.down)) = Len(x.down) - FrameUnits
      /\ \A k \in DOMAIN Rest(x.down) : k + FrameUnits \in DOMAIN x.down
         /\ Rest(x.down)[k] = x.down[k + FrameUnits]
  BY <1>1, StreamsGoOn
<1>3. /\ y \in LinkRecord(channelCase) /\ y.up = x.up /\ y.work = x.work /\ y.client = x.client
      /\ y.server = x.server /\ y.down = Rest(x.down) /\ y.gotDown = <<>> /\ y.writing = x.writing
      /\ y.version = x.version
  BY <1>1, <1>2 DEF LinkRecord, Streams
<1>4. PICK d : d = x.down
  OBVIOUS
<1>5. PICK w : w = x.writing
  OBVIOUS
<1>6. /\ d \in Seq(Units(channelCase)) /\ w \in Seq(Units(channelCase)) /\ Arrived(d)
      /\ Rest(d) \in Seq(Units(channelCase))
  BY <1>1, <1>2, <1>4, <1>5
<1>7. (<<>> \o d) \o w = d \o w /\ (<<>> \o Rest(d)) \o w = Rest(d) \o w
  BY <1>6
<1>8. InStep(d \o w) /\ (x.server => WholeFrames(d \o w))
  <2>1. InStep((x.gotDown \o x.down) \o x.writing)
        /\ (x.server => WholeFrames((x.gotDown \o x.down) \o x.writing))
    BY DEF StreamsFit
  <2> QED  BY ONLY <1>1, <1>4, <1>5, <1>7, <2>1, Zenon
<1>9. Arrived(d \o w) /\ d \o w \in Seq(Units(channelCase))
  BY <1>6, FrameLength DEF Arrived
<1>10. InStep(Rest(d \o w)) /\ (WholeFrames(d \o w) <=> WholeFrames(Rest(d \o w)))
  BY <1>8, <1>9, StreamsGoOn
<1>11. Rest(d \o w) = Rest(d) \o w
  BY <1>6, RestOfJoined
<1>12. InStep((y.gotDown \o y.down) \o y.writing)
       /\ (y.server => WholeFrames((y.gotDown \o y.down) \o y.writing))
  BY ONLY <1>3, <1>4, <1>5, <1>7, <1>8, <1>10, <1>11, Zenon
<1>13. b.at = "Challenge" => y.down = <<>> /\ y.writing = <<>>
  <2>1. b.at = "Challenge" => Len(x.down) = FrameUnits /\ x.writing = <<>>
    BY <1>1 DEF StreamsFit
  <2>2. b.at = "Challenge" => Len(Rest(x.down)) = 0
    BY <1>2, <2>1, FrameLength
  <2>3. Len(Rest(x.down)) = 0 => Rest(x.down) = <<>>
    BY <1>2
  <2> QED  BY <1>3, <2>1, <2>2, <2>3
<1>14. b.at = "Acceptance" => Carries(y.down, Replies(done))
  <2> SUFFICES ASSUME b.at = "Acceptance", NEW k \in DOMAIN Rest(x.down)
               PROVE  Rest(x.down)[k].of \in Replies(done)
    BY <1>3 DEF Carries
  <2>1. \A j \in DOMAIN x.down : j > FrameUnits => x.down[j].of \in Replies(done)
    BY DEF StreamsFit
  <2>2. k + FrameUnits \in DOMAIN x.down /\ k + FrameUnits > FrameUnits
        /\ Rest(x.down)[k] = x.down[k + FrameUnits]
    BY <1>2, FrameLength
  <2> QED  BY <2>1, <2>2
<1>15. /\ ~y.server => y.up = <<>> /\ y.writing = <<>> /\ y.work = {}
       /\ InStep(y.up) /\ Carries(y.writing, Replies(done)) /\ y.work \subseteq done
  BY <1>3 DEF StreamsFit
<1>16. b.at = "Acceptance" => \A k \in DOMAIN y.down : k > FrameUnits
       => y.down[k].of \in Replies(done)
  BY <1>14 DEF Carries
<1>17. b.at # "Connected"
  OBVIOUS
<1>18. StreamsFit(y, b, done)
  BY ONLY x.client, <1>3, <1>12, <1>13, <1>15, <1>16, <1>17, Zenon DEF StreamsFit
<1> QED  BY <1>3, <1>13, <1>14, <1>18 DEF ReadOff


(* The bridge has no connection and comes by none. *)
LEMMA BridgeRests ==
  ASSUME ChannelInv, bridge.link = Nobody, bridge' \in BridgeRecord(channelCase),
         bridge'.link = Nobody, bridge'.at \notin LinkedAt,
         UNCHANGED <<runtime, servers, links, channelCase, served>>,
         CallsFitAfter, callers' \in CallersRecord
  PROVE  ChannelInv'
<1>1. ChannelTypes /\ RuntimesFit /\ ServersFit /\ EndsFit
  BY DEF ChannelInv
<1>2. ChannelTypes'
  BY <1>1 DEF ChannelTypes
<1>3. RuntimesFit' /\ ServersFit'
  BY <1>1 DEF RuntimesFit, ServersFit
<1>4. EndsFit'
  BY <1>1 DEF EndsFit
<1>5. ASSUME NEW l \in Links PROVE Untouched(l)
  BY HeldLinks, NobodyElse DEF Untouched
<1> QED  BY <1>2, <1>3, <1>4, <1>5, StepsFit

(* The bridge drops its connection, which it may have written to. *)
LEMMA BridgeHangs ==
  ASSUME ChannelInv, NEW l \in Links, bridge.link = l, NEW x \in LinkRecord(channelCase),
         links' = [links EXCEPT ![l] = ClientClosed(x)], StreamsFit(x, bridge, served),
         x.server = links[l].server, x.version = links[l].version, x.work = links[l].work,
         x.writing = links[l].writing,
         x.up = links[l].up \/ (bridge.at = "Connected" /\ Carries(x.up, Asks(Ordered(callers')))),
         bridge' \in BridgeRecord(channelCase), bridge'.link = Nobody, bridge'.at \notin LinkedAt,
         UNCHANGED <<runtime, servers, channelCase, served>>,
         CallsFitAfter, callers' \in CallersRecord
  PROVE  ChannelInv'
<1>1. ChannelTypes /\ RuntimesFit /\ ServersFit /\ EndsFit
  BY DEF ChannelInv
<1>2. PICK y : y = ClientClosed(x)
  OBVIOUS
<1>3. /\ y \in LinkRecord(channelCase) /\ StreamsFit(y, bridge', served)
      /\ y.client = FALSE /\ y.server = x.server
      /\ x.server => /\ y.up = x.up /\ y.version = x.version /\ y.work = x.work
                     /\ y.writing = x.writing /\ y.down = <<>>
  BY <1>2, ClientEndCloses
<1>4. /\ links' \in [Links -> LinkRecord(channelCase)] /\ links'[l] = y
      /\ \A k \in Links : k # l => links'[k] = links[k]
  BY <1>1, <1>2, <1>3 DEF ChannelTypes
<1>5. ChannelTypes'
  BY <1>1, <1>4 DEF ChannelTypes
<1>6. RuntimesFit' /\ ServersFit'
  BY <1>1 DEF RuntimesFit, ServersFit
<1>7. EndsFit'
  <2>1. \A k \in Links : links'[k].server = links[k].server
    BY <1>3, <1>4
  <2>2. \A k \in Links : ~links'[k].client
    BY <1>3, <1>4, HeldLinks
  <2> QED  BY <1>1, <2>1, <2>2, NobodyElse DEF EndsFit
<1>8. ASSUME NEW k \in Links, k # l PROVE Untouched(k)
  BY <1>4, <1>8, HeldLinks DEF Untouched
<1>9. FitsAfter(l)
  <2>1. StreamsFit(links'[l], bridge', served')
    BY <1>3, <1>4
  <2>2. ASSUME NEW i \in Supervisors
        PROVE  StagesFit(channelCase, servers'[i], i, l, y, bridge', Ordered(callers'))
    <3>1. StagesFit(channelCase, servers[i], i, l, links[l], bridge, Ordered(callers))
          /\ servers'[i] = servers[i]
      BY HeldLinks
    <3>2. CASE l \notin LinksOf(servers[i])
      BY <3>1, <3>2, HasLink DEF StagesFit
    <3>3. CASE l \in LinksOf(servers[i])
      <4>1. links[l].client /\ links[l].server
        BY <3>3, HeldLinks
      <4>2. /\ y.up = x.up /\ y.version = links[l].version /\ y.work = links[l].work
            /\ y.writing = links[l].writing /\ y.down = <<>>
        BY <1>3, <4>1
      <4>3. Awaits(servers[i], l) => AwaitingFits(channelCase, y, bridge')
        BY <1>3, <3>1, <4>1, <4>2 DEF StagesFit, AwaitingFits
      <4>4. Proves(servers[i], l) => ProvingFits(channelCase, y, bridge', i)
        BY <1>3, <3>1, <4>1, <4>2 DEF StagesFit, ProvingFits
      <4>5. l \in servers[i].active => ServedFits(channelCase, y, bridge', i, Ordered(callers'))
        <5>1. SUFFICES ASSUME l \in servers[i].active PROVE ServedFits(channelCase, y, bridge', i,
                              Ordered(callers'))
          OBVIOUS
        <5>2. ServedFits(channelCase, links[l], bridge, i, Ordered(callers))
          BY <3>1, <5>1 DEF StagesFit
        <5>3. Carries(links[l].up, Asks(Ordered(callers')))
          BY <5>2, MoreAsks DEF ServedFits, CallsFitAfter
        <5>4. Carries(y.up, Asks(Ordered(callers')))
          BY <4>2, <5>3
        <5> QED  BY <1>3, <4>2, <5>2, <5>4 DEF ServedFits
      <4> QED  BY <3>1, <4>3, <4>4, <4>5 DEF StagesFit
    <3> QED  BY <3>2, <3>3
  <2> QED  BY <1>4, <2>1, <2>2 DEF FitsAfter
<1> QED  BY <1>5, <1>6, <1>7, <1>8, <1>9, StepsFit

LEMMA BridgeFields ==
  ASSUME ChannelInv
  PROVE  /\ bridge \in BridgeRecord(channelCase) /\ links \in [Links -> LinkRecord(channelCase)]
         /\ bridge.link # Nobody <=> bridge.at \in LinkedAt
         /\ bridge.link # Nobody => bridge.link \in Links
         /\ 0 \in ChannelVersions(channelCase)
         /\ runtime \in RuntimeRecord
BY DEF ChannelInv, ChannelTypes, EndsFit, BridgeRecord, ChannelVersions

(* The attempt ends: nothing of it stays with the bridge. *)
LEMMA AttemptEnds ==
  ASSUME ChannelInv, bridge.at \in {"Challenge", "Acceptance"}, NEW ls, GivesUp(ls),
         UNCHANGED callVars,
         UNCHANGED <<runtime, servers, channelCase>>,
         NEW x \in LinkRecord(channelCase), ls = [links EXCEPT ![bridge.link] = x],
         StreamsFit(x, bridge, served),
         x.server = links[bridge.link].server, x.version = links[bridge.link].version,
         x.work = links[bridge.link].work, x.writing = links[bridge.link].writing,
         x.up = links[bridge.link].up
  PROVE  ChannelInv'
<1>1. PICK l : l = bridge.link
  OBVIOUS
<1>2. l \in Links /\ l # Nobody
  BY <1>1, BridgeFields DEF LinkedAt
<1>3. bridge' = [bridge EXCEPT !.at = "Waiting", !.link = Nobody, !.version = 0]
  BY DEF GivesUp, AfterFailure
<1>4. /\ bridge' \in BridgeRecord(channelCase) /\ bridge'.link = Nobody /\ bridge'.at = "Waiting"
  BY <1>3, BridgeFields DEF BridgeRecord
<1>5. bridge'.at \notin LinkedAt /\ bridge'.at # "Connected"
  BY <1>4 DEF LinkedAt
<1>6. links' = CloseClientEnd(ls, l)
  BY <1>1, <1>2 DEF GivesUp
<1>7. ls[l] = x /\ DOMAIN ls = Links
  BY <1>1, <1>2, BridgeFields
<1>8. links' = [ls EXCEPT ![l] = ClientClosed(x)]
  BY <1>2, <1>6, <1>7 DEF CloseClientEnd, ClientClosed
<1>9. links' = [links EXCEPT ![l] = ClientClosed(x)]
  BY <1>1, <1>8
<1>10. CallsFitAfter /\ callers' \in CallersRecord /\ served' = served
  BY CallsStay DEF callVars
<1> QED  BY <1>1, <1>2, <1>4, <1>5, <1>9, <1>10, BridgeHangs

LEMMA ReadsToken ==
  ASSUME ChannelInv, ReadToken, UNCHANGED callVars
  PROVE  ChannelInv'
<1>1. bridge.at = "Token" /\ UNCHANGED <<runtime, servers, links, channelCase>>
  BY DEF ReadToken
<1>2. bridge.link = Nobody
  BY <1>1, BridgeFields DEF LinkedAt
<1>3. runtime.token \in Supervisors \cup {Nobody}
  BY BridgeFields DEF RuntimeRecord
<1>4. \/ bridge' = [bridge EXCEPT !.at = "Waiting", !.token = Nobody]
      \/ bridge' = [bridge EXCEPT !.at = "Connecting", !.token = runtime.token]
  BY DEF ReadToken
<1>5. /\ bridge' \in BridgeRecord(channelCase) /\ bridge'.link = Nobody
      /\ bridge'.at \in {"Waiting", "Connecting"}
  BY <1>2, <1>3, <1>4, BridgeFields DEF BridgeRecord
<1>6. bridge'.at \notin LinkedAt
  BY <1>5 DEF LinkedAt
<1>7. CallsFitAfter /\ callers' \in CallersRecord /\ served' = served
  BY <1>1, CallsStay DEF callVars
<1> QED  BY <1>1, <1>2, <1>5, <1>6, <1>7, BridgeRests

LEMMA WaitsNoLonger ==
  ASSUME ChannelInv, WaitIsOver \/ BackoffIsOver, UNCHANGED callVars
  PROVE  ChannelInv'
<1>1. bridge.at \in {"Waiting", "Backoff"} /\ UNCHANGED <<runtime, servers, links, channelCase>>
      /\ \E at \in {"Token", "Connecting"} : bridge' = [bridge EXCEPT !.at = at]
  BY DEF WaitIsOver, BackoffIsOver
<1>2. bridge.link = Nobody
  BY <1>1, BridgeFields DEF LinkedAt
<1>3. /\ bridge' \in BridgeRecord(channelCase) /\ bridge'.link = Nobody
      /\ bridge'.at \in {"Token", "Connecting"}
  BY <1>1, <1>2, BridgeFields DEF BridgeRecord
<1>4. bridge'.at \notin LinkedAt
  BY <1>3 DEF LinkedAt
<1>5. CallsFitAfter /\ callers' \in CallersRecord /\ served' = served
  BY <1>1, CallsStay DEF callVars
<1> QED  BY <1>1, <1>2, <1>3, <1>4, <1>5, BridgeRests

LEMMA FailsToConnect ==
  ASSUME ChannelInv, ConnectFails, UNCHANGED callVars
  PROVE  ChannelInv'
<1>1. bridge.at = "Connecting" /\ UNCHANGED <<runtime, servers, channelCase>>
  BY DEF ConnectFails
<1>2. bridge.link = Nobody
  BY <1>1, BridgeFields DEF LinkedAt
<1>3. \/ links' = links /\ bridge' = [bridge EXCEPT !.at = "Backoff"]
      \/ links' = links /\ bridge' = [bridge EXCEPT !.at = "Waiting", !.link = Nobody,
         !.version = 0]
  BY <1>2 DEF ConnectFails, GivesUp, AfterFailure
<1>4. /\ bridge' \in BridgeRecord(channelCase) /\ bridge'.link = Nobody
      /\ bridge'.at \in {"Waiting", "Backoff"} /\ links' = links
  BY <1>2, <1>3, BridgeFields DEF BridgeRecord
<1>5. bridge'.at \notin LinkedAt
  BY <1>4 DEF LinkedAt
<1>6. CallsFitAfter /\ callers' \in CallersRecord /\ served' = served
  BY <1>1, CallsStay DEF callVars
<1> QED  BY <1>1, <1>2, <1>4, <1>5, <1>6, BridgeRests

LEMMA LosesHandshake ==
  ASSUME ChannelInv, LoseHandshake, UNCHANGED callVars
  PROVE  ChannelInv'
<1>1. bridge.at \in {"Challenge", "Acceptance"} /\ GivesUp(links) /\ UNCHANGED <<runtime, servers,
      channelCase>>
  BY DEF LoseHandshake
<1>2. bridge.link \in Links
  BY <1>1, BridgeFields DEF LinkedAt
<1>3. PICK x \in LinkRecord(channelCase) : x = links[bridge.link] /\ StreamsFit(x, bridge, served)
  BY <1>2, HeldLinks
<1>4. PICK ls : ls = links
  OBVIOUS
<1>5. ls = [links EXCEPT ![bridge.link] = x]
  BY <1>2, <1>3, <1>4, BridgeFields
<1>6. GivesUp(ls)
  BY <1>1, <1>4
<1> QED  BY <1>1, <1>3, <1>5, <1>6, AttemptEnds


(* The bridge goes on with its connection. *)
LEMMA BridgeTakes ==
  ASSUME ChannelInv, NEW l \in Links, bridge.link = l, NEW y \in LinkRecord(channelCase),
         links' = [links EXCEPT ![l] = y], y.client = links[l].client, y.server = links[l].server,
         UNCHANGED <<runtime, servers, channelCase, served>>,
         bridge' \in BridgeRecord(channelCase), bridge'.link = l, bridge'.at \in LinkedAt,
         CallsFitAfter, callers' \in CallersRecord,
         StreamsFit(y, bridge', served),
         \A i \in Supervisors : l \in LinksOf(servers[i]) =>
           StagesFit(channelCase, servers[i], i, l, y, bridge', Ordered(callers'))
  PROVE  ChannelInv'
<1>1. ChannelTypes /\ RuntimesFit /\ ServersFit
  BY DEF ChannelInv
<1>2. RuntimesFit' /\ ServersFit'
  BY <1>1 DEF RuntimesFit, ServersFit
<1>3. links'[l] = y
  BY <1>1 DEF ChannelTypes
<1>4. FitsAfter(l)
  <2>1. ASSUME NEW i \in Supervisors
        PROVE  StagesFit(channelCase, servers'[i], i, l, y, bridge', Ordered(callers'))
    BY HasLink DEF StagesFit
  <2> QED  BY <1>3, <2>1 DEF FitsAfter
<1>5. ElsewhereTheSame(l)
  BY DEF ElsewhereTheSame
<1>6. servers' \in [Supervisors -> ServerRecord] /\ served' \subseteq Calls
      /\ \A j \in Supervisors : LinksOf(servers'[j]) = LinksOf(servers[j])
  BY <1>1 DEF ChannelTypes
<1>7. bridge'.link # Nobody <=> bridge'.at \in LinkedAt
  BY NobodyElse
<1> QED  BY <1>2, <1>4, <1>5, <1>6, <1>7, LinkMoves

LEMMA AtBridge ==
  ASSUME ChannelInv, bridge.at \in LinkedAt
  PROVE  /\ bridge.link \in Links /\ links[bridge.link] \in LinkRecord(channelCase)
         /\ StreamsFit(links[bridge.link], bridge, served)
         /\ links[bridge.link].client /\ links[bridge.link].server \in BOOLEAN
         /\ \A i \in Supervisors :
              StagesFit(channelCase, servers[i], i, bridge.link, links[bridge.link], bridge,
                Ordered(callers))
         /\ links[bridge.link].server => \E i \in Supervisors : bridge.link \in LinksOf(servers[i])
BY BridgeFields, HeldLinks DEF ChannelInv, EndsFit

LEMMA ReceivesAcceptance ==
  ASSUME ChannelInv, ReceiveAcceptance, UNCHANGED callVars
  PROVE  ChannelInv'
<1>1. PICK l : l = bridge.link
  OBVIOUS
<1>2. /\ bridge.at = "Acceptance" /\ Arrived(links[l].down) /\ UNCHANGED <<runtime, servers,
         channelCase>>
      /\ bridge.at \in LinkedAt
  BY <1>1 DEF ReceiveAcceptance, LinkedAt
<1>3. PICK x : x = links[l]
  OBVIOUS
<1>4. /\ l \in Links /\ x \in LinkRecord(channelCase) /\ StreamsFit(x, bridge, served) /\ x.client
      /\ \A i \in Supervisors : StagesFit(channelCase, servers[i], i, l, x, bridge,
         Ordered(callers))
  BY <1>1, <1>2, <1>3, AtBridge
<1>5. PICK y : y = [x EXCEPT !.down = Rest(@)]
  OBVIOUS
<1>6. /\ y \in LinkRecord(channelCase) /\ StreamsFit(y, bridge, served)
      /\ y.up = x.up /\ y.work = x.work /\ y.client = x.client /\ y.server = x.server
      /\ y.down = Rest(x.down) /\ y.gotDown = <<>> /\ y.writing = x.writing /\ y.version = x.version
      /\ Carries(y.down, Replies(served))
  <2>1. Arrived(x.down) /\ bridge.at \in {"Challenge", "Acceptance"}
        /\ StreamsFit(x, bridge, served) /\ x.client
    BY <1>2, <1>3, <1>4
  <2>2. PICK w \in LinkRecord(channelCase) : w = x
    BY <1>4
  <2>3. ReadOff(x, y, bridge, served)
    BY <1>5, <2>1, <2>2, BridgeReads
  <2> QED  BY <1>2, <2>3 DEF ReadOff
<1>7. PICK ls : ls = [links EXCEPT ![l].down = Rest(@)]
  OBVIOUS
<1>8. ls = [links EXCEPT ![l] = y]
  BY <1>3, <1>5, <1>7
<1>9. CASE Message(links[l].down) # Accepted(bridge.version)
  <2>1. GivesUp(ls)
    BY <1>1, <1>7, <1>9 DEF ReceiveAcceptance
  <2> QED  BY <1>1, <1>2, <1>3, <1>6, <1>8, <2>1, AttemptEnds
<1>10. CASE Message(links[l].down) = Accepted(bridge.version)
  <2>1. bridge' = [bridge EXCEPT !.at = "Connected"] /\ links' = ls
    BY <1>1, <1>7, <1>10 DEF ReceiveAcceptance
  <2>2. /\ bridge' \in BridgeRecord(channelCase) /\ bridge'.link = l /\ bridge'.at = "Connected"
        /\ bridge'.token = bridge.token /\ bridge'.version = bridge.version
    BY <1>1, <2>1, BridgeFields DEF BridgeRecord, LinkedAt
  <2>3. CallsFitAfter /\ callers' \in CallersRecord /\ UNCHANGED <<callers, served>>
    BY <2>2, CallsStay DEF callVars
  <2>4. StreamsFit(y, bridge', served)
    <3>1. Len(y.gotDown) < FrameUnits /\ Carries(y.gotDown, Replies(served))
      BY <1>6, FrameLength DEF Carries
    <3>2. /\ InStep((y.gotDown \o y.down) \o y.writing) /\ y.client
          /\ y.server => WholeFrames((y.gotDown \o y.down) \o y.writing)
          /\ ~y.server => y.up = <<>> /\ y.writing = <<>> /\ y.work = {}
          /\ InStep(y.up) /\ Carries(y.writing, Replies(served)) /\ y.work \subseteq served
      BY ONLY <1>4, <1>6, Zenon DEF StreamsFit
    <3>3. bridge'.at # "Challenge" /\ bridge'.at # "Acceptance"
      BY <2>2
    <3> QED  BY ONLY <1>6, <3>1, <3>2, <3>3, Zenon DEF StreamsFit
  <2>5. ASSUME NEW i \in Supervisors
        PROVE  StagesFit(channelCase, servers[i], i, l, y, bridge', Ordered(callers'))
    <3>1. StagesFit(channelCase, servers[i], i, l, x, bridge, Ordered(callers))
      BY <1>4
    <3>2. ~Awaits(servers[i], l)
      BY <1>2, <1>4, <3>1 DEF StagesFit, AwaitingFits
    <3>3. ~Proves(servers[i], l)
      <4>1. x.down # <<>>
        BY <1>2, <1>3, FrameLength DEF Arrived
      <4> QED  BY <1>2, <1>4, <3>1, <4>1 DEF StagesFit, ProvingFits
    <3>4. l \in servers[i].active => ServedFits(channelCase, y, bridge', i, Ordered(callers'))
      BY <1>4, <1>6, <2>2, <2>3, <3>1 DEF StagesFit, ServedFits
    <3> QED  BY <3>2, <3>3, <3>4 DEF StagesFit
  <2>6. links' = [links EXCEPT ![l] = y] /\ y.client = links[l].client /\ y.server = links[l].server
        /\ bridge'.at \in LinkedAt /\ bridge.link = l
    BY <1>1, <1>3, <1>6, <1>8, <2>1, <2>2 DEF LinkedAt
  <2> QED  BY <1>2, <1>4, <1>6, <2>2, <2>3, <2>4, <2>5, <2>6, BridgeTakes
<1> QED  BY <1>9, <1>10

LEMMA ReceivesChallenge ==
  ASSUME ChannelInv, ReceiveChallenge, UNCHANGED callVars
  PROVE  ChannelInv'
<1>1. PICK l : l = bridge.link
  OBVIOUS
<1>2. /\ bridge.at = "Challenge" /\ Arrived(links[l].down) /\ UNCHANGED <<runtime, servers,
         channelCase>>
      /\ bridge.at \in LinkedAt
  BY <1>1 DEF ReceiveChallenge, LinkedAt
<1>3. PICK x : x = links[l]
  OBVIOUS
<1>4. /\ l \in Links /\ x \in LinkRecord(channelCase) /\ StreamsFit(x, bridge, served) /\ x.client
      /\ \A i \in Supervisors : StagesFit(channelCase, servers[i], i, l, x, bridge,
         Ordered(callers))
      /\ x.server => \E i \in Supervisors : l \in LinksOf(servers[i])
  BY <1>1, <1>2, <1>3, AtBridge
<1>5. PICK z : z = [x EXCEPT !.down = Rest(@)]
  OBVIOUS
<1>6. /\ z \in LinkRecord(channelCase) /\ StreamsFit(z, bridge, served)
      /\ z.up = x.up /\ z.work = x.work /\ z.client = x.client /\ z.server = x.server
      /\ z.down = <<>> /\ z.gotDown = <<>> /\ z.writing = x.writing /\ z.version = x.version
  <2>1. Arrived(x.down) /\ bridge.at \in {"Challenge", "Acceptance"}
        /\ StreamsFit(x, bridge, served) /\ x.client
    BY <1>2, <1>3, <1>4
  <2>2. PICK w \in LinkRecord(channelCase) : w = x
    BY <1>4
  <2>3. ReadOff(x, z, bridge, served)
    BY <1>5, <2>1, <2>2, BridgeReads
  <2> QED  BY <1>2, <2>3 DEF ReadOff
<1>7. PICK ls : ls = [links EXCEPT ![l].down = Rest(@)]
  OBVIOUS
<1>8. ls = [links EXCEPT ![l] = z]
  BY <1>3, <1>5, <1>7
<1>9. PICK m : m = Message(x.down)
  OBVIOUS
<1>10. CASE ~(m.kind = "Challenge" /\ ProvesServer(m) /\ x.server)
  <2>1. GivesUp(ls)
    BY <1>1, <1>3, <1>7, <1>9, <1>10 DEF ReceiveChallenge
  <2> QED  BY <1>1, <1>2, <1>3, <1>6, <1>8, <2>1, AttemptEnds
<1>11. CASE m.kind = "Challenge" /\ ProvesServer(m) /\ x.server
  <2>1. PICK i \in Supervisors : l \in LinksOf(servers[i])
    BY <1>4, <1>11
  <2>2. StagesFit(channelCase, servers[i], i, l, x, bridge, Ordered(callers))
    BY <1>4
  <2>3. x.down # <<>>
    BY <1>2, <1>3, FrameLength DEF Arrived
  <2>4. ~Awaits(servers[i], l) /\ l \notin servers[i].active
    BY <1>2, <1>4, <2>2, <2>3 DEF StagesFit, AwaitingFits, ServedFits
  <2>5. Proves(servers[i], l) \/ Awaits(servers[i], l) \/ l \in servers[i].active
    <3>1. servers[i] \in ServerRecord /\ ServerFits(servers[i])
      BY ServerFields
    <3>2. l \in servers[i].active \/ l \in InQueue(servers[i].queue) \/ l = servers[i].link
      BY <1>4, <2>1, HasLink
    <3> QED  BY <1>4, <3>1, <3>2, NobodyElse DEF ServerFits, Awaits, Proves
  <2>6. ProvingFits(channelCase, x, bridge, i)
    BY <2>2, <2>4, <2>5 DEF StagesFit
  <2>7. /\ x.up = <<>> /\ x.down = Frame(Challenge(Spoken(channelCase, i), ServerProof(channelCase,
           i)))
        /\ x.version = Spoken(channelCase, i) /\ x.writing = <<>> /\ x.work = {}
    BY <1>2, <1>4, <2>6 DEF ProvingFits
  <2>8. m = Challenge(Spoken(channelCase, i), ServerProof(channelCase, i))
    BY <1>9, <2>7, MessagesOf, AFrame
  <2>9. m.version = Spoken(channelCase, i) /\ m.proof = ServerProof(channelCase, i)
    BY <2>8 DEF Challenge
  <2>10. bridge.token = i
    BY <1>11, <2>9 DEF ProvesServer, ServerProof, ProofBy
  <2>11. PICK proof : proof = ProofBy(bridge.token, "client", m.version, channelCase.offers)
    OBVIOUS
  <2>12. proof = BridgeProof(channelCase, i)
    BY <2>9, <2>10, <2>11 DEF BridgeProof
  <2>13. PICK f : f = Frame(ClientProof(proof))
    OBVIOUS
  <2>14. f \in Seq(Units(channelCase)) /\ Len(f) = FrameUnits /\ InStep(f)
    BY <2>12, <2>13, MessagesOf, AFrame DEF Units
  <2>15. links' = [ls EXCEPT ![l].up = @ \o f]
         /\ bridge' = [bridge EXCEPT !.at = "Acceptance", !.version = m.version]
    BY <1>1, <1>3, <1>7, <1>9, <1>11, <2>11, <2>13 DEF ReceiveChallenge
  <2>16. PICK y : y = [z EXCEPT !.up = f]
    OBVIOUS
  <2>17. <<>> \o f = f
    BY <2>14
  <2>18. y = [z EXCEPT !.up = @ \o f]
    BY <1>6, <2>7, <2>16, <2>17
  <2>19. ls[l] = z
    BY <1>4, <1>8, BridgeFields
  <2>20. links' = [links EXCEPT ![l] = y]
    BY <1>8, <2>15, <2>18, <2>19
  <2>21. /\ y \in LinkRecord(channelCase) /\ y.up = f /\ y.work = {} /\ y.client = x.client
         /\ y.server = x.server /\ y.down = <<>> /\ y.gotDown = <<>> /\ y.writing = <<>>
         /\ y.version = Spoken(channelCase, i)
    BY <1>6, <2>7, <2>14, <2>16 DEF LinkRecord, Streams
  <2>22. Spoken(channelCase, i) \in ChannelVersions(channelCase)
    BY MessagesOf
  <2>23. /\ bridge' \in BridgeRecord(channelCase) /\ bridge'.link = l /\ bridge'.at = "Acceptance"
         /\ bridge'.token = i /\ bridge'.version = Spoken(channelCase, i)
    BY <1>1, <2>9, <2>10, <2>15, <2>22, BridgeFields DEF BridgeRecord, LinkedAt
  <2>24. CallsFitAfter /\ callers' \in CallersRecord /\ UNCHANGED <<callers, served>>
    BY <1>2, CallsStay DEF callVars
  <2>25. (<<>> \o <<>>) \o <<>> = <<>>
    OBVIOUS
  <2>26. InStep((y.gotDown \o y.down) \o y.writing)
         /\ WholeFrames((y.gotDown \o y.down) \o y.writing)
    BY ONLY <2>21, <2>25, NothingIsInStep, Zenon
  <2>27. StreamsFit(y, bridge', served)
    BY <1>4, <1>11, <2>14, <2>21, <2>23, <2>26 DEF StreamsFit, Carries
  <2>28. ASSUME NEW j \in Supervisors, l \in LinksOf(servers[j])
         PROVE  StagesFit(channelCase, servers[j], j, l, y, bridge', Ordered(callers'))
    <3>1. j = i
      BY <1>4, <2>1, <2>28, HeldLinks
    <3>2. ProvingFits(channelCase, y, bridge', i)
      BY <2>14, <2>21, <2>23 DEF ProvingFits
    <3> QED  BY <2>4, <3>1, <3>2 DEF StagesFit
  <2>29. y.client = links[l].client /\ y.server = links[l].server /\ bridge'.at \in LinkedAt
         /\ bridge.link = l
    BY <1>1, <1>3, <2>21, <2>23 DEF LinkedAt
  <2> QED  BY <1>2, <1>4, <2>20, <2>21, <2>23, <2>24, <2>27, <2>28, <2>29, BridgeTakes
<1> QED  BY <1>10, <1>11

(* Another comes last. *)
LEMMA LastComes ==
  ASSUME NEW S, NEW queue \in Seq(S), NEW e \in S, NoneTwice(queue), e \notin InQueue(queue)
  PROVE  /\ Append(queue, e) \in Seq(S)
         /\ InQueue(Append(queue, e)) = InQueue(queue) \cup {e} /\ NoneTwice(Append(queue, e))
<1>1. PICK q \in Seq(S) : q = Append(queue, e)
  <2>1. Append(queue, e) \in Seq(S)
    OBVIOUS
  <2> QED  BY ONLY <2>1, Zenon
<1>2. PICK n \in Nat : n = Len(queue)
  OBVIOUS
<1>3. /\ DOMAIN q = 1..(n + 1) /\ DOMAIN queue = 1..n /\ q[n + 1] = e
      /\ \A k \in 1..n : q[k] = queue[k]
  BY <1>1, <1>2
<1>4. InQueue(q) = InQueue(queue) \cup {e}
  <2>1. ASSUME NEW k \in DOMAIN q PROVE q[k] \in InQueue(queue) \cup {e}
    BY <1>3 DEF InQueue
  <2>2. n + 1 \in DOMAIN q /\ \A k \in DOMAIN queue : k \in DOMAIN q
    BY <1>3
  <2> QED  BY <1>3, <2>1, <2>2 DEF InQueue
<1>5. ASSUME NEW j \in DOMAIN q, NEW k \in DOMAIN q, q[j] = q[k] PROVE j = k
  <2>1. (j \in 1..n \/ j = n + 1) /\ (k \in 1..n \/ k = n + 1)
    BY <1>3
  <2>2. \A m \in 1..n : q[m] # e
    BY <1>3 DEF InQueue
  <2>3. CASE j \in 1..n /\ k \in 1..n
    <3>1. queue[j] = queue[k] /\ j \in DOMAIN queue /\ k \in DOMAIN queue
      BY <1>3, <1>5, <2>3
    <3> QED  BY ONLY <3>1, NoneTwice(queue), Zenon DEF NoneTwice
  <2> QED  BY <1>3, <1>5, <2>1, <2>2, <2>3
<1> QED  BY <1>1, <1>4, <1>5 DEF NoneTwice

LEMMA Connects ==
  ASSUME ChannelInv, Connect, UNCHANGED callVars
  PROVE  ChannelInv'
<1>1. bridge.at = "Connecting" /\ UNCHANGED <<runtime, channelCase, callVars>>
  BY DEF Connect
<1>2. PICK i \in Supervisors, l \in Links :
        /\ Reachable(i) /\ links[l] = Free
        /\ links' = [links EXCEPT ![l] = [Dialled EXCEPT !.up = Frame(Hello(channelCase.offers))]]
        /\ servers' = [servers EXCEPT ![i].queue = Append(@, l)]
        /\ bridge' = [bridge EXCEPT !.at = "Challenge", !.link = l]
  BY DEF Connect
<1>3. ChannelTypes /\ RuntimesFit /\ ServersFit /\ EndsFit
  BY DEF ChannelInv
<1>4. bridge.link = Nobody /\ l # Nobody
  BY <1>1, BridgeFields, NobodyElse DEF LinkedAt
<1>5. /\ bridge' \in BridgeRecord(channelCase) /\ bridge'.link = l /\ bridge'.at = "Challenge"
  BY <1>2, BridgeFields DEF BridgeRecord, LinkedAt
<1>6. PICK f : f = Frame(Hello(channelCase.offers))
  OBVIOUS
<1>7. f \in Streams(channelCase) /\ InStep(f)
  BY <1>6, MessagesOf, AFrame DEF Units, Streams
<1>8. PICK y : y = [Dialled EXCEPT !.up = f]
  OBVIOUS
<1>9. /\ y \in LinkRecord(channelCase) /\ y.up = f /\ y.down = <<>> /\ y.client = TRUE
      /\ y.server = TRUE
      /\ y.gotDown = <<>> /\ y.work = {} /\ y.writing = <<>>
  <2>1. <<>> \in Streams(channelCase) /\ 0 \in ChannelVersions(channelCase)
    BY DEF Streams, ChannelVersions
  <2> QED  BY <1>7, <1>8, <2>1 DEF Dialled, Free, LinkRecord
<1>10. /\ links' \in [Links -> LinkRecord(channelCase)] /\ links'[l] = y
       /\ \A k \in Links : k # l => links'[k] = links[k]
  BY <1>2, <1>3, <1>6, <1>8, <1>9 DEF ChannelTypes
<1>11. \A k \in Links : ~links[k].client
  BY <1>4, HeldLinks, NobodyElse
<1>12. \A j \in Supervisors : l \notin LinksOf(servers[j])
  BY <1>2, FreeLinks, HeldLinks
<1>13. PICK s : s = [servers[i] EXCEPT !.queue = Append(@, l)]
  OBVIOUS
<1>14. servers[i] \in ServerRecord /\ ServerFits(servers[i]) /\ servers[i].queue \in Seq(Links)
       /\ servers[i].at \in ServingAt
  BY <1>2, ServerFields DEF Reachable, Serving, ServingAt
<1>15. l \notin InQueue(servers[i].queue) /\ l \notin servers[i].active /\ l # servers[i].link
  BY <1>12, HasLink
<1>16. /\ Append(servers[i].queue, l) \in Seq(Links) /\ NoneTwice(Append(servers[i].queue, l))
       /\ InQueue(Append(servers[i].queue, l)) = InQueue(servers[i].queue) \cup {l}
  BY <1>14, <1>15, LastComes DEF ServerFits
<1>17. /\ s \in ServerRecord /\ s.at = servers[i].at /\ s.link = servers[i].link
       /\ s.active = servers[i].active /\ s.queue = Append(servers[i].queue, l)
  BY <1>13, <1>14, <1>16 DEF ServerRecord
<1>18. ServerFits(s)
  BY <1>14, <1>15, <1>16, <1>17 DEF ServerFits
<1>19. /\ servers' \in [Supervisors -> ServerRecord] /\ servers'[i] = s
       /\ \A j \in Supervisors : j # i => servers'[j] = servers[j]
  BY <1>2, <1>3, <1>13, <1>17 DEF ChannelTypes
<1>20. LinksOf(s) = LinksOf(servers[i]) \cup {l}
  BY <1>16, <1>17 DEF LinksOf, InQueue
<1>21. CallsFitAfter /\ callers' \in CallersRecord /\ served' \subseteq Calls
  BY <1>1, CallsStay
<1>22. ChannelTypes'
  BY <1>1, <1>3, <1>5, <1>10, <1>19, <1>21 DEF ChannelTypes
<1>23. RuntimesFit'
  BY <1>1, <1>3, <1>17, <1>19 DEF RuntimesFit
<1>24. ServersFit'
  BY <1>3, <1>18, <1>19 DEF ServersFit
<1>25. EndsFit'
  <2>1. bridge'.link # Nobody <=> bridge'.at \in LinkedAt
    BY <1>4, <1>5 DEF LinkedAt
  <2>2. \A k \in Links : links'[k].client <=> bridge'.link = k
    BY <1>5, <1>9, <1>10, <1>11
  <2>3. \A j \in Supervisors : LinksOf(servers'[j]) = LinksOf(servers[j]) \cup (IF j = i THEN {l} ELSE {})
    BY <1>19, <1>20
  <2>4. \A k \in Links : links'[k].server <=> \E j \in Supervisors : k \in LinksOf(servers'[j])
    <3>1. ASSUME NEW k \in Links,
                 k # l PROVE links'[k].server <=> \E j \in Supervisors : k \in LinksOf(servers'[j])
      BY <1>3, <1>10, <2>3, <3>1 DEF EndsFit
    <3>2. links'[l].server /\ l \in LinksOf(servers'[i])
      BY <1>9, <1>10, <2>3
    <3> QED  BY <3>1, <3>2
  <2>5. \A j, k \in Supervisors : j # k
        => \A m \in LinksOf(servers'[j]) : m \notin LinksOf(servers'[k])
    BY <1>3, <1>12, <2>3 DEF EndsFit
  <2> QED  BY <2>1, <2>2, <2>4, <2>5 DEF EndsFit
<1>26. ASSUME NEW k \in Links, k # l PROVE Untouched(k)
  <2>1. \A j \in Supervisors : /\ Awaits(servers'[j], k) => Awaits(servers[j], k)
                               /\ Proves(servers'[j], k) => Proves(servers[j], k)
                               /\ k \in servers'[j].active => k \in servers[j].active
    BY <1>16, <1>17, <1>19, <1>26, ZenonT(60) DEF Awaits, Proves
  <2> QED  BY <1>10, <1>11, <1>26, <2>1 DEF Untouched
<1>27. FitsAfter(l)
  <2>1. (<<>> \o <<>>) \o <<>> = <<>>
    OBVIOUS
  <2>2. InStep((y.gotDown \o y.down) \o y.writing)
        /\ WholeFrames((y.gotDown \o y.down) \o y.writing)
    BY ONLY <1>9, <2>1, NothingIsInStep, Zenon
  <2>3. StreamsFit(y, bridge', served')
    BY <1>5, <1>7, <1>9, <2>2 DEF StreamsFit, Carries
  <2>4. ASSUME NEW j \in Supervisors
        PROVE  StagesFit(channelCase, servers'[j], j, l, y, bridge', Ordered(callers'))
    <3>1. CASE j # i
      BY <1>12, <1>19, <3>1, HasLink DEF StagesFit
    <3>2. CASE j = i
      <4>1. ~Proves(s, l) /\ l \notin s.active
        BY <1>15, <1>17 DEF Proves
      <4>2. AwaitingFits(channelCase, y, bridge')
        BY <1>5, <1>6, <1>9 DEF AwaitingFits
      <4> QED  BY <1>19, <3>2, <4>1, <4>2 DEF StagesFit
    <3> QED  BY <3>1, <3>2
  <2> QED  BY <1>10, <2>3, <2>4 DEF FitsAfter
<1> QED  BY <1>1, <1>21, <1>22, <1>23, <1>24, <1>25, <1>26, <1>27, StepsFit

LEMMA BridgeSteps ==
  ASSUME ChannelInv, BridgeStep, UNCHANGED callVars
  PROVE  ChannelInv'
<1>1. CASE ReadToken
  BY <1>1, ReadsToken
<1>2. CASE WaitIsOver \/ BackoffIsOver
  BY <1>2, WaitsNoLonger
<1>3. CASE Connect
  BY <1>3, Connects
<1>4. CASE ConnectFails
  BY <1>4, FailsToConnect
<1>5. CASE ReceiveChallenge
  BY <1>5, ReceivesChallenge
<1>6. CASE ReceiveAcceptance
  BY <1>6, ReceivesAcceptance
<1>7. CASE LoseHandshake
  BY <1>7, LosesHandshake
<1> QED  BY <1>1, <1>2, <1>3, <1>4, <1>5, <1>6, <1>7 DEF BridgeStep

------------------------------------------------------------
(* The calls *)

KeptFits(cs, done) ==
  /\ NoneTwice(cs.queue)
  /\ \A k \in DOMAIN cs.queue : cs.told[cs.queue[k]] \notin {"Nothing", "Busy", "Duplicate"}
  /\ done \subseteq Ordered(cs)
  /\ \A c \in Calls : cs.told[c] = "Answered" =>
       /\ cs.answer[c] \in done
       /\ RequestId[cs.answer[c]] = RequestId[c] /\ OperationId[cs.answer[c]] = OperationId[c]

PendingFits(cs, b, pending) ==
  /\ b.at # "Connected" => cs.pending = {}
  /\ IsFiniteSet(cs.pending) /\ Cardinality(cs.pending) <= pending
  /\ \A c, d \in cs.pending : RequestId[c] = RequestId[d] => c = d

LEMMA CallParts ==
  ASSUME NEW cs, NEW done, NEW b, NEW pending
  PROVE  CallsFit(cs, done, b, pending) <=> KeptFits(cs, done) /\ PendingFits(cs, b, pending)
BY Zenon DEF CallsFit, KeptFits, PendingFits

(* What may become of one call *)
CallGoesOn(cs, ct, done, c) ==
  /\ c \in InQueue(ct.queue) => c \in InQueue(cs.queue)
     \/ (cs.told[c] = "Nothing" /\ ct.told[c] # "Nothing")
  /\ \/ ct.told[c] = cs.told[c] /\ ct.answer[c] = cs.answer[c]
     \/ ct.told[c] \in {"Asked", "Unavailable", "Timeout", "Done", "Violation"}
     \/ ct.told[c] \in {"Busy", "Duplicate"} /\ c \notin InQueue(ct.queue) /\ c \notin Ordered(cs)
     \/ /\ ct.told[c] = "Answered" /\ ct.answer[c] \in done
        /\ RequestId[ct.answer[c]] = RequestId[c] /\ OperationId[ct.answer[c]] = OperationId[c]

LEMMA CallsGoOn ==
  ASSUME NEW cs \in CallersRecord, NEW ct \in CallersRecord, NEW done, done \subseteq Calls,
         KeptFits(cs, done),
         NoneTwice(ct.queue), \A c \in Calls : CallGoesOn(cs, ct, done, c)
  PROVE  KeptFits(ct, done) /\ Ordered(cs) \subseteq Ordered(ct)
<1>1. ASSUME NEW c \in Ordered(cs) PROVE c \in Ordered(ct)
  <2>1. c \in Calls /\ cs.told[c] \notin {"Nothing", "Busy", "Duplicate"}
        /\ c \notin InQueue(cs.queue)
    BY DEF Ordered
  <2>2. CallGoesOn(cs, ct, done, c)
    BY <2>1
  <2>3. ct.told[c] \notin {"Nothing", "Busy", "Duplicate"} /\ c \notin InQueue(ct.queue)
    BY <2>1, <2>2 DEF CallGoesOn
  <2> QED  BY <2>1, <2>3 DEF Ordered
<1>2. ASSUME NEW k \in DOMAIN ct.queue PROVE ct.told[ct.queue[k]] \notin {"Nothing", "Busy",
             "Duplicate"}
  <2>1. PICK c : c = ct.queue[k]
    OBVIOUS
  <2>2. c \in Calls /\ c \in InQueue(ct.queue)
    BY <2>1 DEF CallersRecord, InQueue
  <2>3. CallGoesOn(cs, ct, done, c)
    BY <2>2
  <2>4. c \in InQueue(cs.queue) => cs.told[c] \notin {"Nothing", "Busy", "Duplicate"}
    BY DEF KeptFits, InQueue
  <2>5. ct.told[c] \notin {"Nothing", "Busy", "Duplicate"}
    BY <2>2, <2>3, <2>4 DEF CallGoesOn
  <2> QED  BY <2>1, <2>5
<1>3. ASSUME NEW c \in Calls, ct.told[c] = "Answered"
      PROVE  /\ ct.answer[c] \in done
             /\ RequestId[ct.answer[c]] = RequestId[c] /\ OperationId[ct.answer[c]] = OperationId[c]
  BY <1>3 DEF KeptFits, CallGoesOn
<1>4. done \subseteq Ordered(ct)
  BY <1>1 DEF KeptFits
<1> QED  BY <1>1, <1>2, <1>3, <1>4 DEF KeptFits

LEMMA CallFields ==
  ASSUME ChannelInv
  PROVE  /\ callers \in CallersRecord /\ served \subseteq Calls /\ channelCase.pending \in Nat
         /\ KeptFits(callers, served) /\ PendingFits(callers, bridge, channelCase.pending)
         /\ callers.queue \in Seq(Calls) /\ callers.pending \subseteq Calls
         /\ callers.answer \in [Calls -> Calls \cup {Nobody}] /\ NoneTwice(callers.queue)
<1>1. callers \in CallersRecord /\ served \subseteq Calls /\ channelCase \in ChannelCases
  BY DEF ChannelInv, ChannelTypes
<1>2. CallsFit(callers, served, bridge, channelCase.pending)
  BY DEF ChannelInv
<1>3. channelCase.pending \in Nat
  BY <1>1, CallCasesAreInputs
<1>4. /\ callers.queue \in Seq(Calls) /\ callers.pending \subseteq Calls
      /\ callers.answer \in [Calls -> Calls \cup {Nobody}]
  BY <1>1 DEF CallersRecord
<1> QED  BY <1>1, <1>2, <1>3, <1>4, CallParts DEF KeptFits

(* A step of the calls, pending ones among them *)
LEMMA CallsMove ==
  ASSUME ChannelInv, callers' \in CallersRecord, served' = served, NoneTwice(callers'.queue),
         \A c \in Calls : CallGoesOn(callers, callers', served, c),
         PendingFits(callers', bridge', channelCase.pending)
  PROVE  CallsFitAfter
<1>1. KeptFits(callers', served) /\ Ordered(callers) \subseteq Ordered(callers')
  <2>1. PICK ct \in CallersRecord : ct = callers'
    OBVIOUS
  <2>2. NoneTwice(ct.queue) /\ \A c \in Calls : CallGoesOn(callers, ct, served, c)
    BY <2>1
  <2>3. KeptFits(ct, served) /\ Ordered(callers) \subseteq Ordered(ct)
    BY <2>2, CallFields, CallsGoOn
  <2> QED  BY <2>1, <2>3
<1>2. CallsFit(callers', served', bridge', channelCase.pending)
  BY <1>1, CallParts
<1> QED  BY <1>1, <1>2 DEF CallsFitAfter

LEMMA FewerPending ==
  ASSUME ChannelInv, NEW fewer, fewer \subseteq callers.pending
  PROVE  /\ IsFiniteSet(fewer) /\ Cardinality(fewer) <= channelCase.pending
         /\ \A c, d \in fewer : RequestId[c] = RequestId[d] => c = d
<1>1. /\ IsFiniteSet(callers.pending) /\ Cardinality(callers.pending) <= channelCase.pending
      /\ \A c, d \in callers.pending : RequestId[c] = RequestId[d] => c = d
      /\ channelCase.pending \in Nat
  BY CallFields DEF PendingFits
<1>2. IsFiniteSet(fewer) /\ Cardinality(fewer) <= Cardinality(callers.pending)
  BY <1>1, FS_Subset
<1>3. Cardinality(fewer) \in Nat /\ Cardinality(callers.pending) \in Nat
  BY <1>1, <1>2, FS_CardinalityType
<1> QED  BY <1>1, <1>2, <1>3

ToldWords == {"Nothing", "Asked", "Unavailable", "Busy", "Duplicate", "Timeout", "Done", "Answered",
  "Violation"}

(* What Told does *)
LEMMA Tells ==
  ASSUME NEW cs \in CallersRecord, NEW who, NEW what \in ToldWords, NEW ct, ct = Told(cs, who, what)
  PROVE  /\ ct \in CallersRecord /\ ct.queue = cs.queue /\ ct.pending = cs.pending
         /\ ct.answer = cs.answer
         /\ \A c \in Calls : ct.told[c] = IF c \in who
            /\ cs.told[c] = "Asked" THEN what ELSE cs.told[c]
<1>1. PICK f : f = [c \in Calls |-> IF c \in who /\ cs.told[c] = "Asked" THEN what ELSE cs.told[c]]
  OBVIOUS
<1>2. f \in [Calls -> ToldWords]
  BY <1>1 DEF CallersRecord, ToldWords
<1>3. ct = [cs EXCEPT !.told = f]
  BY <1>1 DEF Told
<1>4. ct \in CallersRecord /\ ct.queue = cs.queue /\ ct.pending = cs.pending
      /\ ct.answer = cs.answer /\ ct.told = f
  BY <1>2, <1>3 DEF CallersRecord, ToldWords
<1> QED  BY <1>1, <1>4

LEMMA OnlyCalls ==
  ASSUME ChannelInv, UNCHANGED <<runtime, servers, links, bridge, channelCase, served>>,
         CallsFitAfter, callers' \in CallersRecord
  PROVE  ChannelInv'
<1>1. ChannelTypes /\ RuntimesFit /\ ServersFit /\ EndsFit
  BY DEF ChannelInv
<1>2. ChannelTypes' /\ RuntimesFit' /\ ServersFit' /\ EndsFit'
  BY <1>1 DEF ChannelTypes, RuntimesFit, ServersFit, EndsFit
<1>3. \A l \in Links : Untouched(l)
  BY DEF Untouched
<1> QED  BY <1>2, <1>3, StepsFit

(* Nothing is lost of a frame that is half read. *)
LEMMA NothingDropped ==
  ASSUME ChannelInv, bridge.at \in LinkedAt
  PROVE  Interrupted = links
<1>1. PICK l \in Links : l = bridge.link
  BY AtBridge
<1>2. links \in [Links -> LinkRecord(channelCase)] /\ links[l] \in LinkRecord(channelCase)
  BY BridgeFields
<1>3. [links[l] EXCEPT !.gotDown = @] = links[l]
  BY <1>2 DEF LinkRecord
<1>4. Interrupted = [links EXCEPT ![l] = [links[l] EXCEPT !.gotDown = @]]
  BY <1>1 DEF Interrupted, Dropped
<1>5. [links EXCEPT ![l] = links[l]] = links
  BY <1>2
<1> QED  BY <1>3, <1>4, <1>5

LEMMA TakesCommand ==
  ASSUME ChannelInv, callers.queue # <<>>, NEW cs, cs = Taken
  PROVE  /\ cs \in CallersRecord /\ cs.queue = Tail(callers.queue) /\ cs.pending = callers.pending
         /\ cs.told = callers.told /\ cs.answer = callers.answer
         /\ Command \in Calls /\ Command \in InQueue(callers.queue)
         /\ Command \notin Ordered(callers)
         /\ callers.told[Command] \notin {"Nothing", "Busy", "Duplicate"}
         /\ InQueue(cs.queue) = InQueue(callers.queue) \ {Command} /\ NoneTwice(cs.queue)
<1>1. /\ callers \in CallersRecord /\ callers.queue \in Seq(Calls) /\ NoneTwice(callers.queue)
      /\ KeptFits(callers, served)
  BY CallFields
<1>2. PICK rest : rest = Tail(callers.queue)
  OBVIOUS
<1>3. /\ rest \in Seq(Calls) /\ Command \in InQueue(callers.queue) /\ Command \in Calls
      /\ InQueue(rest) = InQueue(callers.queue) \ {Command} /\ NoneTwice(rest)
  BY <1>1, <1>2, FirstGoes DEF Command
<1>4. cs = [callers EXCEPT !.queue = rest]
  BY <1>2 DEF Taken
<1>5. /\ cs \in CallersRecord /\ cs.queue = rest /\ cs.pending = callers.pending
      /\ cs.told = callers.told /\ cs.answer = callers.answer
  BY <1>1, <1>3, <1>4 DEF CallersRecord
<1>6. callers.told[Command] \notin {"Nothing", "Busy", "Duplicate"}
  BY <1>1, <1>3 DEF KeptFits, InQueue
<1>7. Command \notin Ordered(callers)
  BY <1>3 DEF Ordered
<1> QED  BY <1>2, <1>3, <1>5, <1>6, <1>7

(* A command is answered before it was sent. *)
LEMMA CommandTold ==
  ASSUME ChannelInv, callers.queue # <<>>, NEW ct,
         NEW what \in {"Unavailable", "Done", "Busy", "Duplicate"},
           ct = Told(Taken, {Command}, what)
  PROVE  /\ ct \in CallersRecord /\ ct.pending = callers.pending /\ NoneTwice(ct.queue)
         /\ ct.answer = callers.answer /\ ct.queue = Tail(callers.queue)
         /\ \A c \in Calls : CallGoesOn(callers, ct, served, c)
         /\ Command \notin InQueue(ct.queue)
         /\ what = "Unavailable" => ct.told[Command] \notin {"Nothing", "Busy", "Duplicate"}
<1>1. PICK cs \in CallersRecord : cs = Taken
  BY TakesCommand
<1>2. /\ cs.queue = Tail(callers.queue) /\ cs.pending = callers.pending
      /\ cs.told = callers.told /\ cs.answer = callers.answer
      /\ Command \in Calls /\ Command \in InQueue(callers.queue) /\ Command \notin Ordered(callers)
      /\ InQueue(cs.queue) = InQueue(callers.queue) \ {Command} /\ NoneTwice(cs.queue)
  BY <1>1, TakesCommand
<1>0. PICK who : who = {Command}
  OBVIOUS
<1>6. PICK word \in ToldWords : word = what
  BY DEF ToldWords
<1>3. ct = Told(cs, who, word)
  BY <1>0, <1>1, <1>6
<1>4. /\ ct \in CallersRecord /\ ct.queue = cs.queue /\ ct.pending = cs.pending
      /\ ct.answer = cs.answer
      /\ \A c \in Calls : ct.told[c] = IF c \in who
         /\ cs.told[c] = "Asked" THEN word ELSE cs.told[c]
  BY ONLY <1>3, Tells, cs \in CallersRecord, word \in ToldWords
<1>5. ASSUME NEW c \in Calls PROVE CallGoesOn(callers, ct, served, c)
  BY <1>0, <1>2, <1>4, <1>6 DEF CallGoesOn
<1>7. /\ Command \notin InQueue(ct.queue)
      /\ what = "Unavailable" => ct.told[Command] \notin {"Nothing", "Busy", "Duplicate"}
  <2>1. callers.told[Command] \notin {"Nothing", "Busy", "Duplicate"}
    BY TakesCommand
  <2> QED  BY <1>0, <1>2, <1>4, <1>6, <2>1
<1> QED  BY <1>2, <1>4, <1>5, <1>7

LEMMA Asking ==
  ASSUME ChannelInv, NEW c \in Calls, Ask(c)
  PROVE  ChannelInv'
<1>1. /\ callers.told[c] = "Nothing" /\ callers \in CallersRecord /\ KeptFits(callers, served)
      /\ callers.queue \in Seq(Calls) /\ PendingFits(callers, bridge, channelCase.pending)
      /\ NoneTwice(callers.queue)
      /\ UNCHANGED <<runtime, servers, links, bridge, channelCase, served>>
  BY CallFields DEF Ask, linkVars
<1>2. PICK cs : cs = [callers EXCEPT !.told[c] = "Asked"]
  OBVIOUS
<1>3. /\ cs \in CallersRecord /\ cs.queue = callers.queue /\ cs.pending = callers.pending
      /\ cs.answer = callers.answer /\ cs.told = [callers.told EXCEPT ![c] = "Asked"]
  BY <1>1, <1>2 DEF CallersRecord
<1>4. cs.told[c] = "Asked" /\ \A d \in Calls : d # c => cs.told[d] = callers.told[d]
  BY <1>1, <1>3 DEF CallersRecord
<1>5. c \notin InQueue(callers.queue) /\ c \notin Ordered(callers)
  BY <1>1 DEF KeptFits, Ordered, InQueue
<1>6. ASSUME NEW what \in {"Unavailable", "Busy"}, callers' = Told(cs, {c}, what) PROVE ChannelInv'
  <2>1. PICK ct : ct = Told(cs, {c}, what)
    OBVIOUS
  <2>2. /\ ct \in CallersRecord /\ ct.queue = cs.queue /\ ct.pending = cs.pending
        /\ ct.answer = cs.answer
        /\ \A d \in Calls : ct.told[d] = IF d \in {c}
           /\ cs.told[d] = "Asked" THEN what ELSE cs.told[d]
    <3>1. PICK word \in ToldWords : word = what
      BY DEF ToldWords
    <3>3. PICK who : who = {c}
      OBVIOUS
    <3>5. cs \in CallersRecord
      BY <1>3
    <3>2. ct = Told(cs, who, word)
      BY <2>1, <3>1, <3>3
    <3>4. /\ ct \in CallersRecord /\ ct.queue = cs.queue /\ ct.pending = cs.pending
          /\ ct.answer = cs.answer
          /\ \A d \in Calls : ct.told[d] = IF d \in who
             /\ cs.told[d] = "Asked" THEN word ELSE cs.told[d]
      BY ONLY <3>2, Tells, <3>5, word \in ToldWords
    <3> QED  BY ONLY <3>1, <3>3, <3>4, Zenon
  <2>3. ASSUME NEW d \in Calls PROVE CallGoesOn(callers, ct, served, d)
    BY <1>1, <1>3, <1>4, <1>5, <2>2 DEF CallGoesOn
  <2>4. PendingFits(ct, bridge', channelCase.pending)
    BY <1>1, <1>3, <2>2 DEF PendingFits
  <2>5. CallsFitAfter /\ callers' \in CallersRecord
    BY <1>1, <1>3, <1>6, <2>1, <2>2, <2>3, <2>4, CallsMove
  <2> QED  BY <1>1, <2>5, OnlyCalls
<1>7. CASE callers' = [cs EXCEPT !.queue = Append(@, c)]
  <2>1. PICK ct : ct = [cs EXCEPT !.queue = Append(@, c)]
    OBVIOUS
  <2>2. PICK queue \in Seq(Calls) : queue = callers.queue
    BY <1>1
  <2>3. /\ Append(queue, c) \in Seq(Calls) /\ NoneTwice(Append(queue, c))
        /\ InQueue(Append(queue, c)) = InQueue(queue) \cup {c}
    BY <1>1, <1>5, <2>2, LastComes
  <2>4. /\ ct \in CallersRecord /\ ct.queue = Append(queue, c) /\ ct.pending = cs.pending
        /\ ct.answer = cs.answer /\ ct.told = cs.told
    BY <1>3, <2>1, <2>2, <2>3 DEF CallersRecord
  <2>5. ASSUME NEW d \in Calls PROVE CallGoesOn(callers, ct, served, d)
    BY <1>1, <1>3, <1>4, <1>5, <2>2, <2>3, <2>4 DEF CallGoesOn
  <2>6. PendingFits(ct, bridge', channelCase.pending)
    BY <1>1, <1>3, <2>4 DEF PendingFits
  <2>7. CallsFitAfter /\ callers' \in CallersRecord
    BY <1>1, <1>7, <2>1, <2>3, <2>4, <2>5, <2>6, CallsMove
  <2> QED  BY <1>1, <2>7, OnlyCalls
<1>8. \/ callers' = [cs EXCEPT !.queue = Append(@, c)]
      \/ \E what \in {"Unavailable", "Busy"} : callers' = Told(cs, {c}, what)
  BY <1>2 DEF Ask
<1> QED  BY <1>6, <1>7, <1>8

LEMMA GivesUpWaiting ==
  ASSUME ChannelInv, NEW c \in Calls, CallerGivesUp(c)
  PROVE  ChannelInv'
<1>1. /\ callers \in CallersRecord /\ PendingFits(callers, bridge, channelCase.pending)
      /\ NoneTwice(callers.queue)
      /\ UNCHANGED <<runtime, servers, links, bridge, channelCase, served>>
      /\ callers' = Told(callers, {c}, "Timeout")
  BY CallFields DEF CallerGivesUp, linkVars
<1>2. PICK ct : ct = Told(callers, {c}, "Timeout")
  OBVIOUS
<1>3. /\ ct \in CallersRecord /\ ct.queue = callers.queue /\ ct.pending = callers.pending
      /\ ct.answer = callers.answer
      /\ \A d \in Calls : ct.told[d] = IF d \in {c}
         /\ callers.told[d] = "Asked" THEN "Timeout" ELSE callers.told[d]
  BY <1>1, <1>2, Tells DEF ToldWords
<1>4. ASSUME NEW d \in Calls PROVE CallGoesOn(callers, ct, served, d)
  BY <1>3 DEF CallGoesOn
<1>5. PendingFits(ct, bridge', channelCase.pending)
  BY <1>1, <1>3 DEF PendingFits
<1>6. CallsFitAfter /\ callers' \in CallersRecord
  BY <1>1, <1>2, <1>3, <1>4, <1>5, CallsMove
<1> QED  BY <1>1, <1>6, OnlyCalls

(* A command that the bridge does not send on *)
LEMMA NotSent ==
  ASSUME ChannelInv, callers.queue # <<>>,
         NEW what \in {"Unavailable", "Done", "Busy", "Duplicate"},
         callers' = Told(Taken, {Command}, what),
         UNCHANGED <<runtime, servers, links, bridge, channelCase, served>>
  PROVE  ChannelInv'
<1>1. PICK ct : ct = Told(Taken, {Command}, what)
  OBVIOUS
<1>2. /\ ct \in CallersRecord /\ ct.pending = callers.pending /\ NoneTwice(ct.queue)
      /\ \A c \in Calls : CallGoesOn(callers, ct, served, c)
  BY <1>1, CommandTold
<1>3. PendingFits(ct, bridge', channelCase.pending)
  BY <1>2, CallFields DEF PendingFits
<1>4. CallsFitAfter /\ callers' \in CallersRecord
  BY <1>1, <1>2, <1>3, CallsMove
<1> QED  BY <1>4, OnlyCalls

LEMMA FailsCommand ==
  ASSUME ChannelInv, FailCommand
  PROVE  ChannelInv'
BY NotSent DEF FailCommand, Unmade, linkVars

LEMMA RefusesCommand ==
  ASSUME ChannelInv, RefuseCommand
  PROVE  ChannelInv'
BY NothingDropped, NotSent DEF RefuseCommand, Refusal, HasCommand, Connected, LinkedAt

LEMMA Expires ==
  ASSUME ChannelInv, Expire
  PROVE  ChannelInv'
<1>1. /\ bridge.at = "Connected" /\ links' = Interrupted
      /\ UNCHANGED <<runtime, servers, bridge, channelCase, served>>
  BY DEF Expire, Connected
<1>2. PICK c \in callers.pending : callers' = [Told(callers, {c},
      "Timeout") EXCEPT !.pending = @ \ {c}]
  BY DEF Expire
<1>3. PICK cs : cs = Told(callers, {c}, "Timeout")
  OBVIOUS
<1>4. /\ cs \in CallersRecord /\ cs.queue = callers.queue /\ cs.pending = callers.pending
      /\ cs.answer = callers.answer
      /\ \A d \in Calls : cs.told[d] = IF d \in {c}
         /\ callers.told[d] = "Asked" THEN "Timeout" ELSE callers.told[d]
  BY <1>3, CallFields, Tells DEF ToldWords
<1>5. PICK ct : ct = [cs EXCEPT !.pending = @ \ {c}]
  OBVIOUS
<1>6. /\ ct \in CallersRecord /\ ct.queue = callers.queue /\ ct.pending = callers.pending \ {c}
      /\ ct.answer = callers.answer /\ ct.told = cs.told
  BY <1>4, <1>5 DEF CallersRecord
<1>7. ASSUME NEW d \in Calls PROVE CallGoesOn(callers, ct, served, d)
  BY <1>4, <1>6 DEF CallGoesOn
<1>8. PendingFits(ct, bridge', channelCase.pending)
  BY <1>1, <1>6, FewerPending DEF PendingFits
<1>9. CallsFitAfter /\ callers' \in CallersRecord
  BY <1>1, <1>2, <1>3, <1>5, <1>6, <1>7, <1>8, CallFields, CallsMove
<1>10. links' = links
  BY <1>1, NothingDropped DEF LinkedAt
<1> QED  BY <1>1, <1>9, <1>10, OnlyCalls

(* All who wait are told that the connection is gone. *)
LEMMA NobodyPends ==
  ASSUME NEW b, NEW n \in Nat, NEW cs, cs.pending = {}
  PROVE  PendingFits(cs, b, n)
BY FS_EmptySet DEF PendingFits

ToldAll(cs, who, queue) == [Told(cs, who, "Unavailable") EXCEPT !.queue = queue, !.pending = {}]

LEMMA AllAreTold ==
  ASSUME ChannelInv, NEW cs \in CallersRecord, NoneTwice(cs.queue),
         \A c \in Calls : CallGoesOn(callers, cs, served, c),
         NEW who, NEW queue, queue = <<>> \/ queue = cs.queue,
         NEW ct, ct = ToldAll(cs, who, queue)
  PROVE  /\ ct \in CallersRecord /\ ct.queue = queue /\ ct.pending = {} /\ NoneTwice(ct.queue)
         /\ \A c \in Calls : ct.told[c] = cs.told[c] \/ ct.told[c] = "Unavailable"
         /\ \A c \in Calls : CallGoesOn(callers, ct, served, c)
<1>1. PICK cu : cu = Told(cs, who, "Unavailable")
  OBVIOUS
<1>2. /\ cu \in CallersRecord /\ cu.queue = cs.queue /\ cu.pending = cs.pending
      /\ cu.answer = cs.answer
      /\ \A c \in Calls : cu.told[c] = IF c \in who
         /\ cs.told[c] = "Asked" THEN "Unavailable" ELSE cs.told[c]
  BY <1>1, Tells DEF ToldWords
<1>3. queue \in Seq(Calls) /\ InQueue(queue) \subseteq InQueue(cs.queue) /\ NoneTwice(queue)
  <2>1. <<>> \in Seq(Calls) /\ InQueue(<<>>) = {} /\ NoneTwice(<<>>)
    BY DEF InQueue, NoneTwice
  <2>2. cs.queue \in Seq(Calls)
    BY DEF CallersRecord
  <2> QED  BY <2>1, <2>2
<1>4. /\ ct \in CallersRecord /\ ct.queue = queue /\ ct.pending = {} /\ ct.answer = cs.answer
      /\ ct.told = cu.told
  BY <1>1, <1>2, <1>3 DEF ToldAll, CallersRecord
<1>5. ASSUME NEW c \in Calls PROVE CallGoesOn(callers, ct, served, c)
  <2>1. CallGoesOn(callers, cs, served, c)
    OBVIOUS
  <2>2. c \in InQueue(ct.queue) => c \in InQueue(cs.queue)
    BY <1>3, <1>4
  <2>3. ct.answer[c] = cs.answer[c] /\ (ct.told[c] = cs.told[c] \/ ct.told[c] = "Unavailable")
    BY <1>2, <1>4
  <2> QED  BY <2>1, <2>2, <2>3 DEF CallGoesOn
<1> QED  BY <1>2, <1>3, <1>4, <1>5

LEMMA ConversationEnds ==
  ASSUME ChannelInv, bridge.at = "Connected", NEW ls, NEW cs \in CallersRecord, EndsWith(ls, cs),
         UNCHANGED <<runtime, servers, channelCase, served>>,
         NoneTwice(cs.queue), \A c \in Calls : CallGoesOn(callers, cs, served, c),
         NEW x \in LinkRecord(channelCase), ls = [links EXCEPT ![bridge.link] = x],
         StreamsFit(x, bridge, served),
         x.server = links[bridge.link].server, x.version = links[bridge.link].version,
         x.work = links[bridge.link].work, x.writing = links[bridge.link].writing,
         \/ x.up = links[bridge.link].up
         \/ \A k \in DOMAIN x.up :
              \/ x.up[k].of \in Asks(Ordered(callers))
              \/ \E c \in Calls : /\ x.up[k].of = Request(c) /\ c \notin InQueue(cs.queue)
                                  /\ cs.told[c] \notin {"Nothing", "Busy", "Duplicate"}
  PROVE  ChannelInv'
<1>1. PICK l : l = bridge.link
  OBVIOUS
<1>2. l \in Links /\ l # Nobody
  BY <1>1, AtBridge, NobodyElse DEF LinkedAt
<1>3. bridge' = [bridge EXCEPT !.at = "Token", !.link = Nobody, !.version = 0]
  BY DEF EndsWith
<1>4. /\ bridge' \in BridgeRecord(channelCase) /\ bridge'.link = Nobody /\ bridge'.at = "Token"
  BY <1>3, BridgeFields DEF BridgeRecord
<1>5. bridge'.at \notin LinkedAt
  BY <1>4 DEF LinkedAt
<1>6. links' = [links EXCEPT ![l] = ClientClosed(x)]
  <2>1. links' = CloseClientEnd(ls, l)
    BY <1>1 DEF EndsWith
  <2>2. ls[l] = x /\ DOMAIN ls = Links
    BY <1>1, <1>2, BridgeFields
  <2>3. links' = [ls EXCEPT ![l] = ClientClosed(x)]
    BY <1>2, <2>1, <2>2 DEF CloseClientEnd, ClientClosed
  <2> QED  BY <1>1, <2>3
<1>7. PICK queue : queue = cs.queue
  OBVIOUS
<1>8. PICK who : who = cs.pending
  OBVIOUS
<1>9. PICK ct : ct = ToldAll(cs, who, queue)
  OBVIOUS
<1>10. /\ ct \in CallersRecord /\ ct.queue = cs.queue /\ ct.pending = {} /\ NoneTwice(ct.queue)
       /\ \A c \in Calls : ct.told[c] = cs.told[c] \/ ct.told[c] = "Unavailable"
       /\ \A c \in Calls : CallGoesOn(callers, ct, served, c)
  <2>1. queue = <<>> \/ queue = cs.queue
    BY <1>7
  <2>2. NoneTwice(cs.queue) /\ \A c \in Calls : CallGoesOn(callers, cs, served, c)
    OBVIOUS
  <2>3. /\ ct \in CallersRecord /\ ct.queue = queue /\ ct.pending = {} /\ NoneTwice(ct.queue)
        /\ \A c \in Calls : ct.told[c] = cs.told[c] \/ ct.told[c] = "Unavailable"
        /\ \A c \in Calls : CallGoesOn(callers, ct, served, c)
    BY ONLY ChannelInv, cs \in CallersRecord, <1>9, <2>1, <2>2, AllAreTold
  <2> QED  BY <1>7, <2>3
<1>11. callers' = ct
  <2>1. PICK cu \in CallersRecord : cu = Told(cs, who, "Unavailable") /\ cu.queue = cs.queue
    <3>1. "Unavailable" \in ToldWords
      BY DEF ToldWords
    <3>2. PICK cu : cu = Told(cs, who, "Unavailable")
      OBVIOUS
    <3>3. cu \in CallersRecord /\ cu.queue = cs.queue
      BY <3>1, <3>2, Tells
    <3> QED  BY <3>2, <3>3
  <2>2. callers' = [cu EXCEPT !.pending = {}]
    BY <1>8, <2>1 DEF EndsWith
  <2>3. ct = [cu EXCEPT !.queue = queue, !.pending = {}]
    BY <1>9, <2>1 DEF ToldAll
  <2> QED  BY <1>7, <2>1, <2>2, <2>3, ZenonT(60) DEF CallersRecord
<1>12. CallsFitAfter /\ callers' \in CallersRecord
  <2>1. PendingFits(ct, bridge', channelCase.pending)
    BY <1>10, CallFields, NobodyPends DEF PendingFits
  <2> QED  BY <1>10, <1>11, <2>1, CallsMove
<1>13. x.up = links[l].up \/ (bridge.at = "Connected" /\ Carries(x.up, Asks(Ordered(callers'))))
  <2>1. CASE x.up = links[bridge.link].up
    BY <1>1, <2>1
  <2>2. CASE \A k \in DOMAIN x.up :
               \/ x.up[k].of \in Asks(Ordered(callers))
               \/ \E c \in Calls : /\ x.up[k].of = Request(c) /\ c \notin InQueue(cs.queue)
                                   /\ cs.told[c] \notin {"Nothing", "Busy", "Duplicate"}
    <3>1. Ordered(callers) \subseteq Ordered(ct)
      BY <1>11, <1>12 DEF CallsFitAfter
    <3>2. \A c \in Calls : c \notin InQueue(cs.queue)
          /\ cs.told[c] \notin {"Nothing", "Busy", "Duplicate"}
                           => c \in Ordered(ct)
      BY <1>10 DEF Ordered
    <3>3. \A k \in DOMAIN x.up : x.up[k].of \in Asks(Ordered(ct))
      BY <2>2, <3>1, <3>2 DEF Asks
    <3> QED  BY <1>11, <3>3 DEF Carries
  <2> QED  BY <2>1, <2>2
<1> QED  BY <1>1, <1>2, <1>4, <1>5, <1>6, <1>12, <1>13, BridgeHangs

LEMMA Quits ==
  ASSUME ChannelInv, Quit
  PROVE  ChannelInv'
<1>1. /\ UNCHANGED <<runtime, servers, channelCase, served>>
      /\ links' = IF bridge.link = Nobody THEN links ELSE CloseClientEnd(links, bridge.link)
      /\ bridge' = [bridge EXCEPT !.at = "Closed", !.link = Nobody, !.version = 0]
      /\ callers' = [Told(callers, Calls, "Unavailable") EXCEPT !.queue = <<>>, !.pending = {}]
  BY DEF Quit
<1>2. bridge' \in BridgeRecord(channelCase) /\ bridge'.link = Nobody /\ bridge'.at = "Closed"
  BY <1>1, BridgeFields DEF BridgeRecord
<1>3. bridge'.at \notin LinkedAt
  BY <1>2 DEF LinkedAt
<1>4. CallsFitAfter /\ callers' \in CallersRecord
  <2>1. PICK cs \in CallersRecord : cs = callers
    BY CallFields
  <2>2. NoneTwice(cs.queue) /\ \A c \in Calls : CallGoesOn(callers, cs, served, c)
    BY <2>1, CallFields DEF CallGoesOn
  <2>3. PICK queue : queue = <<>>
    OBVIOUS
  <2>4. PICK ct : ct = ToldAll(cs, Calls, queue)
    OBVIOUS
  <2>5. /\ ct \in CallersRecord /\ ct.pending = {} /\ NoneTwice(ct.queue)
        /\ \A c \in Calls : CallGoesOn(callers, ct, served, c)
    BY <2>2, <2>3, <2>4, AllAreTold
  <2>6. callers' = ct
    BY <1>1, <2>1, <2>3, <2>4 DEF ToldAll
  <2>7. PendingFits(ct, bridge', channelCase.pending)
    BY <2>5, CallFields, NobodyPends DEF PendingFits
  <2> QED  BY <1>1, <2>5, <2>6, <2>7, CallsMove
<1>5. CASE bridge.link = Nobody
  BY <1>1, <1>2, <1>3, <1>4, <1>5, BridgeRests
<1>6. CASE bridge.link # Nobody
  <2>1. PICK l \in Links : l = bridge.link
    BY <1>6, BridgeFields
  <2>2. PICK x \in LinkRecord(channelCase) : x = links[l] /\ StreamsFit(x, bridge, served)
    BY HeldLinks
  <2>3. links' = [links EXCEPT ![l] = ClientClosed(x)]
    BY <1>1, <1>6, <2>1, <2>2, BridgeFields DEF CloseClientEnd, ClientClosed
  <2> QED  BY <1>1, <1>2, <1>3, <1>4, <2>1, <2>2, <2>3, BridgeHangs
<1> QED  BY <1>5, <1>6

(* The bridge ends the conversation, and nothing was read or written. *)
LEMMA ReadsNothing ==
  ASSUME ChannelInv, bridge.at = "Connected", NEW ls, ls = links, NEW cs \in CallersRecord,
         EndsWith(ls, cs),
         UNCHANGED <<runtime, servers, channelCase, served>>,
         NoneTwice(cs.queue), \A c \in Calls : CallGoesOn(callers, cs, served, c)
  PROVE  ChannelInv'
<1>1. PICK l \in Links : l = bridge.link
  BY AtBridge DEF LinkedAt
<1>2. PICK x \in LinkRecord(channelCase) : x = links[l] /\ StreamsFit(x, bridge, served)
  BY HeldLinks
<1>3. ls = [links EXCEPT ![bridge.link] = x]
  BY <1>1, <1>2, BridgeFields
<1> QED  BY <1>1, <1>2, <1>3, ConversationEnds

LEMMA TakesReset ==
  ASSUME ChannelInv, TakeReset
  PROVE  ChannelInv'
<1>1. /\ callers.queue # <<>> /\ bridge.at = "Connected"
      /\ EndsWith(Interrupted, Told(Taken, {Command}, "Done"))
      /\ UNCHANGED <<runtime, servers, channelCase, served>>
  BY DEF TakeReset, HasCommand, Connected
<1>2. PICK cs : cs = Told(Taken, {Command}, "Done")
  OBVIOUS
<1>3. /\ cs \in CallersRecord /\ NoneTwice(cs.queue)
      /\ \A c \in Calls : CallGoesOn(callers, cs, served, c)
  BY <1>1, <1>2, CommandTold
<1>4. bridge.at \in LinkedAt
  BY <1>1 DEF LinkedAt
<1>5. PICK ls : ls = links
  OBVIOUS
<1>6. EndsWith(ls, cs)
  BY <1>1, <1>2, <1>4, <1>5, NothingDropped
<1> QED  BY <1>1, <1>3, <1>5, <1>6, ReadsNothing

LEMMA LosesServer ==
  ASSUME ChannelInv, LoseServer
  PROVE  ChannelInv'
<1>1. /\ bridge.at = "Connected" /\ EndsWith(links, callers) /\ UNCHANGED <<runtime, servers,
         channelCase, served>>
  BY DEF LoseServer, Connected
<1>2. PICK cs \in CallersRecord : cs = callers
  BY CallFields
<1>3. NoneTwice(cs.queue) /\ \A c \in Calls : CallGoesOn(callers, cs, served, c)
  BY <1>2, CallFields DEF CallGoesOn
<1>4. PICK ls : ls = links
  OBVIOUS
<1>5. EndsWith(ls, cs)
  BY <1>1, <1>2, <1>4
<1> QED  BY <1>1, <1>3, <1>4, <1>5, ReadsNothing

LEMMA JoinedUnits ==
  ASSUME NEW U, NEW s \in Seq(U), NEW t \in Seq(U)
  PROVE  \A k \in DOMAIN (s \o t) :
           \/ k \in DOMAIN s /\ (s \o t)[k] = s[k]
           \/ \E j \in DOMAIN t : (s \o t)[k] = t[j]
<1>1. /\ Len(s) \in Nat /\ Len(t) \in Nat /\ DOMAIN (s \o t) = 1..(Len(s) + Len(t))
      /\ DOMAIN s = 1..Len(s) /\ DOMAIN t = 1..Len(t)
  OBVIOUS
<1> SUFFICES ASSUME NEW k \in 1..(Len(s) + Len(t))
             PROVE  \/ k \in DOMAIN s /\ (s \o t)[k] = s[k]
                    \/ \E j \in DOMAIN t : (s \o t)[k] = t[j]
  BY <1>1
<1>2. CASE k <= Len(s)
  BY <1>1, <1>2
<1>3. CASE k > Len(s)
  <2>1. PICK j \in Int : j = k - Len(s)
    BY <1>1
  <2>2. j \in DOMAIN t
    BY <1>1, <1>3, <2>1
  <2>3. (s \o t)[k] = t[k - Len(s)]
    BY <1>1, <1>3
  <2> QED  BY <2>1, <2>2, <2>3
<1> QED  BY <1>1, <1>2, <1>3

(* What went out of a frame whose write timed out *)
Part(m, n) == SubSeq(Frame(m), 1, n)

LEMMA PartOfFrame ==
  ASSUME NEW M, NEW m \in M, NEW n \in Int, 0 <= n, n < FrameUnits
  PROVE  /\ Part(m, n) \in Seq([of : M, unit : Nat]) /\ InStep(Part(m, n))
         /\ \A k \in DOMAIN Part(m, n) : Part(m, n)[k].of = m
<1>0. PICK part : part = Part(m, n)
  OBVIOUS
<1>1. /\ Frame(m) \in Seq([of : M, unit : Nat]) /\ Len(Frame(m)) = FrameUnits
      /\ \A k \in 1..FrameUnits : Frame(m)[k] = [of |-> m, unit |-> k]
  BY AFrame
<1>8. PICK U : U = [of : M, unit : Nat]
  OBVIOUS
<1>2. PICK f \in Seq(U) : f = Frame(m)
  BY <1>1, <1>8
<1>3. PICK w \in Nat : w = FrameUnits /\ w = Len(f)
  BY <1>1, <1>2, FrameLength
<1>4. /\ part \in Seq(U) /\ DOMAIN part = 1..n
      /\ \A k \in 1..n : part[k] = f[k]
  <2>1. part = SubSeq(f, 1, n)
    BY <1>0, <1>2 DEF Part
  <2>2. n \in 0..Len(f)
    BY <1>3
  <2>3. /\ SubSeq(f, 1, n) \in Seq(U) /\ DOMAIN SubSeq(f, 1, n) = 1..n
        /\ \A k \in 1..n : SubSeq(f, 1, n)[k] = f[k]
    BY <1>3, <2>2
  <2> QED  BY ONLY <2>1, <2>3, Zenon
<1>5. ASSUME NEW k \in 1..n PROVE part[k].of = m /\ part[k].unit = k
  <2>1. k \in 1..FrameUnits
    BY <1>3
  <2>2. Frame(m)[k] = [of |-> m, unit |-> k]
    BY ONLY <1>1, <2>1, Zenon
  <2>3. part[k] = Frame(m)[k]
    BY ONLY <1>2, <1>4, k \in 1..n, Zenon
  <2> QED  BY <2>2, <2>3
<1>6. DOMAIN part = 1..n
  BY ONLY <1>4
<1>7. InStep(part)
  <2> SUFFICES ASSUME NEW k \in 1..n
               PROVE  part[k].unit = UnitAt(k) /\ (part[k].unit > 1 => part[k].of = part[k - 1].of)
    BY <1>6, UnitsInStep
  <2>1. k \in 1..FrameUnits /\ (k > 1 => k - 1 \in 1..n)
    BY <1>3
  <2>2. UnitAt(k) = k
    BY <2>1, UnitsOfFrames
  <2>3. part[k].unit = k /\ part[k].of = m /\ (k > 1 => part[k - 1].of = m)
    BY <1>5, <2>1
  <2> QED  BY <2>2, <2>3
<1> QED  BY <1>0, <1>4, <1>5, <1>6, <1>7, <1>8

(* What the bridge knows of the connection it writes to *)
LEMMA BridgeWrites ==
  ASSUME ChannelInv, bridge.at = "Connected", links[bridge.link].server
  PROVE  /\ Carries(links[bridge.link].up, Asks(Ordered(callers)))
         /\ WholeFrames(links[bridge.link].up)
         /\ \A i \in Supervisors : bridge.link \in LinksOf(servers[i]) =>
              /\ ~Awaits(servers[i], bridge.link) /\ ~Proves(servers[i], bridge.link)
              /\ bridge.link \in servers[i].active
              /\ ServedFits(channelCase, links[bridge.link], bridge, i, Ordered(callers))
<1>1. PICK l \in Links : l = bridge.link
  BY AtBridge DEF LinkedAt
<1>2. PICK x : x = links[l]
  OBVIOUS
<1>3. /\ x.client /\ x.server
      /\ \A i \in Supervisors : StagesFit(channelCase, servers[i], i, l, x, bridge,
         Ordered(callers))
      /\ \E i \in Supervisors : l \in LinksOf(servers[i])
  BY <1>1, <1>2, AtBridge DEF LinkedAt
<1>4. ASSUME NEW i \in Supervisors, l \in LinksOf(servers[i])
      PROVE  /\ ~Awaits(servers[i], l) /\ ~Proves(servers[i], l) /\ l \in servers[i].active
             /\ ServedFits(channelCase, x, bridge, i, Ordered(callers))
  <2>1. StagesFit(channelCase, servers[i], i, l, x, bridge, Ordered(callers))
    BY <1>3
  <2>2. ~Awaits(servers[i], l) /\ ~Proves(servers[i], l)
    BY <1>3, <2>1 DEF StagesFit, AwaitingFits, ProvingFits
  <2>3. l \in servers[i].active
    <3>1. servers[i] \in ServerRecord /\ ServerFits(servers[i])
      BY ServerFields
    <3>2. l \in servers[i].active \/ l \in InQueue(servers[i].queue) \/ l = servers[i].link
      BY <1>4, HasLink
    <3> QED  BY <2>2, <3>1, <3>2, NobodyElse DEF ServerFits, Awaits, Proves
  <2> QED  BY <2>1, <2>2, <2>3 DEF StagesFit
<1>5. Carries(x.up, Asks(Ordered(callers))) /\ WholeFrames(x.up)
  BY <1>3, <1>4 DEF ServedFits
<1> QED  BY <1>1, <1>2, <1>4, <1>5

LEMMA SendsWhole ==
  ASSUME ChannelInv, HasCommand, Refusal = "None", links[bridge.link].server,
         links' = [Interrupted EXCEPT ![bridge.link].up = @ \o Frame(Request(Command))],
         callers' = [Taken EXCEPT !.pending = @ \cup {Command}],
         UNCHANGED <<runtime, servers, bridge, channelCase, served>>
  PROVE  ChannelInv'
<1>1. bridge.at = "Connected" /\ callers.queue # <<>> /\ bridge.at \in LinkedAt
  BY DEF HasCommand, Connected, LinkedAt
<1>2. PICK l \in Links : l = bridge.link
  BY <1>1, AtBridge
<1>3. PICK x \in LinkRecord(channelCase) : x = links[l] /\ StreamsFit(x, bridge, served)
      /\ x.client /\ x.server
  BY <1>1, <1>2, AtBridge
<1>4. /\ Carries(x.up, Asks(Ordered(callers))) /\ WholeFrames(x.up)
      /\ \A i \in Supervisors : l \in LinksOf(servers[i]) =>
           /\ ~Awaits(servers[i], l) /\ ~Proves(servers[i], l)
           /\ ServedFits(channelCase, x, bridge, i, Ordered(callers))
  BY <1>1, <1>2, <1>3, BridgeWrites
<1>5. PICK c \in Calls : c = Command
  BY <1>1, TakesCommand
<1>6. PICK cs \in CallersRecord : cs = Taken
  BY <1>1, TakesCommand
<1>7. /\ cs.queue = Tail(callers.queue) /\ cs.pending = callers.pending
      /\ cs.told = callers.told /\ cs.answer = callers.answer
      /\ c \in InQueue(callers.queue) /\ c \notin Ordered(callers)
      /\ callers.told[c] \notin {"Nothing", "Busy", "Duplicate"}
      /\ InQueue(cs.queue) = InQueue(callers.queue) \ {c} /\ NoneTwice(cs.queue)
  BY <1>1, <1>5, <1>6, TakesCommand
<1>8. PICK ct : ct = [cs EXCEPT !.pending = @ \cup {c}]
  OBVIOUS
<1>9. /\ ct \in CallersRecord /\ ct.queue = cs.queue /\ ct.pending = callers.pending \cup {c}
      /\ ct.told = callers.told /\ ct.answer = callers.answer
  BY <1>7, <1>8 DEF CallersRecord
<1>10. callers' = ct
  BY <1>5, <1>6, <1>8
<1>11. PendingFits(ct, bridge', channelCase.pending)
  <2>1. /\ IsFiniteSet(callers.pending) /\ Cardinality(callers.pending) <= channelCase.pending
        /\ \A d, e \in callers.pending : RequestId[d] = RequestId[e] => d = e
        /\ channelCase.pending \in Nat
    BY CallFields DEF PendingFits
  <2>2. Cardinality(callers.pending) \in Nat
    BY <2>1, FS_CardinalityType
  <2>3. ~(Cardinality(callers.pending) >= channelCase.pending) /\ ~IsPending(RequestId[Command])
    BY DEF Refusal
  <2>4. \A d \in callers.pending : RequestId[d] # RequestId[c]
    BY <1>5, <2>3 DEF IsPending
  <2>5. /\ IsFiniteSet(callers.pending \cup {c})
        /\ Cardinality(callers.pending \cup {c}) \in {Cardinality(callers.pending),
           Cardinality(callers.pending) + 1}
    BY <2>1, FS_AddElement
  <2>6. Cardinality(callers.pending \cup {c}) <= channelCase.pending
    BY <2>1, <2>2, <2>3, <2>5
  <2>7. \A d, e \in callers.pending \cup {c} : RequestId[d] = RequestId[e] => d = e
    BY <2>1, <2>4
  <2> QED  BY <1>1, <1>9, <2>5, <2>6, <2>7 DEF PendingFits
<1>12. \A d \in Calls : CallGoesOn(callers, ct, served, d)
  BY <1>7, <1>9 DEF CallGoesOn
<1>13. CallsFitAfter /\ callers' \in CallersRecord
  BY <1>7, <1>9, <1>10, <1>11, <1>12, CallsMove
<1>14. PICK f : f = Frame(Request(c))
  OBVIOUS
<1>15. /\ f \in Seq(Units(channelCase)) /\ InStep(f) /\ WholeFrames(f)
       /\ \A k \in DOMAIN f : f[k].of = Request(c)
  <2>1. Request(c) \in ChannelMessages(channelCase)
    BY DEF ChannelMessages
  <2>2. PICK M : M = ChannelMessages(channelCase)
    OBVIOUS
  <2>3. PICK m \in M : m = Request(c)
    BY <2>1, <2>2
  <2>4. /\ f \in Seq([of : M, unit : Nat]) /\ InStep(f) /\ WholeFrames(f)
        /\ DOMAIN f = 1..FrameUnits
        /\ \A k \in 1..FrameUnits : f[k] = [of |-> m, unit |-> k]
    BY <1>14, <2>3, AFrame
  <2>5. \A k \in DOMAIN f : f[k].of = m
    BY <2>4
  <2> QED  BY <2>2, <2>3, <2>4, <2>5 DEF Units
<1>16. PICK up \in Seq(Units(channelCase)) : up = x.up
  BY DEF LinkRecord, Streams
<1>17. PICK more \in Seq(Units(channelCase)) : more = up \o f
  <2>1. up \o f \in Seq(Units(channelCase))
    BY ONLY <1>15, up \in Seq(Units(channelCase))
  <2> QED  BY ONLY <2>1, Zenon
<1>18. InStep(more) /\ WholeFrames(more)
  <2>1. InStep(up) /\ WholeFrames(up)
    BY <1>3, <1>4, <1>16 DEF StreamsFit
  <2> QED  BY <1>15, <1>17, <2>1, StreamsJoin
<1>19. Carries(more, Asks(Ordered(ct)))
  <2>1. Ordered(callers) \subseteq Ordered(ct) /\ c \in Ordered(ct)
    BY <1>7, <1>9, <1>10, <1>13 DEF CallsFitAfter, Ordered
  <2>2. \A k \in DOMAIN up : up[k].of \in Asks(Ordered(ct))
    BY <1>4, <1>16, <2>1 DEF Carries, Asks
  <2>3. \A k \in DOMAIN f : f[k].of \in Asks(Ordered(ct))
    BY <1>15, <2>1 DEF Asks
  <2>4. \A k \in DOMAIN more : \/ k \in DOMAIN up /\ more[k] = up[k]
                               \/ \E j \in DOMAIN f : more[k] = f[j]
    BY <1>15, <1>17, JoinedUnits
  <2> QED  BY ONLY <2>2, <2>3, <2>4, Zenon DEF Carries
<1>20. PICK y : y = [x EXCEPT !.up = more]
  OBVIOUS
<1>21. /\ y \in LinkRecord(channelCase) /\ y.up = more /\ y.work = x.work /\ y.client = x.client
       /\ y.server = x.server /\ y.down = x.down /\ y.gotDown = x.gotDown /\ y.writing = x.writing
       /\ y.version = x.version
  BY <1>20 DEF LinkRecord, Streams
<1>22. links' = [links EXCEPT ![l] = y]
  <2>1. links' = [links EXCEPT ![l].up = @ \o f]
    BY <1>1, <1>2, <1>5, <1>14, NothingDropped
  <2> QED  BY <1>3, <1>16, <1>17, <1>20, <2>1
<1>23. StreamsFit(y, bridge, served)
  BY <1>3, <1>18, <1>21 DEF StreamsFit
<1>24. ASSUME NEW i \in Supervisors, l \in LinksOf(servers[i])
       PROVE  StagesFit(channelCase, servers[i], i, l, y, bridge, Ordered(ct))
  <2>1. /\ ~Awaits(servers[i], l) /\ ~Proves(servers[i], l)
        /\ ServedFits(channelCase, x, bridge, i, Ordered(callers))
    BY <1>4, <1>24
  <2>2. ServedFits(channelCase, y, bridge, i, Ordered(ct))
    BY <1>3, <1>18, <1>19, <1>21, <2>1 DEF ServedFits
  <2> QED  BY <2>1, <2>2 DEF StagesFit
<1>25. /\ bridge' \in BridgeRecord(channelCase) /\ bridge'.link = l /\ bridge'.at \in LinkedAt
       /\ y.client = links[l].client /\ y.server = links[l].server /\ bridge.link = l
       /\ StreamsFit(y, bridge', served)
  BY <1>1, <1>2, <1>3, <1>21, <1>23, BridgeFields
<1>26. \A i \in Supervisors : l \in LinksOf(servers[i]) =>
         StagesFit(channelCase, servers[i], i, l, y, bridge', Ordered(callers'))
  BY <1>10, <1>24
<1> QED  BY <1>13, <1>21, <1>22, <1>25, <1>26, BridgeTakes

(* The write fails, or its time is up when a part of it was written. *)
LEMMA SendsPart ==
  ASSUME ChannelInv, HasCommand, links[bridge.link].server, NEW n \in 0..(FrameUnits - 1),
         EndsWith([Interrupted EXCEPT ![bridge.link].up = @ \o SubSeq(Frame(Request(Command)), 1,
           n)],
                  Told(Taken, {Command}, "Unavailable")),
         UNCHANGED <<runtime, servers, channelCase, served>>
  PROVE  ChannelInv'
<1>1. bridge.at = "Connected" /\ callers.queue # <<>> /\ bridge.at \in LinkedAt
  BY DEF HasCommand, Connected, LinkedAt
<1>2. PICK l \in Links : l = bridge.link
  BY <1>1, AtBridge
<1>3. PICK x \in LinkRecord(channelCase) : x = links[l] /\ StreamsFit(x, bridge, served)
      /\ x.client /\ x.server
  BY <1>1, <1>2, AtBridge
<1>4. Carries(x.up, Asks(Ordered(callers))) /\ WholeFrames(x.up)
  BY <1>1, <1>2, <1>3, BridgeWrites
<1>5. PICK c \in Calls : c = Command
  BY <1>1, TakesCommand
<1>6. PICK cs : cs = Told(Taken, {Command}, "Unavailable")
  OBVIOUS
<1>7. /\ cs \in CallersRecord /\ NoneTwice(cs.queue)
      /\ \A d \in Calls : CallGoesOn(callers, cs, served, d)
      /\ c \notin InQueue(cs.queue) /\ cs.told[c] \notin {"Nothing", "Busy", "Duplicate"}
  BY <1>1, <1>5, <1>6, CommandTold
<1>8. PICK part : part = SubSeq(Frame(Request(c)), 1, n)
  OBVIOUS
<1>9. /\ part \in Seq(Units(channelCase)) /\ InStep(part)
      /\ \A k \in DOMAIN part : part[k].of = Request(c)
  <2>1. Request(c) \in ChannelMessages(channelCase)
    BY DEF ChannelMessages
  <2>2. n \in Int /\ 0 <= n /\ n < FrameUnits
    BY FrameLength
  <2>3. PICK M : M = ChannelMessages(channelCase)
    OBVIOUS
  <2>4. PICK m \in M : m = Request(c)
    BY <2>1, <2>3
  <2>5. PICK z \in Int : z = n /\ 0 <= z /\ z < FrameUnits
    BY <2>2
  <2>6. part = Part(m, z)
    BY <1>8, <2>4, <2>5 DEF Part
  <2>7. part \in Seq([of : M, unit : Nat]) /\ InStep(part) /\ \A k \in DOMAIN part : part[k].of = m
    <3>1. /\ Part(m, z) \in Seq([of : M, unit : Nat]) /\ InStep(Part(m, z))
          /\ \A k \in DOMAIN Part(m, z) : Part(m, z)[k].of = m
      BY <2>5, PartOfFrame
    <3> QED  BY ONLY <2>6, <3>1, Zenon
  <2> QED  BY <2>3, <2>4, <2>7 DEF Units
<1>10. PICK up \in Seq(Units(channelCase)) : up = x.up
  BY DEF LinkRecord, Streams
<1>11. PICK more \in Seq(Units(channelCase)) : more = up \o part
  <2>1. up \o part \in Seq(Units(channelCase))
    BY ONLY <1>9, up \in Seq(Units(channelCase))
  <2> QED  BY ONLY <2>1, Zenon
<1>12. InStep(more)
  <2>1. InStep(up) /\ WholeFrames(up)
    BY <1>3, <1>4, <1>10 DEF StreamsFit
  <2> QED  BY <1>9, <1>11, <2>1, StreamsJoin
<1>13. \A k \in DOMAIN more : more[k].of \in Asks(Ordered(callers)) \/ more[k].of = Request(c)
  <2>1. \A k \in DOMAIN up : up[k].of \in Asks(Ordered(callers))
    BY <1>4, <1>10 DEF Carries
  <2>2. \A k \in DOMAIN more : \/ k \in DOMAIN up /\ more[k] = up[k]
                               \/ \E j \in DOMAIN part : more[k] = part[j]
    BY <1>9, <1>11, JoinedUnits
  <2> QED  BY ONLY <1>9, <2>1, <2>2, Zenon
<1>14. PICK y : y = [x EXCEPT !.up = more]
  OBVIOUS
<1>15. /\ y \in LinkRecord(channelCase) /\ y.up = more /\ y.work = x.work /\ y.client = x.client
       /\ y.server = x.server /\ y.down = x.down /\ y.gotDown = x.gotDown /\ y.writing = x.writing
       /\ y.version = x.version
  BY <1>14 DEF LinkRecord, Streams
<1>16. PICK ls : ls = [links EXCEPT ![l].up = @ \o part]
  OBVIOUS
<1>17. ls = [links EXCEPT ![bridge.link] = y]
  BY <1>2, <1>3, <1>10, <1>11, <1>14, <1>16
<1>18. EndsWith(ls, cs)
  <2>1. Interrupted = links
    BY <1>1, NothingDropped
  <2>2. [Interrupted EXCEPT ![bridge.link].up = @ \o SubSeq(Frame(Request(Command)), 1, n)] = ls
    BY ONLY <1>2, <1>5, <1>8, <1>16, <2>1
  <2> QED  BY ONLY <1>6, <2>2,
              EndsWith([Interrupted EXCEPT ![bridge.link].up = @ \o SubSeq(Frame(Request(Command)),
                1, n)],
                  Told(Taken, {Command}, "Unavailable"))
<1>19. StreamsFit(y, bridge, served)
  BY <1>3, <1>12, <1>15 DEF StreamsFit
<1>20. /\ y.server = links[bridge.link].server /\ y.version = links[bridge.link].version
       /\ y.work = links[bridge.link].work /\ y.writing = links[bridge.link].writing
       /\ \A k \in DOMAIN y.up :
            \/ y.up[k].of \in Asks(Ordered(callers))
            \/ \E d \in Calls : /\ y.up[k].of = Request(d) /\ d \notin InQueue(cs.queue)
                                /\ cs.told[d] \notin {"Nothing", "Busy", "Duplicate"}
  BY <1>2, <1>3, <1>7, <1>13, <1>15
<1> QED  BY <1>1, <1>7, <1>15, <1>17, <1>18, <1>19, <1>20, ConversationEnds

LEMMA SendsCommand ==
  ASSUME ChannelInv, SendCommand
  PROVE  ChannelInv'
<1>1. HasCommand /\ Refusal = "None" /\ UNCHANGED <<runtime, servers, channelCase, served>>
  BY DEF SendCommand
<1>2. bridge.at = "Connected" /\ callers.queue # <<>> /\ bridge.at \in LinkedAt
  BY <1>1 DEF HasCommand, Connected, LinkedAt
<1>3. CASE /\ links[bridge.link].server /\ UNCHANGED bridge
           /\ links' = [Interrupted EXCEPT ![bridge.link].up = @ \o Frame(Request(Command))]
           /\ callers' = [Taken EXCEPT !.pending = @ \cup {Command}]
  BY <1>1, <1>3, SendsWhole
<1>4. CASE EndsWith(Interrupted, Told(Taken, {Command}, "Unavailable"))
  <2>1. PICK cs : cs = Told(Taken, {Command}, "Unavailable")
    OBVIOUS
  <2>2. /\ cs \in CallersRecord /\ NoneTwice(cs.queue)
        /\ \A c \in Calls : CallGoesOn(callers, cs, served, c)
    BY <1>2, <2>1, CommandTold
  <2>3. PICK ls : ls = links
    OBVIOUS
  <2>4. EndsWith(ls, cs)
    BY <1>2, <1>4, <2>1, <2>3, NothingDropped
  <2> QED  BY <1>1, <1>2, <2>2, <2>3, <2>4, ReadsNothing
<1>5. CASE /\ links[bridge.link].server
           /\ \E n \in 0..(FrameUnits - 1) :
                EndsWith([Interrupted EXCEPT ![bridge.link].up = @ \o SubSeq(Frame(Request(Command)), 1, n)],
                         Told(Taken, {Command}, "Unavailable"))
  BY <1>1, <1>5, SendsPart
<1> QED  BY <1>3, <1>4, <1>5 DEF SendCommand

(* What the bridge has of a connection once it read a unit of an answer *)
UnitRead(x, y, b, done) ==
  /\ y \in LinkRecord(channelCase) /\ StreamsFit(y, b, done)
  /\ y.up = x.up /\ y.work = x.work /\ y.client = x.client /\ y.server = x.server
  /\ y.writing = x.writing /\ y.version = x.version

LEMMA AUnitComes ==
  ASSUME NEW x \in LinkRecord(channelCase), NEW b, NEW done, NEW got, StreamsFit(x, b, done),
         x.client,
         b.at = "Connected", x.down # <<>>, got = Append(x.gotDown, Head(x.down))
  PROVE  /\ got \in Streams(channelCase) /\ Tail(x.down) \in Streams(channelCase)
         /\ InStep((got \o Tail(x.down)) \o x.writing)
         /\ x.server => WholeFrames((got \o Tail(x.down)) \o x.writing)
         /\ Carries(got, Replies(done)) /\ Carries(Tail(x.down), Replies(done))
         /\ Len(got) <= FrameUnits /\ Len(got) \in Nat
<1>1. /\ InStep((x.gotDown \o x.down) \o x.writing)
      /\ x.server => WholeFrames((x.gotDown \o x.down) \o x.writing)
      /\ Len(x.gotDown) < FrameUnits /\ Carries(x.gotDown, Replies(done))
      /\ Carries(x.down, Replies(done))
  BY DEF StreamsFit
<1>2. PICK U : U = Units(channelCase)
  OBVIOUS
<1>3. x.gotDown \in Seq(U) /\ x.down \in Seq(U) /\ x.writing \in Seq(U)
  BY <1>2 DEF LinkRecord, Streams
<1>4. PICK s \in Seq(U) : s = <<>>
  <2>1. <<>> \in Seq(U)
    OBVIOUS
  <2> QED  BY ONLY <2>1, Zenon
<1>5. PICK t \in Seq(U) : t = x.gotDown
  BY <1>3
<1>6. PICK w \in Seq(U) : w = x.down
  BY <1>3
<1>7. OneWritten(U, s, t, w)
  BY <1>6, OneMore
<1>8. /\ Head(w) \in U /\ Tail(w) \in Seq(U) /\ Append(t, Head(w)) \in Seq(U)
      /\ (s \o Append(t, Head(w))) \o Tail(w) = (s \o t) \o w
      /\ \E k \in DOMAIN w : Head(w) = w[k]
      /\ \A k \in DOMAIN Tail(w) : k + 1 \in DOMAIN w /\ Tail(w)[k] = w[k + 1]
  BY ONLY <1>7, Zenon DEF OneWritten
<1>9. got = Append(t, Head(w)) /\ got \in Seq(U)
  BY ONLY <1>5, <1>6, <1>8, got = Append(x.gotDown, Head(x.down)), Zenon
<1>10. s \o Append(t, Head(w)) = Append(t, Head(w)) /\ s \o t = t
  <2>1. PICK g \in Seq(U) : g = Append(t, Head(w))
    BY ONLY <1>8, Zenon
  <2>2. <<>> \o g = g /\ <<>> \o t = t
    OBVIOUS
  <2> QED  BY ONLY <1>4, <2>1, <2>2, Zenon
<1>11. got \o Tail(x.down) = x.gotDown \o x.down
  BY ONLY <1>5, <1>6, <1>8, <1>9, <1>10, Zenon
<1>12. /\ InStep((got \o Tail(x.down)) \o x.writing)
       /\ x.server => WholeFrames((got \o Tail(x.down)) \o x.writing)
  BY ONLY <1>1, <1>11, Zenon
<1>13. Carries(Tail(x.down), Replies(done))
  BY ONLY <1>1, <1>6, <1>8, Zenon DEF Carries
<1>14. PICK h \in U : h = Head(w) /\ h.of \in Replies(done)
  BY ONLY <1>1, <1>6, <1>8, Zenon DEF Carries
<1>15. PICK n \in Nat : n = Len(t)
  OBVIOUS
<1>16. /\ Len(Append(t, h)) = n + 1 /\ DOMAIN Append(t, h) = 1..(n + 1) /\ Append(t, h)[n + 1] = h
       /\ DOMAIN t = 1..n /\ \A k \in 1..n : Append(t, h)[k] = t[k]
  BY <1>15
<1>17. \A k \in 1..(n + 1) : k \in 1..n \/ k = n + 1
  OBVIOUS
<1>18. Carries(t, Replies(done))
  BY <1>1, <1>5
<1>19. Carries(got, Replies(done))
  <2>1. got = Append(t, h)
    BY <1>9, <1>14
  <2>2. \A k \in 1..(n + 1) : Append(t, h)[k].of \in Replies(done)
    BY ONLY <1>14, <1>16, <1>17, <1>18, Zenon DEF Carries
  <2> QED  BY ONLY <1>16, <2>1, <2>2, Zenon DEF Carries
<1>20. Len(got) <= FrameUnits /\ Len(got) \in Nat
  <2>1. Len(got) = n + 1
    BY <1>9, <1>14, <1>16
  <2>2. n < FrameUnits
    BY <1>1, <1>5, <1>15
  <2> QED  BY <2>1, <2>2, FrameLength
<1> QED  BY <1>2, <1>6, <1>8, <1>9, <1>12, <1>13, <1>19, <1>20 DEF Streams

(* A frame that is not complete is kept. *)
LEMMA PartRead ==
  ASSUME NEW x \in LinkRecord(channelCase), NEW b, NEW done, NEW got, NEW y, StreamsFit(x, b, done),
         x.client,
         b.at = "Connected", x.down # <<>>, got = Append(x.gotDown, Head(x.down)),
           Len(got) < FrameUnits,
         y = [x EXCEPT !.down = Tail(@), !.gotDown = got]
  PROVE  UnitRead(x, y, b, done)
<1>1. /\ got \in Streams(channelCase) /\ Tail(x.down) \in Streams(channelCase)
      /\ InStep((got \o Tail(x.down)) \o x.writing)
      /\ x.server => WholeFrames((got \o Tail(x.down)) \o x.writing)
      /\ Carries(got, Replies(done)) /\ Carries(Tail(x.down), Replies(done))
  BY AUnitComes
<1>2. /\ y \in LinkRecord(channelCase) /\ y.up = x.up /\ y.work = x.work /\ y.client = x.client
      /\ y.server = x.server /\ y.down = Tail(x.down) /\ y.gotDown = got /\ y.writing = x.writing
      /\ y.version = x.version
  BY <1>1 DEF LinkRecord
<1>3. /\ InStep((y.gotDown \o y.down) \o y.writing)
      /\ y.server => WholeFrames((y.gotDown \o y.down) \o y.writing)
  BY ONLY <1>1, <1>2, Zenon
<1>4. /\ ~y.server => y.up = <<>> /\ y.writing = <<>> /\ y.work = {}
      /\ InStep(y.up) /\ Carries(y.writing, Replies(done)) /\ y.work \subseteq done
  BY <1>2 DEF StreamsFit
<1>5. /\ Len(y.gotDown) < FrameUnits /\ y.client
      /\ Carries(y.gotDown, Replies(done)) /\ Carries(y.down, Replies(done))
  BY <1>1, <1>2
<1>6. b.at # "Challenge" /\ b.at # "Acceptance"
  OBVIOUS
<1>7. StreamsFit(y, b, done)
  BY ONLY <1>3, <1>4, <1>5, <1>6, Zenon DEF StreamsFit
<1> QED  BY <1>2, <1>7 DEF UnitRead

(* One that is complete is an answer of the Supervisor, and what follows *)
(* begins with another frame.                                            *)
LEMMA AllRead ==
  ASSUME NEW x \in LinkRecord(channelCase), NEW b, NEW done, NEW got, NEW y, StreamsFit(x, b, done),
         x.client,
         b.at = "Connected", x.down # <<>>, got = Append(x.gotDown, Head(x.down)),
           ~(Len(got) < FrameUnits),
         y = [x EXCEPT !.down = Tail(@), !.gotDown = <<>>]
  PROVE  UnitRead(x, y, b, done) /\ Message(got) \in Replies(done)
<1>1. /\ got \in Streams(channelCase) /\ Tail(x.down) \in Streams(channelCase)
      /\ InStep((got \o Tail(x.down)) \o x.writing)
      /\ x.server => WholeFrames((got \o Tail(x.down)) \o x.writing)
      /\ Carries(got, Replies(done)) /\ Carries(Tail(x.down), Replies(done))
      /\ Len(got) <= FrameUnits /\ Len(got) \in Nat
  BY AUnitComes
<1>2. PICK U : U = Units(channelCase)
  OBVIOUS
<1>3. <<>> \in Streams(channelCase)
  BY DEF Streams
<1>4. /\ y \in LinkRecord(channelCase) /\ y.up = x.up /\ y.work = x.work /\ y.client = x.client
      /\ y.server = x.server /\ y.down = Tail(x.down) /\ y.gotDown = <<>> /\ y.writing = x.writing
      /\ y.version = x.version
  BY <1>1, <1>3 DEF LinkRecord
<1>5. x.writing \in Streams(channelCase)
  BY DEF LinkRecord
<1>6. PICK g \in Seq(U) : g = got
  BY <1>1, <1>2 DEF Streams
<1>7. PICK t \in Seq(U) : t = Tail(x.down)
  BY <1>1, <1>2 DEF Streams
<1>8. PICK w \in Seq(U) : w = x.writing
  BY <1>2, <1>5 DEF Streams
<1>9. Len(g) = FrameUnits
  BY <1>1, <1>6, FrameLength
<1>10. Rest(g) = <<>>
  <2>1. Arrived(g)
    BY <1>9, FrameLength DEF Arrived
  <2>2. Rest(g) \in Seq(U) /\ Len(Rest(g)) = Len(g) - FrameUnits
    BY <2>1, StreamsGoOn
  <2>3. Len(Rest(g)) = 0
    BY <1>9, <2>2, FrameLength
  <2> QED  BY ONLY <2>2, <2>3
<1>11. PICK gt \in Seq(U) : gt = g \o t
  <2>1. g \o t \in Seq(U)
    OBVIOUS
  <2> QED  BY ONLY <2>1, Zenon
<1>12. Rest(gt) = t
  <2>1. Arrived(g)
    BY <1>9, FrameLength DEF Arrived
  <2>2. Rest(g \o t) = Rest(g) \o t
    BY <2>1, RestOfJoined
  <2>3. <<>> \o t = t
    OBVIOUS
  <2> QED  BY ONLY <1>10, <1>11, <2>2, <2>3, Zenon
<1>13. Arrived(gt)
  BY <1>9, <1>11, FrameLength DEF Arrived
<1>14. Rest(gt \o w) = t \o w
  <2>1. Rest(gt \o w) = Rest(gt) \o w
    BY <1>13, RestOfJoined
  <2> QED  BY ONLY <1>12, <2>1, Zenon
<1>15. PICK gtw \in Seq(U) : gtw = gt \o w
  <2>1. gt \o w \in Seq(U)
    OBVIOUS
  <2> QED  BY ONLY <2>1, Zenon
<1>16. InStep(gtw) /\ (x.server => WholeFrames(gtw))
  BY ONLY <1>1, <1>6, <1>7, <1>8, <1>11, <1>15, Zenon
<1>17. Arrived(gtw)
  BY <1>13, <1>15, FrameLength DEF Arrived
<1>18. InStep(Rest(gtw)) /\ (WholeFrames(gtw) <=> WholeFrames(Rest(gtw)))
  BY <1>16, <1>17, StreamsGoOn
<1>19. <<>> \o t = t
  OBVIOUS
<1>20. /\ InStep((y.gotDown \o y.down) \o y.writing)
       /\ y.server => WholeFrames((y.gotDown \o y.down) \o y.writing)
  BY ONLY <1>4, <1>7, <1>8, <1>14, <1>15, <1>16, <1>18, <1>19, Zenon
<1>21. /\ ~y.server => y.up = <<>> /\ y.writing = <<>> /\ y.work = {}
       /\ InStep(y.up) /\ Carries(y.writing, Replies(done)) /\ y.work \subseteq done
  BY <1>4 DEF StreamsFit
<1>22. /\ Len(y.gotDown) < FrameUnits /\ y.client
       /\ Carries(y.gotDown, Replies(done)) /\ Carries(y.down, Replies(done))
  BY <1>1, <1>4, FrameLength DEF Carries
<1>23. b.at # "Challenge" /\ b.at # "Acceptance"
  OBVIOUS
<1>24. StreamsFit(y, b, done)
  BY ONLY <1>20, <1>21, <1>22, <1>23, Zenon DEF StreamsFit
<1>25. Message(got) \in Replies(done)
  <2>1. 1 \in DOMAIN g
    BY <1>9, FrameLength
  <2> QED  BY <1>1, <1>6, <2>1 DEF Carries, Message
<1> QED  BY <1>4, <1>24, <1>25 DEF UnitRead

LEMMA ConversationGoesOn ==
  ASSUME ChannelInv, bridge.at = "Connected", NEW l \in Links, l = bridge.link, NEW y,
         UnitRead(links[l], y, bridge, served), links' = [links EXCEPT ![l] = y],
         UNCHANGED <<runtime, servers, bridge, channelCase, served>>,
         CallsFitAfter, callers' \in CallersRecord
  PROVE  ChannelInv'
<1>1. PICK x : x = links[l]
  OBVIOUS
<1>2. /\ y \in LinkRecord(channelCase) /\ StreamsFit(y, bridge, served)
      /\ y.up = x.up /\ y.work = x.work /\ y.client = x.client /\ y.server = x.server
      /\ y.writing = x.writing /\ y.version = x.version
  BY <1>1 DEF UnitRead
<1>3. bridge.at \in LinkedAt /\ x.client
  BY <1>1, AtBridge DEF LinkedAt
<1>4. ASSUME NEW i \in Supervisors, l \in LinksOf(servers[i])
      PROVE  StagesFit(channelCase, servers[i], i, l, y, bridge, Ordered(callers'))
  <2>1. x.server
    BY <1>1, <1>4, HeldLinks
  <2>2. /\ ~Awaits(servers[i], l) /\ ~Proves(servers[i], l)
        /\ ServedFits(channelCase, x, bridge, i, Ordered(callers))
    BY <1>1, <1>4, <2>1, BridgeWrites
  <2>3. Carries(x.up, Asks(Ordered(callers')))
    BY <2>2 DEF CallsFitAfter, ServedFits, Carries, Asks
  <2>4. ServedFits(channelCase, y, bridge, i, Ordered(callers'))
    BY <1>2, <2>2, <2>3 DEF ServedFits
  <2> QED  BY <2>2, <2>4 DEF StagesFit
<1>5. /\ bridge' \in BridgeRecord(channelCase) /\ bridge'.link = l /\ bridge'.at \in LinkedAt
      /\ y.client = links[l].client /\ y.server = links[l].server /\ bridge.link = l
      /\ StreamsFit(y, bridge', served)
  BY <1>1, <1>2, <1>3, BridgeFields
<1>6. \A i \in Supervisors : l \in LinksOf(servers[i]) =>
        StagesFit(channelCase, servers[i], i, l, y, bridge', Ordered(callers'))
  BY <1>4
<1> QED  BY <1>2, <1>5, <1>6, BridgeTakes

(* An answer arrives: for nobody, for the call that asked, or for one of *)
(* another operation, which breaks the protocol.                         *)
LEMMA Handles ==
  ASSUME ChannelInv, bridge.at = "Connected", NEW l \in Links, l = bridge.link, NEW y,
         UnitRead(links[l], y, bridge, served), NEW ls, ls = [links EXCEPT ![l] = y],
         NEW m \in Replies(served), Handle(m, ls),
         UNCHANGED <<runtime, servers, channelCase, served>>
  PROVE  ChannelInv'
<1>1. CASE links' = ls /\ bridge' = bridge /\ callers' = callers
  BY <1>1, CallsStay, ConversationGoesOn DEF callVars
<1>2. CASE ~(m.kind = "Event" \/ ~IsPending(RequestId[m.call]))
  <2>1. PICK d \in served : m = Response(d)
    BY <1>2 DEF Replies, Event
  <2>2. m.call = d
    BY <2>1 DEF Response
  <2>3. PICK p : p = (CHOOSE c \in callers.pending : RequestId[c] = RequestId[m.call])
    OBVIOUS
  <2>4. p \in callers.pending /\ RequestId[p] = RequestId[d] /\ p \in Calls
    BY <1>2, <2>2, <2>3, CallFields DEF IsPending
  <2>5. PICK cs : cs = [callers EXCEPT !.pending = @ \ {p}]
    OBVIOUS
  <2>6. /\ cs \in CallersRecord /\ cs.queue = callers.queue /\ cs.told = callers.told
        /\ cs.answer = callers.answer /\ cs.pending = callers.pending \ {p} /\ NoneTwice(cs.queue)
    BY <2>5, CallFields DEF CallersRecord
  <2>7. d \in Calls
    BY CallFields
  <2>8. ASSUME NEW ct \in CallersRecord, ct.pending = callers.pending \ {p},
               ct.queue = callers.queue, callers' = ct,
               \A c \in Calls : CallGoesOn(callers, ct, served, c), links' = ls, bridge' = bridge
        PROVE  ChannelInv'
    <3>1. PendingFits(ct, bridge', channelCase.pending)
      BY <2>8, FewerPending DEF PendingFits
    <3>2. CallsFitAfter /\ callers' \in CallersRecord
      BY <2>6, <2>8, <3>1, CallsMove
    <3> QED  BY <2>8, <3>2, ConversationGoesOn
  <2>9. CASE Agrees(m.call, p) /\ callers.told[p] = "Asked"
    <3>1. PICK cu : cu = Told(cs, {p}, "Answered")
      OBVIOUS
    <3>2. /\ cu \in CallersRecord /\ cu.queue = cs.queue /\ cu.pending = cs.pending
          /\ cu.answer = cs.answer
          /\ \A c \in Calls : cu.told[c] = IF c \in {p}
             /\ cs.told[c] = "Asked" THEN "Answered" ELSE cs.told[c]
      BY <2>6, <3>1, Tells DEF ToldWords
    <3>3. PICK ct : ct = [cu EXCEPT !.answer[p] = d]
      OBVIOUS
    <3>4. /\ ct \in CallersRecord /\ ct.queue = callers.queue /\ ct.pending = callers.pending \ {p}
          /\ ct.told = cu.told /\ ct.answer = [callers.answer EXCEPT ![p] = d]
      BY <2>4, <2>6, <2>7, <3>2, <3>3 DEF CallersRecord
    <3>5. ct.answer[p] = d /\ \A c \in Calls : c # p => ct.answer[c] = callers.answer[c]
      BY <2>4, <3>4, CallFields
    <3>6. RequestId[d] = RequestId[p] /\ OperationId[d] = OperationId[p]
      BY <2>2, <2>4, <2>9 DEF Agrees
    <3>7. ASSUME NEW c \in Calls PROVE CallGoesOn(callers, ct, served, c)
      <4>1. CASE c = p
        BY <2>6, <2>9, <3>2, <3>4, <3>5, <3>6, <4>1 DEF CallGoesOn
      <4>2. CASE c # p
        BY <2>6, <3>2, <3>4, <3>5, <4>2 DEF CallGoesOn
      <4> QED  BY <4>1, <4>2
    <3>8. links' = ls /\ bridge' = bridge /\ callers' = ct
      BY <1>2, <2>2, <2>3, <2>5, <2>9, <3>1, <3>3 DEF Handle
    <3> QED  BY <2>8, <3>4, <3>7, <3>8
  <2>10. CASE Agrees(m.call, p) /\ callers.told[p] # "Asked"
    <3>1. links' = ls /\ bridge' = bridge /\ callers' = cs
      BY <1>2, <2>3, <2>5, <2>10 DEF Handle
    <3>2. \A c \in Calls : CallGoesOn(callers, cs, served, c)
      BY <2>6 DEF CallGoesOn
    <3> QED  BY <2>6, <2>8, <3>1, <3>2
  <2>11. CASE ~Agrees(m.call, p)
    <3>1. PICK ct : ct = Told(cs, {p}, "Violation")
      OBVIOUS
    <3>2. /\ ct \in CallersRecord /\ ct.queue = cs.queue /\ ct.pending = cs.pending
          /\ ct.answer = cs.answer
          /\ \A c \in Calls : ct.told[c] = IF c \in {p}
             /\ cs.told[c] = "Asked" THEN "Violation" ELSE cs.told[c]
      BY <2>6, <3>1, Tells DEF ToldWords
    <3>3. \A c \in Calls : CallGoesOn(callers, ct, served, c)
      BY <2>6, <3>2 DEF CallGoesOn
    <3>4. EndsWith(ls, ct)
      BY <1>2, <2>3, <2>5, <2>11, <3>1 DEF Handle
    <3>5. /\ y \in LinkRecord(channelCase) /\ StreamsFit(y, bridge, served) /\ NoneTwice(ct.queue)
          /\ y.up = links[bridge.link].up /\ y.work = links[bridge.link].work
          /\ y.server = links[bridge.link].server
          /\ y.writing = links[bridge.link].writing /\ y.version = links[bridge.link].version
      BY <2>6, <3>2 DEF UnitRead
    <3>6. ls = [links EXCEPT ![bridge.link] = y]
      OBVIOUS
    <3> QED  BY <3>2, <3>3, <3>4, <3>5, <3>6, ConversationEnds
  <2> QED  BY <2>9, <2>10, <2>11
<1> QED  BY <1>1, <1>2 DEF Handle

LEMMA ReadsUnit ==
  ASSUME ChannelInv, ReadUnit
  PROVE  ChannelInv'
<1>1. bridge.at = "Connected" /\ UNCHANGED <<runtime, servers, channelCase, served>>
  BY DEF ReadUnit, Connected
<1>2. PICK l \in Links : l = bridge.link
  BY <1>1, AtBridge DEF LinkedAt
<1>3. PICK x \in LinkRecord(channelCase) : x = links[l] /\ StreamsFit(x, bridge, served)
      /\ x.client /\ x.down # <<>>
  BY <1>1, <1>2, AtBridge DEF LinkedAt, ReadUnit
<1>4. PICK got : got = Append(x.gotDown, Head(x.down))
  OBVIOUS
<1>5. CASE Len(got) < FrameUnits
  <2>1. PICK y : y = [x EXCEPT !.down = Tail(@), !.gotDown = got]
    OBVIOUS
  <2>2. UnitRead(x, y, bridge, served)
    BY <1>1, <1>3, <1>4, <1>5, <2>1, PartRead
  <2>3. links' = [links EXCEPT ![l].down = Tail(@), ![l].gotDown = got] /\ bridge' = bridge
        /\ callers' = callers
    BY <1>2, <1>3, <1>4, <1>5 DEF ReadUnit
  <2>4. links' = [links EXCEPT ![l] = y]
    BY <1>3, <2>1, <2>3, BridgeFields
  <2>5. CallsFitAfter /\ callers' \in CallersRecord
    BY <1>1, <2>3, CallsStay DEF callVars
  <2> QED  BY <1>1, <1>2, <1>3, <2>2, <2>3, <2>4, <2>5, ConversationGoesOn
<1>6. CASE ~(Len(got) < FrameUnits)
  <2>1. PICK y : y = [x EXCEPT !.down = Tail(@), !.gotDown = <<>>]
    OBVIOUS
  <2>2. UnitRead(x, y, bridge, served) /\ Message(got) \in Replies(served)
    BY <1>1, <1>3, <1>4, <1>6, <2>1, AllRead
  <2>3. PICK ls : ls = [[links EXCEPT ![l].down = Tail(@),
        ![l].gotDown = got] EXCEPT ![l].gotDown = <<>>]
    OBVIOUS
  <2>4. ls = [links EXCEPT ![l] = y]
    BY <1>3, <2>1, <2>3, BridgeFields
  <2>5. PICK m \in Replies(served) : m = Message(got)
    BY <2>2
  <2>6. Handle(m, ls)
    BY <1>2, <1>3, <1>4, <1>6, <2>3, <2>5 DEF ReadUnit
  <2> QED  BY <1>1, <1>2, <1>3, <2>2, <2>4, <2>6, Handles
<1> QED  BY <1>5, <1>6

------------------------------------------------------------
(* The channel *)

LEMMA ChannelBegins ==
  ChannelInit => ChannelInv
<1> SUFFICES ASSUME ChannelInit PROVE ChannelInv
  OBVIOUS
<1>1. /\ channelCase \in ChannelCases
      /\ runtime = [lock |-> Nobody, token |-> Nobody, temporary |-> Nobody, endpoint |-> Nobody]
      /\ servers = [i \in Supervisors |-> [at |-> "Off", queue |-> <<>>, link |-> Nobody,
         active |-> {}]]
      /\ links = [l \in Links |-> Free]
      /\ bridge = [at |-> "Token", token |-> Nobody, link |-> Nobody, version |-> 0]
      /\ callers = [queue |-> <<>>, pending |-> {}, told |-> [c \in Calls |-> "Nothing"],
                    answer |-> [c \in Calls |-> Nobody]]
      /\ served = {}
  BY DEF ChannelInit, LinkInit, CallsInit
<1>2. PICK s : s = [at |-> "Off", queue |-> <<>>, link |-> Nobody, active |-> {}]
  OBVIOUS
<1>3. /\ s \in ServerRecord /\ s.at = "Off" /\ s.queue = <<>> /\ s.link = Nobody /\ s.active = {}
      /\ \A i \in Supervisors : servers[i] = s
      /\ servers \in [Supervisors -> ServerRecord]
  BY <1>1, <1>2 DEF ServerRecord
<1>4. LinksOf(s) = {} /\ ServerFits(s)
  BY <1>3, NobodyElse DEF InQueue, NoneTwice, LinksOf, ServerFits, ServingAt
<1>5. \A l \in Links : links[l] = Free
  BY <1>1
<1>6. /\ bridge.at = "Token" /\ bridge.link = Nobody /\ bridge \in BridgeRecord(channelCase)
  BY <1>1 DEF BridgeRecord, ChannelVersions
<1>7. /\ callers.queue = <<>> /\ callers.pending = {} /\ callers.told = [c \in Calls |-> "Nothing"]
      /\ callers \in CallersRecord
  BY <1>1 DEF CallersRecord
<1>8. ChannelTypes
  <2>1. links \in [Links -> LinkRecord(channelCase)]
    BY <1>1, FreeLinks
  <2>2. runtime \in RuntimeRecord
    BY <1>1 DEF RuntimeRecord
  <2> QED  BY <1>1, <1>3, <1>6, <1>7, <2>1, <2>2 DEF ChannelTypes
<1>9. RuntimesFit
  BY <1>3 DEF RuntimesFit, RuntimeFits, LockedAt, TokenAt, ServingAt
<1>10. ServersFit
  BY <1>3, <1>4 DEF ServersFit
<1>11. EndsFit
  <2>1. \A l \in Links : ~links[l].client /\ ~links[l].server
    BY <1>5, FreeLinks
  <2>2. bridge.at \notin LinkedAt
    BY <1>6 DEF LinkedAt
  <2> QED  BY <1>3, <1>4, <1>6, <2>1, <2>2, NobodyElse DEF EndsFit
<1>12. \A l \in Links : StreamsFit(links[l], bridge, served)
  BY <1>5, FreeLinks
<1>13. ASSUME NEW i \in Supervisors, NEW l \in Links
       PROVE  StagesFit(channelCase, servers[i], i, l, links[l], bridge, Ordered(callers))
  BY <1>3, <1>4, HasLink DEF StagesFit
<1>14. CallsFit(callers, served, bridge, channelCase.pending)
  <2>1. channelCase.pending \in Nat
    BY <1>1, CallCasesAreInputs
  <2>2. PendingFits(callers, bridge, channelCase.pending)
    <3>1. PICK cs : cs = callers
      OBVIOUS
    <3>2. PICK n \in Nat : n = channelCase.pending
      BY <2>1
    <3>3. PICK b : b = bridge
      OBVIOUS
    <3>4. PendingFits(cs, b, n)
      BY <1>7, <3>1, NobodyPends
    <3> QED  BY <3>1, <3>2, <3>3, <3>4
  <2>3. KeptFits(callers, served)
    BY <1>1, <1>7 DEF NoneTwice, KeptFits
  <2> QED  BY <2>2, <2>3, CallParts
<1> QED  BY <1>8, <1>9, <1>10, <1>11, <1>12, <1>13, <1>14 DEF ChannelInv

LEMMA ChannelSteps ==
  ChannelInv /\ [ChannelNext]_channelVars => ChannelInv'
<1> SUFFICES ASSUME ChannelInv, [ChannelNext]_channelVars PROVE ChannelInv'
  OBVIOUS
<1>1. CASE UNCHANGED channelVars
  BY <1>1, CallsStay, OnlyCalls DEF channelVars, linkVars, callVars
<1>2. ASSUME NEW i \in Supervisors, Supervises(i) PROVE ChannelInv'
  BY <1>2, Supervising
<1>3. ASSUME NEW i \in Supervisors, Misfortune(i), UNCHANGED callVars PROVE ChannelInv'
  BY <1>3, Misfortunes
<1>4. CASE BridgeRuns
  <2>1. CASE BridgeStep /\ UNCHANGED callVars
    BY <2>1, BridgeSteps
  <2>2. CASE ReadUnit
    BY <2>2, ReadsUnit
  <2>3. CASE LoseServer
    BY <2>3, LosesServer
  <2>4. CASE Expire
    BY <2>4, Expires
  <2> QED  BY <1>4, <2>1, <2>2, <2>3, <2>4 DEF BridgeRuns, ReadStep
<1>5. CASE CommandStep
  <2>1. CASE FailCommand
    BY <2>1, FailsCommand
  <2>2. CASE TakeReset
    BY <2>2, TakesReset
  <2>3. CASE RefuseCommand
    BY <2>3, RefusesCommand
  <2>4. CASE SendCommand
    BY <2>4, SendsCommand
  <2> QED  BY <1>5, <2>1, <2>2, <2>3, <2>4 DEF CommandStep
<1>6. CASE CallStep
  BY <1>6, Asking, GivesUpWaiting DEF CallStep
<1>7. CASE Quit
  BY <1>7, Quits
<1>8. CASE Rests
  BY <1>1, <1>8 DEF Rests
<1> QED  BY <1>1, <1>2, <1>3, <1>4, <1>5, <1>6, <1>7, <1>8 DEF ChannelNext

LEMMA ChannelIsGenuine ==
  ChannelInv => ConversationsAreGenuine
<1> SUFFICES ASSUME ChannelInv PROVE ConversationsAreGenuine
  OBVIOUS
<1>1. ServersAreFound
  BY DEF ChannelInv, RuntimesFit, RuntimeFits, LockedAt, TokenAt, ServingAt, Serving,
     ServersAreFound
<1>2. SessionsAreMutual
  <2> SUFFICES ASSUME bridge.at = "Connected", NEW i \in Supervisors,
                      bridge.link \in LinksOf(servers[i])
               PROVE  /\ bridge.link \in servers[i].active
                      /\ bridge.token = i
                      /\ bridge.version = links[bridge.link].version
                      /\ bridge.version = Negotiated(channelCase.offers, channelCase.versions[i])
    BY DEF SessionsAreMutual
  <2>1. bridge.link \in Links /\ links[bridge.link].client
    BY AtBridge DEF LinkedAt
  <2>2. links[bridge.link].server
    BY <2>1, HeldLinks
  <2>3. bridge.link \in servers[i].active
        /\ ServedFits(channelCase, links[bridge.link], bridge, i, Ordered(callers))
    BY <2>2, BridgeWrites
  <2> QED  BY <2>1, <2>3 DEF ServedFits, Spoken
<1>3. StreamsAreInStep
  <2> SUFFICES ASSUME NEW l \in Links
               PROVE  InStep(links[l].gotDown \o links[l].down) /\ InStep(links[l].up)
    BY DEF StreamsAreInStep
  <2>1. PICK x \in LinkRecord(channelCase) : x = links[l] /\ StreamsFit(x, bridge, served)
    BY HeldLinks
  <2>2. InStep(x.up)
    BY <2>1 DEF StreamsFit
  <2>3. CASE x.client
    <3>1. InStep((x.gotDown \o x.down) \o x.writing)
      BY <2>1, <2>3 DEF StreamsFit
    <3>2. x.gotDown \o x.down \in Seq(Units(channelCase)) /\ x.writing \in Seq(Units(channelCase))
      BY DEF LinkRecord, Streams
    <3> QED  BY <2>1, <2>2, <3>1, <3>2, StreamsBegin
  <2>4. CASE ~x.client
    <3>1. x.gotDown = <<>> /\ x.down = <<>>
      BY <2>1, <2>4 DEF StreamsFit
    <3>2. <<>> \o <<>> = <<>>
      OBVIOUS
    <3>3. InStep(x.gotDown \o x.down)
      BY ONLY <3>1, <3>2, NothingIsInStep, Zenon
    <3> QED  BY <2>1, <2>2, <3>3
  <2> QED  BY <2>3, <2>4
<1>4. AnswersAreTheirs
  BY CallFields DEF KeptFits, Ordered, AnswersAreTheirs
<1>5. RequestsArePending
  BY CallFields DEF PendingFits, RequestsArePending, Connected
<1> QED  BY <1>1, <1>2, <1>3, <1>4, <1>5 DEF ConversationsAreGenuine

(* Conversations stay genuine, with any number of Supervisors, connections *)
(* and calls, for frames of any length, and whatever stops, crashes, fails *)
(* or is late: whoever serves is found by its token and its endpoint, both *)
(* ends of a session know the token and speak the highest version that is  *)
(* common to them, no stream loses its step, an answer is that of the      *)
(* call's own request and operation, and nothing is pending on a           *)
(* connection that is gone.                                                *)
THEOREM ConversationsStayGenuine ==
  ChannelInit /\ [][ChannelNext]_channelVars => []ConversationsAreGenuine
<1>1. ChannelInit => ChannelInv
  BY ChannelBegins
<1>2. ChannelInv /\ [ChannelNext]_channelVars => ChannelInv'
  BY ChannelSteps
<1>3. ChannelInv => ConversationsAreGenuine
  BY ChannelIsGenuine
<1> QED  BY <1>1, <1>2, <1>3, PTL

=============================================================================
