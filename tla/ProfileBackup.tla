---------------------------- MODULE ProfileBackup ----------------------------
(***************************************************************************)
(* security/profile-backup.ts: encrypted backups of a profile directory    *)
(* and the restore that swaps a verified copy in.  The file system         *)
(* survives a crash; the queue of restores and every running call do not.  *)
(* A directory is the function from its files to their contents, so a      *)
(* directory half written or half removed has a smaller domain.            *)
(***************************************************************************)
EXTENDS Naturals, FiniteSets, Sequences, Functions

CONSTANTS
    Restores,        \* the restore calls
    BackupFiles,     \* the files of a profile, numbered in the order they are sorted
    MaxBackupCrashes,
    MaxArchivings    \* backups and key changes

ASSUME FilesNumbered == IsFiniteSet(BackupFiles) /\ BackupFiles = 1 .. Cardinality(BackupFiles)

\* No such directory: no file has the number 0.
Absent == [f \in {0} |-> "absent"]
VaultKeys == {"key1", "key2"}

VARIABLES
    disk,       \* the profile directory, its .restore-previous and .restore-staging
    archive,    \* the backup file: the key it is encrypted with and its manifest
    restore,    \* phase and manifest of each restore call
    restoreQueue, \* runRestoreExclusive: the chain of restores of this directory
    scan,       \* the backup in progress: the files read so far
    backupCrashes,
    archivings

backupVars == <<disk, archive, restore, restoreQueue, scan, backupCrashes, archivings>>

Complete(dir) == dir # Absent /\ DOMAIN dir = BackupFiles

NewRestore == [phase |-> "idle", manifest |-> Absent]

BackupInit ==
    /\ disk = [dest |-> [f \in BackupFiles |-> "old"], previous |-> Absent, staging |-> Absent]
    /\ archive = [key |-> "key1", files |-> [f \in BackupFiles |-> "new"]]
    /\ restore = [r \in Restores |-> NewRestore]
    /\ restoreQueue = << >>
    /\ scan = Absent
    /\ backupCrashes = 0 /\ archivings = 0

-----------------------------------------------------------------------------
(* backup, rekey: a manifest is complete in memory before it is written,   *)
(* and written beside the old one before it replaces it.                   *)

StartBackup ==
    /\ scan = Absent /\ archivings < MaxArchivings
    /\ disk.dest # Absent
    /\ scan' = << >> /\ archivings' = archivings + 1
    /\ UNCHANGED <<disk, archive, restore, restoreQueue, backupCrashes>>

\* scanDirectory: the next file is read by its path, from whatever directory has the
\* name by then; a missing file, or a budget that is used up, ends the backup.
ScanFile ==
    /\ scan # Absent /\ Len(scan) < Cardinality(BackupFiles)
    /\ LET f == Len(scan) + 1
       IN scan' \in {Absent} \union
             (IF disk.dest = Absent THEN {}
              ELSE IF f \in DOMAIN disk.dest THEN {Append(scan, disk.dest[f])} ELSE {})
    /\ UNCHANGED <<disk, archive, restore, restoreQueue, backupCrashes, archivings>>

WriteArchive ==
    /\ scan # Absent /\ Len(scan) = Cardinality(BackupFiles)
    /\ archive' = [key |-> "key1", files |-> [f \in BackupFiles |-> scan[f]]]
    /\ scan' = Absent
    /\ UNCHANGED <<disk, restore, restoreQueue, backupCrashes, archivings>>

Rekey(new) ==
    /\ archivings < MaxArchivings /\ archive.key # new
    /\ archive' = [archive EXCEPT !.key = new]
    /\ archivings' = archivings + 1
    /\ UNCHANGED <<disk, restore, restoreQueue, scan, backupCrashes>>

-----------------------------------------------------------------------------
(* restore                                                                 *)

Becomes(r, phase) == restore' = [restore EXCEPT ![r].phase = phase]

\* Every exit of the operation releases its place in the queue.
RestoreEnds(r, phase) == Becomes(r, phase) /\ restoreQueue' = Tail(restoreQueue)

CallRestore(r) ==
    /\ restore[r].phase = "idle"
    /\ Becomes(r, "queued")
    /\ restoreQueue' = Append(restoreQueue, r)
    /\ UNCHANGED <<disk, archive, scan, backupCrashes, archivings>>

Turn(r) == restoreQueue # << >> /\ Head(restoreQueue) = r

\* readManifest: the wrong key, or a backup of another profile, ends the restore here.
ReadManifest(r, key) ==
    /\ Turn(r) /\ restore[r].phase = "queued"
    /\ IF archive.key = key
       THEN /\ restore' = [restore EXCEPT ![r] = [phase |-> "recover", manifest |-> archive.files]]
            /\ UNCHANGED restoreQueue
       ELSE RestoreEnds(r, "failed")
    /\ UNCHANGED <<disk, archive, scan, backupCrashes, archivings>>

\* Mutant: an old copy that is in the way is always removed.
RecoverySwapRemoves(d) == [dir |-> d, phase |-> "clearPrevious"]

\* recoverInterruptedSwap: a copy set aside comes back when the directory is missing.
RecoverySwap(d) ==
    IF d.dest = Absent /\ d.previous # Absent
    THEN [dir |-> [d EXCEPT !.dest = d.previous, !.previous = Absent], phase |-> "clearStaging"]
    ELSE [dir |-> d, phase |-> "clearPrevious"]

RecoverSwap(r) ==
    /\ Turn(r) /\ restore[r].phase = "recover"
    /\ disk' = RecoverySwap(disk).dir
    /\ Becomes(r, RecoverySwap(disk).phase)
    /\ UNCHANGED <<archive, restoreQueue, scan, backupCrashes, archivings>>

\* rm of a directory takes its files one by one; the caller goes on once it is gone.
Removed(dir) == {Restrict(dir, DOMAIN dir \ {f}) : f \in DOMAIN dir}

Clear(r, phase, name, after) ==
    /\ Turn(r) /\ restore[r].phase = phase
    /\ \/ /\ disk[name] # Absent /\ DOMAIN disk[name] # {}
          /\ \E less \in Removed(disk[name]) : disk' = [disk EXCEPT ![name] = less]
          /\ UNCHANGED <<restore, restoreQueue>>
       \/ /\ disk[name] = Absent \/ DOMAIN disk[name] = {}
          /\ disk' = [disk EXCEPT ![name] = Absent]
          /\ IF after \in {"done", "failed"} THEN RestoreEnds(r, after)
             ELSE Becomes(r, after) /\ UNCHANGED restoreQueue
    /\ UNCHANGED <<archive, scan, backupCrashes, archivings>>

MakeStaging(r) ==
    /\ Turn(r) /\ restore[r].phase = "stage"
    /\ disk.staging = Absent
    /\ disk' = [disk EXCEPT !.staging = Restrict(restore[r].manifest, {})]
    /\ Becomes(r, "write")
    /\ UNCHANGED <<archive, restoreQueue, scan, backupCrashes, archivings>>

\* Each file is decoded, counted and hashed before it is written; one that fails ends the
\* restore, whose staging directory is removed.
WriteStaged(r) ==
    /\ Turn(r) /\ restore[r].phase = "write" /\ disk.staging # Absent
    /\ LET left == DOMAIN restore[r].manifest \ DOMAIN disk.staging
       IN \/ \E f \in left :
                /\ \A g \in left : f <= g
                /\ disk' = [disk EXCEPT !.staging = Restrict(restore[r].manifest, DOMAIN @ \union {f})]
                /\ UNCHANGED restore
          \/ left # {} /\ Becomes(r, "undo") /\ UNCHANGED disk
          \/ left = {} /\ Becomes(r, "swap") /\ UNCHANGED disk
    /\ UNCHANGED <<archive, restoreQueue, scan, backupCrashes, archivings>>

\* replaceDirectoryAtomically, first rename: it may fail and leave everything as it was.
SetAside(r) ==
    /\ Turn(r) /\ restore[r].phase = "swap"
    /\ \/ /\ disk.dest # Absent
          /\ disk' = [disk EXCEPT !.previous = disk.dest, !.dest = Absent]
          /\ Becomes(r, "install")
       \/ disk.dest = Absent /\ Becomes(r, "install") /\ UNCHANGED disk
       \/ disk.dest # Absent /\ Becomes(r, "undo") /\ UNCHANGED disk
    /\ UNCHANGED <<archive, restoreQueue, scan, backupCrashes, archivings>>

\* Second rename, and the way back when it fails, which may fail too.
InstallStaged(r) ==
    /\ Turn(r) /\ restore[r].phase = "install"
    /\ \/ /\ disk.staging # Absent
          /\ disk' = [disk EXCEPT !.dest = disk.staging, !.staging = Absent]
          /\ Becomes(r, "drop")
       \/ /\ disk' = [disk EXCEPT !.dest = disk.previous, !.previous = Absent]
          /\ Becomes(r, "undo")
       \/ Becomes(r, "undo") /\ UNCHANGED disk
    /\ UNCHANGED <<archive, restoreQueue, scan, backupCrashes, archivings>>

\* The process ends: what runs in it is gone, what is on disk stays.
BackupCrash ==
    /\ backupCrashes < MaxBackupCrashes
    /\ backupCrashes' = backupCrashes + 1
    /\ restore' = [r \in Restores |-> NewRestore]
    /\ restoreQueue' = << >> /\ scan' = Absent
    /\ UNCHANGED <<disk, archive, archivings>>

BackupNext ==
    \/ StartBackup \/ ScanFile \/ WriteArchive \/ BackupCrash
    \/ \E key \in VaultKeys : Rekey(key)
    \/ \E r \in Restores :
        \/ CallRestore(r) \/ RecoverSwap(r) \/ MakeStaging(r) \/ WriteStaged(r)
        \/ SetAside(r) \/ InstallStaged(r)
        \/ \E key \in VaultKeys : ReadManifest(r, key)
        \/ Clear(r, "clearPrevious", "previous", "clearStaging")
        \/ Clear(r, "clearStaging", "staging", "stage")
        \/ Clear(r, "drop", "previous", "done")
        \/ Clear(r, "undo", "staging", "failed")

BackupSpec == BackupInit /\ [][BackupNext]_backupVars

-----------------------------------------------------------------------------
(* Properties                                                              *)

\* Whatever step a restore is at, and wherever the process was killed or a rename failed,
\* the profile is on disk as a whole: under its own name, or set aside where the next
\* restore finds it.  Nothing half written or half removed is ever the profile.
ProfileNeverLost ==
    Complete(disk.dest) \/ (disk.dest = Absent /\ Complete(disk.previous))

\* A backup file that can be read is a whole profile, also when the process ends while
\* the next backup of it is being made.
ArchiveWhole == Complete(archive.files)

\* A restore that reports success leaves exactly the files of the manifest it verified,
\* however many restores of the same directory were requested at once.
RestoredExactly ==
    \A r \in Restores :
      (restore[r].phase # "done" /\ restore'[r].phase = "done")
         => disk'.dest = restore[r].manifest

\* Between crashes, overlapping restores and backups, a profile and its backup
\* stay whole and a restore that succeeds is exact (restoreProfileBackup).
ProfileSurvives == [][ProfileNeverLost' /\ ArchiveWhole' /\ RestoredExactly]_backupVars
=============================================================================
