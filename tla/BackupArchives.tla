---------------------------- MODULE BackupArchives ----------------------------
(***************************************************************************)
(* Backups of Steam's config and userdata folders (platform/backup.go,     *)
(* pages/Tools.svelte and the gate of steam/sessionkit_guard.go).  A zip   *)
(* is written in place, one file after another; a restore takes the        *)
(* newest, unpacks all of it and copies it over the live files.            *)
(*                                                                         *)
(* Names, extensions and compression are left out.  The two folders are    *)
(* files in the order they are walked in; what a file holds is a version.  *)
(***************************************************************************)
EXTENDS Naturals, Sequences

CONSTANTS
    LastFile,         \* the files are 1 .. LastFile
    MaxArchives,      \* bound: backups begun
    MaxVersions,      \* bound: versions Steam writes
    MaxBackupFaults   \* bound: failures and deaths

ASSUME FilesAssumption == LastFile \in Nat \ {0}

VARIABLES
    tree,         \* tree[f]: what the live file holds
    archives,     \* the zips, oldest first
    packing,      \* the backup in progress
    task,         \* the restore in progress
    kitOn,        \* a kit stands: applied, or its transaction unresolved
    setup,        \* what the engine saved of the file the kit replaces
    clientUp,     \* Steam runs
    versions,     \* versions written so far
    backupFaults  \* failures and deaths so far

backupVars == <<tree, archives, packing, task, kitOn, setup, clientUp, versions, backupFaults>>

TreeFiles == 1 .. LastFile
NoFile  == 0
CutFile == 1    \* the file with no content, or the first part of it
KitFile == 2    \* the kit's

NoPacking == [on |-> FALSE, next |-> 1, into |-> 0]
NoTask    == [at |-> "idle", next |-> 1, from |-> 0, staged |-> <<>>, touched |-> FALSE]
Contents  == NoFile .. 3 + MaxVersions
NoContents == [f \in TreeFiles |-> NoFile]

BackupTypeOK ==
    /\ tree \in [TreeFiles -> Contents] /\ kitOn \in BOOLEAN /\ clientUp \in BOOLEAN
    /\ archives \in Seq([holds : [TreeFiles -> Contents], form : {"open", "readable", "cut"}, told : BOOLEAN])
    /\ packing \in [on : BOOLEAN, next : 1 .. LastFile + 1, into : 0 .. MaxArchives]
    /\ task.at \in {"idle", "confirm", "copy", "restored"} /\ task.next \in 1 .. LastFile + 1
    /\ task.staged \in {<<>>} \cup [TreeFiles -> Contents]
    /\ versions \in 0 .. MaxVersions /\ backupFaults \in 0 .. MaxBackupFaults

\* The last file is one Steam has not written yet.
BackupInit ==
    /\ tree = [f \in TreeFiles |-> IF f = LastFile THEN NoFile ELSE 3]
    /\ archives = <<>> /\ packing = NoPacking /\ task = NoTask
    /\ kitOn = FALSE /\ setup = NoFile /\ clientUp \in BOOLEAN
    /\ versions = 0 /\ backupFaults = 0

Faulty == backupFaults < MaxBackupFaults /\ backupFaults' = backupFaults + 1
Latest == Len(archives)
-----------------------------------------------------------------------------
(* BackupPlatform: no gate, and Steam may run.                             *)

BackupBegins ==
    /\ ~packing.on /\ Latest < MaxArchives
    /\ archives' = Append(archives, [holds |-> NoContents, form |-> "open", told |-> FALSE])
    /\ packing' = [NoPacking EXCEPT !.on = TRUE, !.into = Latest + 1]
    /\ UNCHANGED <<tree, task, kitOn, setup, clientUp, versions, backupFaults>>

FileAdded ==
    /\ packing.on /\ packing.next <= LastFile
    /\ archives' = [archives EXCEPT ![packing.into].holds[packing.next] = tree[packing.next]]
    /\ packing' = [packing EXCEPT !.next = @ + 1]
    /\ UNCHANGED <<tree, task, kitOn, setup, clientUp, versions, backupFaults>>

ArchiveWritten ==
    /\ packing.on /\ packing.next > LastFile
    /\ archives' = [archives EXCEPT ![packing.into].form = "readable", ![packing.into].told = TRUE]
    /\ packing' = NoPacking
    /\ UNCHANGED <<tree, task, kitOn, setup, clientUp, versions, backupFaults>>

\* A file cannot be stated, opened or read to its end: its entry is missing or cut short.  Closing
\* the writer completes the directory of what is there, and the archive stays.
FileNotAdded ==
    /\ packing.on /\ packing.next <= LastFile /\ tree[packing.next] # NoFile
    /\ Faulty
    /\ \E c \in {NoFile, CutFile} :
        archives' = [archives EXCEPT ![packing.into].holds[packing.next] = c, ![packing.into].form = "readable"]
    /\ packing' = NoPacking
    /\ UNCHANGED <<tree, task, kitOn, setup, clientUp, versions>>

\* The disk is full: no directory is written, and the archive stays.
ArchiveCut ==
    /\ packing.on /\ Faulty
    /\ archives' = [archives EXCEPT ![packing.into].form = "cut"]
    /\ packing' = NoPacking
    /\ UNCHANGED <<tree, task, kitOn, setup, clientUp, versions>>
-----------------------------------------------------------------------------
(* restoreLatest and RestoreLatestPlatformBackup.                          *)

RestoreAsked ==
    /\ task.at = "idle" /\ ~clientUp
    /\ task' = [NoTask EXCEPT !.at = "confirm"]
    /\ UNCHANGED <<tree, archives, packing, kitOn, setup, clientUp, versions, backupFaults>>

\* The archive that was written last is unpacked whole, or the restore ends here: declined,
\* refused by the gate, no archive, one that cannot be read.
Unpacks ==
    /\ task.at = "confirm" /\ ~kitOn /\ Latest > 0 /\ archives[Latest].form = "readable"
    /\ task' = [task EXCEPT !.at = "copy", !.from = Latest, !.staged = archives[Latest].holds]
    /\ UNCHANGED <<tree, archives, packing, kitOn, setup, clientUp, versions, backupFaults>>

RestoreEnds ==
    /\ task.at \in {"confirm", "restored"} /\ task' = NoTask
    /\ UNCHANGED <<tree, archives, packing, kitOn, setup, clientUp, versions, backupFaults>>

\* restoreExtractedBackup: each file is replaced at once; what the archive lacks stays.
FileCopied ==
    /\ task.at = "copy" /\ task.next <= LastFile
    /\ tree' = [tree EXCEPT ![task.next] = IF task.staged[task.next] = NoFile THEN @
                                              ELSE task.staged[task.next]]
    /\ task' = [task EXCEPT !.next = @ + 1]
    /\ UNCHANGED <<archives, packing, kitOn, setup, clientUp, versions, backupFaults>>

FilesCopied ==
    /\ task.at = "copy" /\ task.next > LastFile
    /\ task' = [task EXCEPT !.at = "restored"]
    /\ UNCHANGED <<tree, archives, packing, kitOn, setup, clientUp, versions, backupFaults>>

\* A copy fails: the files before it stay as copied.
RestoreCut ==
    /\ task.at = "copy" /\ Faulty /\ task' = NoTask
    /\ UNCHANGED <<tree, archives, packing, kitOn, setup, clientUp, versions>>
-----------------------------------------------------------------------------
(* The app, the engine and Steam.                                          *)

AppDies ==
    /\ packing.on \/ task.at = "copy"
    /\ Faulty
    /\ archives' = IF packing.on THEN [archives EXCEPT ![packing.into].form = "cut"] ELSE archives
    /\ packing' = NoPacking /\ task' = NoTask
    /\ UNCHANGED <<tree, kitOn, setup, clientUp, versions>>

\* The restore runs inside the engine's lock (RunWhileSettled).
AskedBefore  == task.at # "confirm"    \* mutant: the gate answers and lets the caller act
EngineIsFree == task.at # "copy"

KitComes ==
    /\ ~kitOn /\ ~clientUp /\ EngineIsFree
    /\ kitOn' = TRUE /\ setup' = tree[1] /\ tree' = [tree EXCEPT ![1] = KitFile]
    /\ UNCHANGED <<archives, packing, task, clientUp, versions, backupFaults>>

KitGoes ==
    /\ kitOn /\ ~clientUp /\ EngineIsFree
    /\ kitOn' = FALSE /\ setup' = NoFile /\ tree' = [tree EXCEPT ![1] = setup]
    /\ UNCHANGED <<archives, packing, task, clientUp, versions, backupFaults>>

SteamComesOrGoes ==
    /\ clientUp' = ~clientUp
    /\ UNCHANGED <<tree, archives, packing, task, kitOn, setup, versions, backupFaults>>

SteamWrites ==
    /\ clientUp /\ versions < MaxVersions /\ versions' = versions + 1
    /\ \E f \in TreeFiles : tree' = [tree EXCEPT ![f] = 3 + versions']
    /\ task' = IF task.at = "copy" THEN [task EXCEPT !.touched = TRUE] ELSE task
    /\ UNCHANGED <<archives, packing, kitOn, setup, clientUp, backupFaults>>

BackupNext ==
    \/ BackupBegins \/ FileAdded \/ ArchiveWritten \/ FileNotAdded \/ ArchiveCut
    \/ RestoreAsked \/ Unpacks \/ RestoreEnds \/ FileCopied \/ FilesCopied \/ RestoreCut
    \/ AppDies \/ KitComes \/ KitGoes \/ SteamComesOrGoes \/ SteamWrites

BackupSpec == BackupInit /\ [][BackupNext]_backupVars
-----------------------------------------------------------------------------
(* Properties.                                                             *)

Succeeds == task.at = "copy" /\ task'.at = "restored"
PutBack  == \A f \in TreeFiles : task.staged[f] # NoFile => tree[f] = task.staged[f]

\* RestoreLatestPlatformBackup: a restore that reports success has put back every file of the
\* archive, over nobody's kit, unless Steam was started meanwhile: neither Enter nor Leave comes
\* between its files.
RestoredIsTheArchive == [][Succeeds /\ ~task.touched => PutBack /\ ~kitOn]_backupVars

\* What is restored is a backup the user was told of: not what a failed one left behind.
RestoredWasTold == [][Succeeds => archives[task.from].told]_backupVars

\* No kit comes back with a restore after it was taken off.
KitStaysOff == [][Succeeds /\ ~task.touched => tree[1] # KitFile]_backupVars
=============================================================================
