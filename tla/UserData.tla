------------------------------- MODULE UserData -------------------------------
(***************************************************************************)
(* Moving the user data folder (internal/platform/user_data_move.go,       *)
(* user_data.go, main.go).  The running process copies the folder, saves   *)
(* the new place in the settings, writes a note beside the program and     *)
(* restarts itself.  The new process copies once more, for what the old    *)
(* one wrote meanwhile, and removes the old folder in the background, over *)
(* several attempts; the note stays until that has worked, and the next    *)
(* start takes the whole of it up again.                                   *)
(*                                                                         *)
(* A file is its version; 0 is no file.  The process that runs keeps       *)
(* writing to the folder it started with.                                  *)
(***************************************************************************)
EXTENDS Integers

CONSTANTS Folders, Files,
          Faults,       \* what may also go wrong: "torn" the process ends between the settings
                        \* and the note; "busy" a copy skips a file; "again" a move begins
                        \* while the folder of the one before is still being removed
          MaxVersion,   \* bound: the versions of a file
          MaxDeaths       \* bound: how often the process ends

ASSUME UserDataAssumption ==
    /\ "none" \notin Folders
    /\ Faults \subseteq {"torn", "busy", "again"}
    /\ MaxVersion \in Nat \ {0} /\ MaxDeaths \in Nat

VARIABLES data,      \* data[d][f]: the version of file f in folder d
          setting,   \* UserDataPath
          note,      \* userdata-move.pending.json
          process,   \* down, up, and between
          root,      \* the folder the process resolved when it started
          moving,    \* the move in progress and the files it has still to copy
          args,      \* --userdata-move-from and -to of the next start
          remover,   \* the folder the background removal is at
          newest,    \* the newest version of each file (history)
          deaths

dataVars == <<data, setting, note, process, root, moving, args, remover, newest, deaths>>

NoMove == [from |-> "none", to |-> "none"]
Moves == [from : Folders, to : Folders]
NotMoving == [to |-> "none", left |-> {}, step |-> "none"]
NoFolder == "none"

UserDataInit ==
    \E d \in Folders :
       /\ data = [e \in Folders |-> [f \in Files |-> IF e = d THEN 1 ELSE 0]]
       /\ setting = d /\ root = d /\ note = NoMove
       /\ process = "up" /\ moving = NotMoving /\ args = NoMove
       /\ remover = NoFolder /\ newest = [f \in Files |-> 1] /\ deaths = 0

UserDataTypeOK ==
    /\ data \in [Folders -> [Files -> 0..MaxVersion]]
    /\ {setting, root} \subseteq Folders
    /\ {note, args} \subseteq Moves \cup {NoMove}
    /\ process \in {"up", "down", "cleanup"}
    /\ moving.step \in {"none", "copy", "setting", "note", "restart"}
    /\ moving.left \subseteq Files
    /\ remover \in Folders \cup {NoFolder}

----------------------------------------------------------------------------
\* The app writes a file where it started, a move in progress or not.
Write(f) ==
    /\ process = "up" /\ newest[f] < MaxVersion
    /\ newest' = [newest EXCEPT ![f] = @ + 1]
    /\ data' = [data EXCEPT ![root][f] = newest'[f]]
    /\ UNCHANGED <<setting, note, process, root, moving, args, remover, deaths>>

\* moveUserDataToResolved
StartMove(to) ==
    /\ process = "up" /\ moving = NotMoving /\ to # root
    /\ remover # NoFolder => "again" \in Faults
    /\ moving' = [to |-> to, left |-> {f \in Files : data[root][f] # 0}, step |-> "copy"]
    /\ UNCHANGED <<data, setting, note, process, root, args, remover, newest, deaths>>

\* A file in use elsewhere is skipped.
Skipped == IF "busy" \in Faults THEN BOOLEAN ELSE {FALSE}

CopyOne(f) ==
    /\ moving.step = "copy" /\ f \in moving.left
    /\ \E skipped \in Skipped :
          data' = IF skipped THEN data ELSE [data EXCEPT ![moving.to][f] = data[root][f]]
    /\ moving' = [moving EXCEPT !.left = @ \ {f}]
    /\ UNCHANGED <<setting, note, process, root, args, remover, newest, deaths>>

SaveSetting ==
    /\ moving.step = "copy" /\ moving.left = {}
    /\ setting' = moving.to
    /\ moving' = [moving EXCEPT !.step = "note"]
    /\ UNCHANGED <<data, note, process, root, args, remover, newest, deaths>>

\* A mutant: a note that is still there is left.
FirstNote == IF note # NoMove THEN note ELSE [from |-> root, to |-> moving.to]

\* writeUserDataMovePending replaces the file.
NextNote == [from |-> root, to |-> moving.to]

WriteNote ==
    /\ moving.step = "note"
    /\ note' = NextNote
    /\ moving' = [moving EXCEPT !.step = "restart"]
    /\ UNCHANGED <<data, setting, process, root, args, remover, newest, deaths>>

\* RestartSelf hands the singleton over; this process exits, or says so and stays.
RestartSelf ==
    /\ moving.step = "restart"
    /\ moving' = NotMoving
    /\ \E stays \in BOOLEAN :
          /\ process' = IF stays THEN "up" ELSE "down"
          /\ args' = IF stays THEN args ELSE [from |-> root, to |-> moving.to]
          /\ remover' = IF stays THEN remover ELSE NoFolder
    /\ UNCHANGED <<data, setting, note, root, newest, deaths>>

----------------------------------------------------------------------------
\* The process ends, at any moment but one.
End ==
    /\ process # "down" /\ deaths < MaxDeaths
    /\ moving.step = "note" => "torn" \in Faults
    /\ deaths' = deaths + 1
    /\ process' = "down"
    /\ moving' = NotMoving /\ args' = NoMove /\ remover' = NoFolder
    /\ UNCHANGED <<data, setting, note, root, newest>>

\* InitDataPaths, and the singleton.
Start ==
    /\ process = "down"
    /\ process' = "cleanup" /\ root' = setting
    /\ UNCHANGED <<data, setting, note, moving, args, remover, newest, deaths>>

\* resolveUserDataMoveCleanup: the arguments, or else the note.
Cleanup == IF args # NoMove THEN args ELSE note

Exists(d) == \E f \in Files : data[d][f] # 0

\* FinalizeUserDataMove copies every file that is there, over what the new folder holds.
Merged(m) ==
    [data EXCEPT ![m.to] = [f \in Files |-> IF data[m.from][f] # 0 THEN data[m.from][f] ELSE @[f]]]

FinalizeMove ==
    /\ process = "cleanup"
    /\ process' = "up" /\ args' = NoMove
    /\ IF Cleanup = NoMove \/ Cleanup.from = Cleanup.to
       THEN UNCHANGED <<data, note, remover>>
       ELSE IF ~Exists(Cleanup.from)
       THEN note' = NoMove /\ UNCHANGED <<data, remover>>
       ELSE /\ \E skipped \in Skipped : data' = IF skipped THEN data ELSE Merged(Cleanup)
            /\ remover' = Cleanup.from
            /\ UNCHANGED note
    /\ UNCHANGED <<setting, root, moving, newest, deaths>>

\* removeOldUserDataDirAfterExit: files go one by one, an attempt may stop at one that is held,
\* and the last attempt gives up.
RemoveOne(f) ==
    /\ remover # NoFolder /\ data[remover][f] # 0
    /\ data' = [data EXCEPT ![remover][f] = 0]
    /\ UNCHANGED <<setting, note, process, root, moving, args, remover, newest, deaths>>

OldRemoved ==
    /\ remover # NoFolder /\ ~Exists(remover)
    /\ remover' = NoFolder /\ note' = NoMove
    /\ UNCHANGED <<data, setting, process, root, moving, args, newest, deaths>>

GiveUp ==
    /\ remover # NoFolder
    /\ remover' = NoFolder
    /\ UNCHANGED <<data, setting, note, process, root, moving, args, newest, deaths>>

UserDataNext ==
    \/ \E f \in Files : Write(f) \/ CopyOne(f) \/ RemoveOne(f)
    \/ \E d \in Folders : StartMove(d)
    \/ SaveSetting \/ WriteNote \/ RestartSelf \/ End \/ Start \/ FinalizeMove \/ OldRemoved \/ GiveUp

UserDataSpec == UserDataInit /\ [][UserDataNext]_dataVars

----------------------------------------------------------------------------
(* What a move promises.                                                   *)

\* A file never goes missing from the folder in use: whatever the folders have been moved back and
\* forth, and wherever the process ended, the app that has started finds every file.
FilesStay == process = "up" => \A f \in Files : data[root][f] # 0

\* And it finds the newest.  An old folder that could not be removed breaks it: the next start
\* copies it over what has been written since (user_data_move.go:90-105).
NewestIsInUse == process = "up" /\ root = setting => \A f \in Files : data[root][f] = newest[f]
=============================================================================
