------------------------------ MODULE LoginFiles ------------------------------
(***************************************************************************)
(* The records a switch writes while Steam is closed: the rows of          *)
(* loginusers.vdf with their markers, the copy of it that is kept beside   *)
(* it, AutoLoginUser and RememberPassword in the registry (registry.vdf on *)
(* macOS), and the friends state in the account's localconfig.vdf          *)
(* (internal/steam: switcher.go, loginusers.go, loginusers_edit.go,        *)
(* registryvdf.go, localconfig_persona.go, advanced_clearing.go).          *)
(*                                                                         *)
(* A switch writes them one after another and may stop anywhere between;   *)
(* Steam writes them too, and so does the clearing page.  The app tells    *)
(* from them who is signed in.  Accounts stand for their login names,      *)
(* which differ.                                                           *)
(***************************************************************************)
EXTENDS Naturals, FiniteSets

CONSTANTS LoginIds,       \* the accounts Steam knows of
          NoOne,          \* AutoLoginUser is empty or not there
          Unreadable,     \* AutoLoginUser cannot be read
          MaxLoginEvents  \* bound: switches, forgets and writes of Steam in a behaviour

ASSUME LoginAssumption ==
    /\ NoOne \notin LoginIds /\ Unreadable \notin LoginIds \cup {NoOne}
    /\ MaxLoginEvents \in Nat

VARIABLES oneFile,   \* AutoLoginUser and RememberPassword are written at once (macOS)
          file,      \* loginusers.vdf
          last,      \* loginusers.vdf_last
          registry,
          job,       \* the switch or the forgetting in progress
          said,      \* the last switch reported as made, until something else is written (history)
          events

loginVars == <<oneFile, file, last, registry, job, said, events>>

Marks == {"absent", "0", "1"}
Rows == UNION {[S -> [remember : BOOLEAN, auto : Marks, recent : Marks]] : S \in SUBSET LoginIds}
NoRows == [a \in {} |-> a]

Missing == [kind |-> "missing", rows |-> NoRows]
UsersFile(rows) == [kind |-> "users", rows |-> rows]

\* What an account's localconfig.vdf has of the friends state: a leaf ePersonaState, and one inside
\* the JSON of FriendStoreLocalPrefs; each is not there, another, or the one a switch asks for.
Places == {"none", "other", "asked"}
Friends == [leaf : Places, prefs : Places]

NoSwitch == [id |-> NoOne, wrote |-> FALSE, friends |-> [leaf |-> "asked", prefs |-> "asked"]]
NoJob == [pc |-> "none", op |-> "none", id |-> NoOne, remember |-> FALSE, alone |-> TRUE, rows |-> NoRows]

----------------------------------------------------------------------------
(* Reading.                                                                *)

\* ParseLoginUsers: the file, or the copy when the file names nobody.
ParseLoginUsers == IF DOMAIN file.rows # {} THEN file.rows ELSE last.rows

Uses(rows, field) == \E a \in DOMAIN rows : rows[a][field] # "absent"
MarkedBy(rows, field) == {a \in DOMAIN rows : rows[a][field] = "1"}

\* activeSession: the newer marker decides as soon as any row has it.
Marked(rows) == IF Uses(rows, "auto") THEN MarkedBy(rows, "auto") ELSE MarkedBy(rows, "recent")
ActiveSession(rows) ==
    IF Cardinality(Marked(rows)) = 1 THEN CHOOSE a \in Marked(rows) : TRUE ELSE NoOne

\* ResolveSession.
ResolveSession(rows, user) ==
    LET active == ActiveSession(rows)
    IN  IF user \in {NoOne, Unreadable}
        THEN [id |-> active, state |-> IF active # NoOne THEN "ok"
                                       ELSE IF Marked(rows) # {} THEN "unknown" ELSE "none"]
        ELSE IF user \notin DOMAIN rows THEN [id |-> NoOne, state |-> "mismatch"]
        ELSE IF active \in {NoOne, user} THEN [id |-> user, state |-> "ok"]
        ELSE [id |-> active, state |-> "mismatch"]

SessionVerdict == ResolveSession(ParseLoginUsers, registry.user)

----------------------------------------------------------------------------
(* Editing.                                                                *)

\* A mutant: a file that has the older marker keeps to it.
OlderMarker(rows) == IF Uses(rows, "recent") THEN {"recent"} ELSE {"auto"}

\* activeMarkerFields: those the file uses, or the newer.
ActiveMarkerFields(rows) ==
    {f \in {"auto", "recent"} : Uses(rows, f)} \cup (IF Uses(rows, "recent") THEN {} ELSE {"auto"})

\* applyLoginSelection: other accounts keep what they remember, and gain no marker.
ApplySelection(rows, id, remember) ==
    LET mark(a, f) == IF f \notin ActiveMarkerFields(rows) THEN rows[a][f]
                      ELSE IF a = id THEN "1"
                      ELSE IF rows[a][f] = "absent" THEN "absent" ELSE "0"
    IN  [a \in DOMAIN rows |->
            [remember |-> IF a = id THEN remember ELSE rows[a].remember,
             auto |-> mark(a, "auto"), recent |-> mark(a, "recent")]]

Without(rows, id) == [a \in DOMAIN rows \ {id} |-> rows[a]]

\* patchPersonaInKeyValue: every place that has a state gets this one.
PatchPersona(f) == [place \in DOMAIN f |-> IF f[place] = "none" THEN "none" ELSE "asked"]

\* ensureFriendStorePrefs, for a file that has none.
EnsureFriendStorePrefs(f) == [f EXCEPT !.prefs = "asked"]

\* setPersonaStateLocalConfig.
WithPersona(f) ==
    IF {f.leaf, f.prefs} = {"none"} THEN EnsureFriendStorePrefs(f) ELSE PatchPersona(f)

----------------------------------------------------------------------------
Signed(a, fields) == [remember |-> TRUE, auto |-> IF "auto" \in fields THEN a ELSE "absent",
                      recent |-> IF "recent" \in fields THEN a ELSE "absent"]

LoginInit ==
    /\ oneFile \in BOOLEAN
    /\ \E a \in LoginIds \cup {NoOne}, older \in SUBSET LoginIds :
          /\ file = UsersFile([b \in LoginIds |->
                        Signed(IF a = b THEN "1" ELSE "0", IF b \in older THEN {"recent"} ELSE {"auto"})])
          /\ registry = [user |-> a, remember |-> TRUE]
    /\ last = Missing
    /\ job = NoJob /\ said = NoSwitch /\ events = 0

LoginTypeOK ==
    /\ \A f \in {file, last} : f.kind \in {"missing", "spoilt", "users"} /\ f.rows \in Rows
    /\ registry.user \in LoginIds \cup {NoOne, Unreadable}
    /\ job.pc \in {"none", "backup", "write", "user", "remember", "persona"}

Idle == job.pc = "none"
JobGoes(pc) == job' = [job EXCEPT !.pc = pc]
Counts == events < MaxLoginEvents /\ events' = events + 1

----------------------------------------------------------------------------
(* A switch.                                                               *)

\* SwapToAccount, which the tray, links and the command line use, does nothing when the file names
\* the account already; the kit engine's WriteLogin always writes.
AlreadyThere(id) == id # NoOne /\ ActiveSession(ParseLoginUsers) = id

\* readLoginUsersTree and applyLoginSelection; without a file, or with one of another shape, it is refused.
StartSwap(id, remember) ==
    /\ Idle /\ Counts
    /\ file.kind = "users"
    /\ job' = [pc |-> "backup", op |-> "swap", id |-> IF id \in DOMAIN file.rows THEN id ELSE NoOne,
               remember |-> remember, alone |-> TRUE, rows |-> ApplySelection(file.rows, id, remember)]
    /\ said' = NoSwitch
    /\ UNCHANGED <<file, last, registry>>

SwapIsThere(id) ==
    /\ Idle /\ Counts
    /\ AlreadyThere(id)
    /\ said' = [NoSwitch EXCEPT !.id = id]
    /\ UNCHANGED <<file, last, registry, job>>

\* What the file holds by now, not what was read; a failure is ignored.
KeepCopy(ok) ==
    /\ job.pc = "backup" /\ JobGoes("write")
    /\ last' = IF ok /\ file.kind # "missing" THEN file ELSE last
    /\ UNCHANGED <<file, registry, said, events>>

WriteLoginUsers ==
    /\ job.pc = "write"
    /\ file' = UsersFile(job.rows)
    /\ job' = IF job.op = "swap" THEN [job EXCEPT !.pc = "user"] ELSE NoJob
    /\ UNCHANGED <<last, registry, said, events>>

\* SetAutoLogin: two values on Windows, one file on macOS, which has to be readable.
SetAutoLogin ==
    /\ job.pc = "user"
    /\ oneFile => registry.user # Unreadable
    /\ registry' = IF oneFile THEN [user |-> job.id, remember |-> job.remember]
                   ELSE [registry EXCEPT !.user = job.id]
    /\ JobGoes(IF oneFile THEN "persona" ELSE "remember")
    /\ UNCHANGED <<file, last, said, events>>

SetRemember ==
    /\ job.pc = "remember"
    /\ registry' = [registry EXCEPT !.remember = job.remember]
    /\ JobGoes("persona")
    /\ UNCHANGED <<file, last, said, events>>

\* setPersonaStateLocalConfig on the file as Steam left it, and the switch is reported.  Without a
\* state to ask for, or when the file cannot be written, this is skipped.
FinishSwap(f) ==
    /\ job.pc = "persona"
    /\ said' = [id |-> job.id, wrote |-> job.alone, friends |-> WithPersona(f)]
    /\ job' = NoJob
    /\ UNCHANGED <<file, last, registry, events>>

\* A write fails, or the app ends here.
StopHalfWay ==
    /\ ~Idle
    /\ job' = NoJob
    /\ UNCHANGED <<file, last, registry, said, events>>

----------------------------------------------------------------------------
(* Everybody else who writes.                                              *)

\* ForgetSteamAccount: the registry is left alone, and Steam may be running.
StartForget(id) ==
    /\ Idle /\ Counts
    /\ file.kind = "users"
    /\ job' = [NoJob EXCEPT !.pc = "backup", !.op = "forget", !.id = id, !.rows = Without(file.rows, id)]
    /\ said' = NoSwitch
    /\ UNCHANGED <<file, last, registry>>

\* DeleteRegistryValue: registry.vdf has to be readable.
DeleteValue(value, gone) ==
    registry.user # Unreadable /\ registry' = [registry EXCEPT ![value] = gone]

\* RunAdvancedClearingAction, which takes no lock; registry.vdf may be spoilt by whoever else edits it.
Clear ==
    /\ Counts /\ said' = NoSwitch
    /\ \/ file' = Missing /\ UNCHANGED registry
       \/ DeleteValue("user", NoOne) /\ UNCHANGED file
       \/ DeleteValue("remember", FALSE) /\ UNCHANGED file
    /\ job' = [job EXCEPT !.alone = Idle]
    /\ UNCHANGED last

SpoilFiles ==
    /\ Counts /\ said' = NoSwitch
    /\ \/ file' = [kind |-> "spoilt", rows |-> NoRows] /\ UNCHANGED registry
       \/ oneFile /\ registry' = [registry EXCEPT !.user = Unreadable] /\ UNCHANGED file
    /\ job' = [job EXCEPT !.alone = Idle]
    /\ UNCHANGED last

\* Steam signs an account in, with the markers of its generation; closed, it writes nothing.
SteamSignsIn(id, remember, fields) ==
    /\ job.op # "swap" /\ Counts
    /\ file' = UsersFile([a \in DOMAIN file.rows \cup {id} |->
            IF a = id THEN [Signed("1", fields) EXCEPT !.remember = remember]
            ELSE [remember |-> file.rows[a].remember,
                  auto |-> IF file.rows[a].auto = "absent" THEN "absent" ELSE "0",
                  recent |-> IF file.rows[a].recent = "absent" THEN "absent" ELSE "0"]])
    /\ registry' = [user |-> IF remember THEN id ELSE NoOne, remember |-> remember]
    /\ said' = NoSwitch
    /\ job' = [job EXCEPT !.alone = Idle]
    /\ UNCHANGED last

LoginStep ==
    \/ \E id \in LoginIds \cup {NoOne}, remember \in BOOLEAN : StartSwap(id, remember)
    \/ \E ok \in BOOLEAN : KeepCopy(ok)
    \/ \E f \in Friends : FinishSwap(f)
    \/ WriteLoginUsers \/ SetAutoLogin \/ SetRemember \/ StopHalfWay \/ Clear \/ SpoilFiles
    \/ \E id \in LoginIds : SwapIsThere(id) \/ StartForget(id)
    \/ \E id \in LoginIds, remember \in BOOLEAN, fields \in {{"auto"}, {"recent"}, {"auto", "recent"}} :
          SteamSignsIn(id, remember, fields)

LoginNext == LoginStep /\ UNCHANGED oneFile

LoginSpec == LoginInit /\ [][LoginNext]_loginVars

----------------------------------------------------------------------------
(* What the window says of it.                                             *)

\* A switch that was written and reported is seen everywhere: whatever markers the file has used
\* over the years, it names that account and nobody else, Steam's own selection does too, the app
\* says so, and every place that holds the account's friends state holds the one asked for
\* (loginusers_edit.go:175-180, os_backend_windows.go:150-151).
SwitchIsSeen ==
    said.wrote =>
        /\ ActiveSession(file.rows) = said.id /\ registry.user = said.id
        /\ SessionVerdict.id = said.id \/ DOMAIN file.rows = {}
        /\ said.id # NoOne => {said.friends.leaf, said.friends.prefs} \ {"none"} = {"asked"}

\* The same of every switch that was reported.  It fails: after a switch that stopped between the
\* two records, SwapToAccount finds the file's half and writes nothing, and Steam signs the other in.
ReportedSwitchIsSeen == said.id # NoOne => registry.user \in {said.id, NoOne}

\* An account that was forgotten is not listed until Steam knows it again.  It fails for the last
\* one: the file is left without rows, and the copy made of it still has one.
ForgottenIsGone ==
    [][\A id \in LoginIds : job.op = "forget" /\ job.id = id /\ WriteLoginUsers
          => id \notin DOMAIN (IF DOMAIN file'.rows # {} THEN file'.rows ELSE last'.rows)]_loginVars
=============================================================================
