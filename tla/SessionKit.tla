----------------------------- MODULE SessionKit -----------------------------
(***************************************************************************)
(* The Session Kit engine (internal/sessionkit): carrying the Home         *)
(* account's game settings onto one shared account and giving that account *)
(* its own setup back.  One transaction, one module (Dota, the only module *)
(* that writes), the parts its plan names.                                 *)
(*                                                                         *)
(* A step is one mutation of the disk: a rename, a removal, a copy, one    *)
(* durable write of the journal.  The process may die between any two      *)
(* steps and in the middle of a step that is not atomic; a step that fails *)
(* ends the call with the same disk, so one action, Interrupt, is both.    *)
(* What a crash loses is in `memory`, what it keeps in `disk`.  The staging *)
(* directory is in `memory`: ReplacePart removes it before it fills it, so *)
(* nothing an earlier call left there is ever read.                        *)
(***************************************************************************)

CONSTANTS
    Parts,         \* the parts the plan names (journal.Plans[..].Parts)
    Accounts,      \* the accounts Steam may be signed in as
    Shared,        \* the account marked shared, whose files are overlaid
    NoPart,        \* no part is being written
    NoAccount,     \* the zero AccountRef: nobody signed in, no leave target
    AnyAnswer,     \* TRUE: Resolve is called with any answer at any time;
                   \* FALSE: only with those the recovery dialog offers
    HomeMayEmpty   \* TRUE: a planned part of Home may have been emptied
                   \* between Preflight and the kit-source snapshot

ASSUME SharedAssumption == Shared \in Accounts
ASSUME PartsAssumption == Parts # {}   \* Engine.plan skips a plan with no part
ASSUME NoPartAssumption == NoPart \notin Parts
ASSUME NoAccountAssumption == NoAccount \notin Accounts
ASSUME SurfaceAssumption == AnyAnswer \in BOOLEAN /\ HomeMayEmpty \in BOOLEAN

VARIABLES
    \* the disk
    live,      \* the part's directory in the shared account's userdata
    rollback,  \* what the last replacement moved aside; "absent": no directory
    active,    \* LoadActive finds a journal: the pointer names one that exists
    j,         \* that journal
    login,     \* the account loginusers.vdf names
    \* the world
    steam,     \* Steam, or a game, is running
    \* the memory of the process that holds Engine.mu
    op,        \* the engine call in progress
    pc,        \* its next step; a phase: Advance to that phase is next
    at,        \* the part being replaced or rolled back
    staged,    \* its private copy in the staging directory
    todo,      \* the parts this pass has still to visit
    dest,      \* the account this call is to sign in
    \* history
    orig,      \* what the account held when its setup was last saved
    accepted   \* the user has declared an overlaid tree to be theirs

disk   == <<live, rollback, active, j, login>>
memory == <<op, pc, at, staged, todo, dest>>
ghosts == <<orig, accepted>>
vars   == <<disk, steam, memory, ghosts>>

-----------------------------------------------------------------------------
(* Trees.  A directory is missing, has no entry, or holds a setup: the     *)
(* owner's as found or since changed, the kit as written or since changed  *)
(* by the game, or the remains of a removal or copy that was cut short.    *)

Tree     == {"absent", "empty", "theirs", "edited", "kit", "kitEdited", "torn"}
Overlay  == {"kit", "kitEdited"}
Blank    == {"absent", "empty"}              \* not dirHasContent
Aside    == Tree \cup {"marker"}             \* "marker": the absent marker

SameSetup(a, b) == a = b \/ (a \in Blank /\ b \in Blank)

\* What is left of a directory whose removal (or creation) was cut short.
Remains(t) == CASE t = "marker" -> "empty"
                [] t \in Blank  -> t
                [] OTHER        -> "torn"

\* An absent or empty part is captured as an empty payload directory.
Captured(t) == IF t \in Blank THEN "empty" ELSE t

\* What a game, Steam Cloud, or the owner playing elsewhere makes of a tree.
Played(t) == CASE t \in Overlay -> "kitEdited"
               [] t = "torn"    -> "torn"
               [] OTHER         -> "edited"

-----------------------------------------------------------------------------
(* Journal phases and part states.                                         *)

BeforeKitLanded == {"planned", "steam-closed", "snapshotting",
                    "snapshot-saved", "applying"}
KitPhases       == {"kit-active", "kept-active"}
RestingPhases   == KitPhases \cup {"external-change-blocked", "complete"}
Phases == BeforeKitLanded \cup RestingPhases \cup
    {"kit-applied", "swapping-login", "login-swapped", "launching",
     "leave-planned", "closing-steam-for-restore", "restore-checking",
     "restoring", "setup-restored", "swapping-login-after-restore",
     "launching-after-restore"}
ReplaceStates == {"pending", "staged", "old-moved", "installed", "verified"}

Journal == [phase   : Phases,
            part    : [Parts -> ReplaceStates],
            from    : Accounts \cup {NoAccount},
            leaveTo : Accounts \cup {NoAccount},
            saved   : BOOLEAN,             \* Snapshots[..].TheirSetup # ""
            theirs  : [Parts -> Tree],     \* that snapshot's payload
            kit     : [Parts -> Tree],     \* the kit-source payload
            applied : SUBSET Parts]        \* parts with a KitApplied digest

NoScratch  == [p \in Parts |-> "absent"]
AllPending == [p \in Parts |-> "pending"]
NewJournal(kit, from) ==
    [phase |-> "planned", part |-> AllPending, from |-> from,
     leaveTo |-> NoAccount, saved |-> FALSE,
     theirs |-> [p \in Parts |-> "absent"], kit |-> kit, applied |-> {}]

LoginAfterRestore  == IF j.leaveTo # NoAccount THEN j.leaveTo ELSE j.from
HasCompletedWrites == \E p \in Parts : j.part[p] = "verified"

(* What Status reports.                                                    *)
KitOn          == active /\ j.phase \in KitPhases
ExternalChange == active /\ j.phase = "external-change-blocked"
Interrupted    == active /\ j.phase \notin RestingPhases

-----------------------------------------------------------------------------
(* The steps of the engine's calls.                                        *)

Ops == {"idle", "Enter", "plainSwitch", "Leave", "LeaveKeepMine",
        "RestoreTheirs", "KeepCurrent", "AcceptCurrent", "Abandon"}

PassSteps     == {"next-part", "stage", "log-staged", "clear-rollback",
                  "move-aside", "log-old-moved", "install", "log-installed",
                  "verify", "release-rollback"}
RollbackSteps == {"rollback", "put-back"}
FinishSteps   == {"clear-active", "drop-transaction", "release-scratch"}
Steps == Phases \cup PassSteps \cup RollbackSteps \cup FinishSteps \cup
    {"idle", "close", "publish", "save-theirs", "check",
     "release-verified", "write-login", "launch", "reconcile-login"}

\* The step that follows a durable Advance to `phase`.
AfterAdvance(phase) ==
    CASE phase = "planned"                      -> "steam-closed"
      [] phase = "steam-closed"                 -> "snapshotting"
      [] phase = "snapshotting"                 -> "save-theirs"
      [] phase = "snapshot-saved"               -> "applying"
      [] phase \in {"applying", "restoring"}    -> "next-part"
      [] phase = "kit-applied"                  -> "swapping-login"
      [] phase \in {"swapping-login", "swapping-login-after-restore"}
                                                -> "write-login"
      [] phase = "login-swapped"                ->
            IF op = "Enter" THEN "launching" ELSE "launching-after-restore"
      [] phase \in {"launching", "launching-after-restore"} -> "launch"
      [] phase = "leave-planned"                ->
            IF op = "LeaveKeepMine" THEN "swapping-login-after-restore"
                                    ELSE "closing-steam-for-restore"
      [] phase = "closing-steam-for-restore"    -> "restore-checking"
      [] phase = "restore-checking"             -> "check"
      [] phase = "setup-restored"               ->
            IF op = "Leave" THEN "swapping-login-after-restore"
                            ELSE "reconcile-login"

\* The call returns, or the process is gone.
Return == /\ op' = "idle" /\ pc' = "idle"
          /\ at' = NoPart /\ staged' = "absent"
          /\ todo' = {} /\ dest' = NoAccount

Goto(step) == pc' = step /\ UNCHANGED <<op, at, staged, todo, dest>>

Begin(call, step, target) ==
    /\ op = "idle"
    /\ op' = call
    /\ pc' = step
    /\ dest' = target
    /\ UNCHANGED <<disk, steam, at, staged>>

\* guardReady and kitBlocksEntry, and RunUnjournaledSwap's switch: the same.
MaySwitchTo(a) == /\ ~Interrupted
                  /\ ~ExternalChange
                  /\ KitOn => a = Shared

(* Enter on the shared account with a kit to carry.                        *)
BeginEnter ==
    /\ MaySwitchTo(Shared)
    /\ ~KitOn
    /\ Begin("Enter", "close", Shared)
    /\ UNCHANGED <<todo, ghosts>>

(* A switch without a kit: Enter's plainSwitch (not shared, no module      *)
(* ready, or the kit is already there) and the bare swap of the tray, the  *)
(* shortcuts and the URLs under RunUnjournaledSwap.                        *)
BeginPlainSwitch(a) ==
    /\ MaySwitchTo(a)
    /\ Begin("plainSwitch", "close", a)
    /\ UNCHANGED <<todo, ghosts>>

(* Leave, asked for when the user picks another account than the kit's.    *)
BeginLeave(a, call) ==
    /\ KitOn
    /\ a # Shared \/ AnyAnswer
    /\ Begin(call, "close", a)
    /\ UNCHANGED <<todo, ghosts>>

\* The parts rollbackIncomplete visits.
Incomplete == {p \in Parts : j.part[p] # "verified"}

\* Mutant: nothing to press while no setup was saved.
OfferedOnceSaved(answer) ==
    \/ answer \in {"RestoreTheirs", "KeepCurrent"} /\ Interrupted /\ j.saved
    \/ answer # "Abandon" /\ ExternalChange

\* The answers KitRecoveryModal shows for the state Status reports.
Offered(answer) ==
    \/ AnyAnswer
    \/ answer = "RestoreTheirs" /\ (Interrupted \/ ExternalChange) /\ j.saved
    \/ answer = "KeepCurrent"   /\ ((Interrupted /\ j.saved) \/ ExternalChange)
    \/ answer = "AcceptCurrent" /\ ExternalChange
    \/ answer = "Abandon"       /\ Interrupted /\ ~j.saved

ResolveRestoreTheirs ==
    /\ active /\ Offered("RestoreTheirs")
    /\ Begin("RestoreTheirs", "close", NoAccount)
    /\ UNCHANGED <<todo, ghosts>>

ResolveKeepCurrent ==
    /\ active /\ Offered("KeepCurrent")
    /\ Begin("KeepCurrent",
             IF ExternalChange THEN "kept-active" ELSE "close", NoAccount)
    /\ UNCHANGED <<todo, ghosts>>

ResolveAcceptCurrent ==
    /\ active /\ Offered("AcceptCurrent") /\ ExternalChange
    /\ Begin("AcceptCurrent", "clear-active", NoAccount)
    /\ accepted' = TRUE
    /\ UNCHANGED <<todo, orig>>

ResolveAbandon ==
    /\ active /\ Offered("Abandon") /\ ~HasCompletedWrites
    /\ Begin("Abandon", "rollback", NoAccount)
    /\ todo' = Incomplete
    /\ UNCHANGED ghosts

Resolve == \/ ResolveRestoreTheirs
           \/ ResolveKeepCurrent
           \/ ResolveAcceptCurrent
           \/ ResolveAbandon

-----------------------------------------------------------------------------
\* Mutant: a process that outlives the close is not noticed.
EnsureClosedUnchecked ==
    /\ pc = "close"
    /\ steam' \in {FALSE, steam}
    /\ pc' = CASE op = "Enter"                        -> "publish"
               [] op = "plainSwitch"                  -> "write-login"
               [] op \in {"Leave", "LeaveKeepMine"}   -> "leave-planned"
               [] OTHER                               -> "rollback"
    /\ todo' = IF pc' = "rollback" THEN Incomplete ELSE {}
    /\ UNCHANGED <<disk, op, at, staged, dest, ghosts>>

(* ensureClosed, and what the call goes on to.                             *)
EnsureClosed ==
    /\ pc = "close"
    /\ steam' = FALSE
    /\ pc' = CASE op = "Enter"                        -> "publish"
               [] op = "plainSwitch"                  -> "write-login"
               [] op \in {"Leave", "LeaveKeepMine"}   -> "leave-planned"
               [] OTHER                               -> "rollback"
    /\ todo' = IF pc' = "rollback" THEN Incomplete ELSE {}
    /\ UNCHANGED <<disk, op, at, staged, dest, ghosts>>

\* Home's planned parts as the kit-source snapshot finds them.
KitSources == IF HomeMayEmpty THEN [Parts -> {"kit", "empty"}]
                              ELSE {[p \in Parts |-> "kit"]}

(* The kit-source snapshot, the first journal write and SetActive.  Until  *)
(* the pointer names it the new journal is invisible, so this is one step. *)
(* The rollback directories of a new transaction id do not exist.          *)
Publish ==
    /\ pc = "publish"
    /\ \E kit \in KitSources : j' = NewJournal(kit, login)
    /\ active' = TRUE
    /\ rollback' = NoScratch
    /\ Goto(AfterAdvance("planned"))
    /\ UNCHANGED <<live, login, steam, ghosts>>

\* What the journal holds after Advance(phase): the part states are reset
\* before a pass, the leave target is written with the first phase of Leave.
Advanced(phase) ==
    [j EXCEPT !.phase   = phase,
              !.part    = IF phase \in {"applying", "restoring"}
                          THEN AllPending ELSE @,
              !.leaveTo = IF phase = "leave-planned" THEN dest ELSE @]

(* journal.Advance, and the next step of the call.                         *)
Advance ==
    /\ pc \in Phases \ RestingPhases
    /\ j' = Advanced(pc)
    /\ todo' = IF pc = "applying" \/ (pc = "restoring" /\ j.saved)
               THEN Parts ELSE {}
    /\ pc' = AfterAdvance(pc)
    /\ UNCHANGED <<live, rollback, active, login, steam, op, at, staged, dest, ghosts>>

(* The Advance that settles the call: it returns, or goes on to finish.    *)
AdvanceToRest ==
    /\ pc \in RestingPhases
    /\ j' = Advanced(pc)
    /\ IF pc = "complete" THEN Goto("clear-active") ELSE Return
    /\ UNCHANGED <<live, rollback, active, login, steam, ghosts>>

(* The their-setup snapshot, committed and referenced by the journal.      *)
SaveTheirSetup ==
    /\ pc = "save-theirs"
    /\ j' = [j EXCEPT !.theirs = [p \in Parts |-> Captured(live[p])],
                      !.saved  = TRUE]
    /\ orig' = live
    /\ Goto("snapshot-saved")
    /\ UNCHANGED <<live, rollback, active, login, steam, accepted>>

-----------------------------------------------------------------------------
(* One pass of the module's write: ReplacePart on each part, with the part *)
(* journal after every transition.                                         *)

Applying     == op = "Enter"
Source(p)    == IF Applying THEN j.kit[p] ELSE j.theirs[p]
SrcAbsent(p) == Source(p) \in Blank

StartPart(p) ==
    /\ pc = "next-part" /\ p \in todo
    /\ ~(Applying /\ SrcAbsent(p))
    /\ at' = p
    /\ pc' = "stage"
    /\ UNCHANGED <<disk, steam, op, staged, todo, dest, ghosts>>

(* A kit with nothing for a part leaves what is there.                     *)
SkipPart(p) ==
    /\ pc = "next-part" /\ p \in todo
    /\ Applying /\ SrcAbsent(p)
    /\ todo' = todo \ {p}
    /\ UNCHANGED <<disk, steam, op, pc, at, staged, dest, ghosts>>

StageCopy(copy) ==
    /\ pc = "stage"
    /\ staged' = copy
    /\ pc' = "log-staged"
    /\ UNCHANGED <<disk, steam, op, at, todo, dest, ghosts>>

Stage == StageCopy(IF SrcAbsent(at) THEN "absent" ELSE Source(at))

(* The copy came out short without an error; only the hash will tell.      *)
StageShort == pc = "stage" /\ ~SrcAbsent(at) /\ StageCopy("torn")

LogPart(step, state, next) ==
    /\ pc = step
    /\ j' = [j EXCEPT !.part[at] = state]
    /\ Goto(next)
    /\ UNCHANGED <<live, rollback, active, login, steam, ghosts>>

LogStaged    == LogPart("log-staged", "staged", "clear-rollback")
LogOldMoved  == LogPart("log-old-moved", "old-moved", "install")
LogInstalled == LogPart("log-installed", "installed", "verify")

ClearRollback ==
    /\ pc = "clear-rollback"
    /\ rollback' = [rollback EXCEPT ![at] = "absent"]
    /\ Goto("move-aside")
    /\ UNCHANGED <<live, active, j, login, steam, ghosts>>

MoveAside ==
    /\ pc = "move-aside"
    /\ rollback' = [rollback EXCEPT ![at] =
                        IF live[at] = "absent" THEN "marker" ELSE live[at]]
    /\ live' = [live EXCEPT ![at] = "absent"]
    /\ Goto("log-old-moved")
    /\ UNCHANGED <<active, j, login, steam, ghosts>>

Install ==
    /\ pc = "install"
    /\ live' = IF SrcAbsent(at) THEN live ELSE [live EXCEPT ![at] = staged]
    /\ Goto("log-installed")
    /\ UNCHANGED <<rollback, active, j, login, steam, ghosts>>

\* Mutant: the installed tree is not hashed.
MatchesUnchecked == TRUE

\* VerifyPart: the installed tree is the one the manifest describes.
Matches == SrcAbsent(at) \/ live[at] = Source(at)

LogVerified == /\ pc = "verify" /\ Matches
               /\ LogPart("verify", "verified", "release-rollback")

VerifyFails ==
    /\ pc = "verify" /\ ~Matches
    /\ Return
    /\ UNCHANGED <<disk, steam, ghosts>>

Release(leftover) ==
    /\ pc = "release-rollback"
    /\ rollback' = [rollback EXCEPT ![at] = leftover]
    /\ at' = NoPart /\ staged' = "absent" /\ todo' = todo \ {at}
    /\ pc' = "next-part"
    /\ UNCHANGED <<live, active, j, login, steam, op, dest, ghosts>>

ReleaseRollback == Release("absent")

(* A best-effort removal: it may fail, before it starts or half way.       *)
ReleaseRollbackFails ==
    /\ pc = "release-rollback"
    /\ \E leftover \in {rollback[at], Remains(rollback[at])} : Release(leftover)

(* The digests of what was written go on the journal.                      *)
RecordPass ==
    /\ pc = "next-part" /\ todo = {}
    /\ j' = IF Applying
            THEN [j EXCEPT !.applied = {p \in Parts : j.kit[p] \notin Blank}]
            ELSE j
    /\ Goto(IF Applying THEN "kit-applied" ELSE "setup-restored")
    /\ UNCHANGED <<live, rollback, active, login, steam, ghosts>>

-----------------------------------------------------------------------------
(* Leaving: the external-change check and the release before a reset.      *)

\* Mutant: without KitApplied digests nothing is compared.
ExpectedApplied == j.applied

\* KitApplied digests, or KitSource's when no apply was ever recorded.
Expected == IF j.applied # {} THEN j.applied ELSE Parts

CheckExternalChange ==
    /\ pc = "check"
    /\ Goto(IF \A p \in Expected : live[p] = j.kit[p]
            THEN "release-verified" ELSE "external-change-blocked")
    /\ UNCHANGED <<disk, steam, ghosts>>

ReleaseVerified ==
    /\ pc = "release-verified"
    /\ rollback' = [p \in Parts |->
                        IF p \in Incomplete THEN rollback[p] ELSE "absent"]
    /\ Goto("restoring")
    /\ UNCHANGED <<live, active, j, login, steam, ghosts>>

(* Best effort again: some of the copies are left, whole or in part.       *)
ReleaseVerifiedFails ==
    /\ pc = "release-verified"
    /\ \E left \in SUBSET (Parts \ Incomplete), torn \in BOOLEAN :
          rollback' = [p \in Parts |->
              IF p \in Incomplete THEN rollback[p]
              ELSE IF p \notin left THEN "absent"
              ELSE IF torn THEN Remains(rollback[p]) ELSE rollback[p]]
    /\ Goto("restoring")
    /\ UNCHANGED <<live, active, j, login, steam, ghosts>>

-----------------------------------------------------------------------------
(* rollbackIncomplete: RollbackPart on every part not verified, then one   *)
(* journal write.  The rollback directory, not the journal, is believed.   *)

NothingMoved(p) ==
    /\ pc = "rollback" /\ p \in todo
    /\ rollback[p] = "absent"
    /\ todo' = todo \ {p}
    /\ UNCHANGED <<disk, steam, op, pc, at, staged, dest, ghosts>>

RemoveInstalled(p) ==
    /\ pc = "rollback" /\ p \in todo
    /\ rollback[p] # "absent"
    /\ live' = [live EXCEPT ![p] = "absent"]
    /\ at' = p
    /\ pc' = "put-back"
    /\ UNCHANGED <<rollback, active, j, login, steam, op, staged, todo, dest, ghosts>>

PutBack ==
    /\ pc = "put-back"
    /\ live' = [live EXCEPT ![at] =
                    IF rollback[at] = "marker" THEN "absent" ELSE rollback[at]]
    /\ rollback' = [rollback EXCEPT ![at] = "absent"]
    /\ at' = NoPart /\ todo' = todo \ {at}
    /\ pc' = "rollback"
    /\ UNCHANGED <<active, j, login, steam, op, staged, dest, ghosts>>

\* Mutant: part states alone say whether anything landed.
NothingLandedByParts == ~HasCompletedWrites

\* KeepCurrent gives up a kit of which nothing landed, and tracks any other.
NothingLanded == ~HasCompletedWrites /\ j.phase \in BeforeKitLanded

RollbackDone ==
    /\ pc = "rollback" /\ todo = {}
    /\ j' = [j EXCEPT !.part = [p \in Parts |->
                IF p \in Incomplete THEN "pending" ELSE "verified"]]
    /\ Goto(CASE op = "RestoreTheirs" -> "release-verified"
              [] op = "KeepCurrent" /\ ~NothingLanded -> "kept-active"
              [] OTHER -> "clear-active")
    /\ UNCHANGED <<live, rollback, active, login, steam, ghosts>>

-----------------------------------------------------------------------------
(* Login and launch.                                                       *)

WriteLogin ==
    /\ pc = "write-login"
    /\ login' = dest
    /\ Goto(IF op = "plainSwitch" THEN "launch" ELSE "login-swapped")
    /\ UNCHANGED <<live, rollback, active, j, steam, ghosts>>

\* With AutoStart off nothing is started.
LaunchSteam ==
    /\ pc = "launch"
    /\ steam' \in BOOLEAN
    /\ IF op = "plainSwitch"
       THEN Return
       ELSE Goto(CASE op = "Enter"         -> "kit-active"
                   [] op = "LeaveKeepMine" -> "kept-active"
                   [] OTHER                -> "complete")
    /\ UNCHANGED <<disk, ghosts>>

ReconcileLogin ==
    /\ pc = "reconcile-login"
    /\ login' = IF LoginAfterRestore = NoAccount THEN login ELSE LoginAfterRestore
    /\ Goto("complete")
    /\ UNCHANGED <<live, rollback, active, j, steam, ghosts>>

(* A login that cannot be read or written is not fatal.                    *)
ReconcileLoginFails ==
    /\ pc = "reconcile-login"
    /\ Goto("complete")
    /\ UNCHANGED <<disk, steam, ghosts>>

-----------------------------------------------------------------------------
(* finish: the archive is only for diagnostics; each of the rest may fail  *)
(* without stopping the next.  A pointer whose journal is gone names none, *)
(* and what a transaction nothing names leaves on disk is never read.      *)

NoJournal == NewJournal([p \in Parts |-> "absent"], NoAccount)
Forget    == active' = FALSE /\ j' = NoJournal

ClearActive ==
    /\ pc = "clear-active"
    /\ Forget
    /\ Goto("drop-transaction")
    /\ UNCHANGED <<live, rollback, login, steam, ghosts>>

ClearActiveFails ==
    /\ pc = "clear-active"
    /\ Goto("drop-transaction")
    /\ UNCHANGED <<disk, steam, ghosts>>

DropTransaction ==
    /\ pc = "drop-transaction"
    /\ Forget
    /\ Goto("release-scratch")
    /\ UNCHANGED <<live, rollback, login, steam, ghosts>>

DropTransactionFails ==
    /\ pc = "drop-transaction"
    /\ Goto("release-scratch")
    /\ UNCHANGED <<disk, steam, ghosts>>

ReleaseScratch ==
    /\ pc = "release-scratch"
    /\ rollback' = NoScratch
    /\ Return
    /\ UNCHANGED <<live, active, j, login, steam, ghosts>>

-----------------------------------------------------------------------------
(* The call ends here: the process dies, or this step returned an error.   *)
(* A removal, or the creation of the marker, may be half done.             *)

CutShort ==
    \/ UNCHANGED <<live, rollback>>
    \/ /\ pc = "clear-rollback"
       /\ rollback' = [rollback EXCEPT ![at] = Remains(@)]
       /\ UNCHANGED live
    \/ /\ pc = "move-aside" /\ live[at] = "absent"
       /\ rollback' = [rollback EXCEPT ![at] = "empty"]
       /\ UNCHANGED live
    \/ /\ pc = "rollback"
       /\ \E p \in todo : /\ rollback[p] # "absent"
                          /\ live' = [live EXCEPT ![p] = Remains(@)]
       /\ UNCHANGED rollback
    \/ /\ pc = "put-back" /\ rollback[at] = "marker"
       /\ rollback' = [rollback EXCEPT ![at] = "empty"]
       /\ UNCHANGED live

Interrupt ==
    /\ op # "idle"
    /\ Return
    /\ CutShort
    /\ UNCHANGED <<active, j, login, steam, ghosts>>

-----------------------------------------------------------------------------
(* The world.  Nobody starts Steam while the engine holds it closed.       *)

UserTogglesSteam ==
    /\ op = "idle"
    /\ steam' = ~steam
    /\ UNCHANGED <<disk, memory, ghosts>>

UserSignsIn(a) ==
    /\ op = "idle" /\ steam
    /\ login' = a
    /\ UNCHANGED <<live, rollback, active, j, steam, memory, ghosts>>

Play(p) ==
    /\ steam /\ login = Shared
    /\ live' = [live EXCEPT ![p] = Played(@)]
    /\ UNCHANGED <<rollback, active, j, login, steam, memory, ghosts>>

-----------------------------------------------------------------------------
Init ==
    /\ live \in [Parts -> {"absent", "empty", "theirs"}]
    /\ rollback = NoScratch
    /\ active = FALSE
    /\ login \in Accounts \cup {NoAccount}
    /\ j = NoJournal
    /\ steam \in BOOLEAN
    /\ op = "idle" /\ pc = "idle"
    /\ at = NoPart /\ staged = "absent" /\ todo = {} /\ dest = NoAccount
    /\ orig = live /\ accepted = FALSE

Begins == \/ BeginEnter
          \/ \E a \in Accounts : \/ BeginPlainSwitch(a)
                                 \/ BeginLeave(a, "Leave")
                                 \/ BeginLeave(a, "LeaveKeepMine")

(* The steps of a call in progress.                                        *)
EngineStep ==
    \/ EnsureClosed \/ Publish \/ Advance \/ AdvanceToRest \/ SaveTheirSetup
    \/ \E p \in Parts : \/ StartPart(p) \/ SkipPart(p)
                        \/ NothingMoved(p) \/ RemoveInstalled(p)
    \/ Stage \/ LogStaged \/ ClearRollback \/ MoveAside \/ LogOldMoved
    \/ Install \/ LogInstalled \/ LogVerified \/ VerifyFails
    \/ ReleaseRollback \/ RecordPass
    \/ CheckExternalChange \/ ReleaseVerified
    \/ PutBack \/ RollbackDone
    \/ WriteLogin \/ LaunchSteam \/ ReconcileLogin
    \/ ClearActive \/ DropTransaction \/ ReleaseScratch

(* A step that fails, and the death of the process.                        *)
Fault == \/ StageShort
         \/ ReleaseRollbackFails \/ ReleaseVerifiedFails
         \/ ReconcileLoginFails \/ ClearActiveFails \/ DropTransactionFails
         \/ Interrupt

World == \/ UserTogglesSteam
         \/ \E a \in Accounts : UserSignsIn(a)
         \/ \E p \in Parts : Play(p)

Next == Begins \/ Resolve \/ EngineStep \/ Fault \/ World

Spec == Init /\ [][Next]_vars

(* A call in progress goes on, and the user answers the recovery dialog,   *)
(* which blocks everything else until it is answered.                      *)
Fairness == WF_vars(EngineStep) /\ WF_vars(Resolve)

-----------------------------------------------------------------------------
TypeOK ==
    /\ live \in [Parts -> Tree]
    /\ rollback \in [Parts -> Aside]
    /\ active \in BOOLEAN
    /\ j \in Journal
    /\ login \in Accounts \cup {NoAccount}
    /\ steam \in BOOLEAN
    /\ op \in Ops
    /\ pc \in Steps
    /\ at \in Parts \cup {NoPart}
    /\ staged \in Tree
    /\ todo \in SUBSET Parts
    /\ dest \in Accounts \cup {NoAccount}
    /\ orig \in [Parts -> Tree]
    /\ accepted \in BOOLEAN

\* The transaction from which the owner's setup can be put back.
Tracked == active /\ j.phase # "complete" /\ j.saved

(* Whenever no transaction stands that could give the account its setup    *)
(* back, it carries none of the kit, no half-removed tree and no hole,     *)
(* unless the user declared what is there to be the owner's.               *)
NothingStranded ==
    ~Tracked /\ ~accepted =>
        \A p \in Parts : /\ live[p] \notin Overlay \cup {"torn"}
                         /\ live[p] = "absent" => orig[p] \in Blank

(* The snapshot a restore would write back is the owner's own setup, whole *)
(* and as it was saved, never the kit of an earlier visit.                 *)
SnapshotIsTheirs ==
    active /\ j.saved /\ ~accepted =>
        \A p \in Parts : /\ j.theirs[p] \notin Overlay \cup {"torn"}
                         /\ SameSetup(j.theirs[p], orig[p])

(* Once a restore is recorded as done, every part holds what was saved,    *)
(* whatever crashes and recoveries came before.                            *)
RestoreIsExact ==
    [][pc = "setup-restored" /\ pc' # pc /\ j'.phase = "setup-restored"
        => \A p \in Parts : j.saved => SameSetup(live'[p], orig[p])]_vars

(* restoreTheirSetup: "nothing is written until the user has answered".    *)
(* Leave replaces a tree only if it is still the kit as the engine wrote   *)
(* it, or the setup it saved; a tree changed by anyone else it asks about. *)
LeaveAsksFirst ==
    [][op = "Leave" /\ pc = "move-aside" /\ op' # "idle"
        => live[at] = j.kit[at] \/ SameSetup(live[at], orig[at])]_vars

(* Enter signs in to the shared account only over the kit: every part the  *)
(* kit has content for is on disk before the login is written.             *)
KitLandsBeforeLogin ==
    [][op = "Enter" /\ pc = "write-login" /\ op' # "idle"
        => \A p \in Parts : j.kit[p] \notin Blank => live[p] = "kit"]_vars

(* KeepCurrent after an interrupted Enter calls the kit live only if some  *)
(* of it is on the account: "calling this a live kit would tell the user   *)
(* their settings are on the account when they are not".                   *)
KeptKitIsThere ==
    [][op = "KeepCurrent" /\ j.phase \in BeforeKitLanded
            /\ j'.phase = "kept-active"
        => \E p \in Parts : live[p] \in Overlay]_vars

(* ensureClosed: no part is mutated by the engine while Steam runs.        *)
WritesOnlyWhenClosed ==
    [][steam /\ op # "idle" /\ live' # live
        => \E p \in Parts : Play(p)]_vars

(* A restored part is literally what it was, an empty directory included.  *)
RestoreKeepsEmpty ==
    [][pc = "setup-restored" /\ pc' # pc /\ j'.phase = "setup-restored"
        => \A p \in Parts : j.saved => live'[p] = orig[p]]_vars

(* An interrupted transaction, answered with what the dialog offers, does  *)
(* not block switching for ever.                                           *)
AnswerUnblocks == Interrupted ~> ~Interrupted
=============================================================================
