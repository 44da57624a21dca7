# steamswitch: TLA+ models, checks and proofs

steamswitch is a desktop program (Go, with a Svelte window) that switches the
account Steam signs in with. Its most delicate part is the *Session Kit*: on an
account shared with somebody else it puts the Home account's game settings in
place for the visit and gives the other person's settings back afterwards. That
is a transaction over someone else's files that spans process restarts, Steam
running and closing, games writing, and failing file operations. Around it are
calls that reach the same files from the window, the tray, links, the command line
and background goroutines, a vault that signs in to the stored accounts by itself,
and an app password whose key the saved sessions are sealed under.

This directory models these parts, checks them with TLC, and proves part of what is
checked with TLAPS, for every value of the constants.

## Inventory

For each part: its state, its operations, what is hard, and what makes it correct.
`PROJECT.json` lists the same parts with their sources and what of each is left out,
and under `hazards` the lines where each can go wrong. Paths are under `src/internal`.

| Part | State | Operations | Hard because | Correct when |
|---|---|---|---|---|
| **Session Kit engine** (`sessionkit`: engine, recovery, replace; `steam/sessionkit_dota.go`, `sessionkit_lifecycle.go`) | one transaction's journal and the pointer to it, a staging and a rollback directory for each part, the account's parts, the login | `Enter`, `plainSwitch`, `Leave`, `Resolve`, `RunUnjournaledSwap`, `Status` | crashes between and inside file operations, recoveries of recoveries, best-effort removals, the game and Steam Cloud writing in between | the owner's setup is on the account or can be put back; nothing is written while Steam runs or without asking; an interruption can be answered |
| **Kit snapshot store** (`sessionkit/store.go`, `journal.go`, `manifest.go`) | committed snapshots, last-known-good pointers, the pointer and the journal | begin, commit, verify, prune, the answers to a record that does not parse | pruning to ten while a transaction still needs one; files that cannot be read | what a live transaction or last-known-good names is there, whole |
| **Kit guard and locks** (`steam/sessionkit_guard.go`, `sessionkit_service.go`, `service.go`, `switcher.go`) | `Engine.mu`, `SteamService.mu`, `dotaWriteMu`, the engine or none | `guardedSwap`, `guardedWhileSettled`, `guardManualConfigWrite`, the service's methods | two lock orders; a guard asked before the lock it should be under | no deadlock; no bare swap, manual write or restore across a kit |
| **Game config tools** (`steam/gameconfig.go`) | userdata trees, Steam's inventory of the cloud's files, saved configs and automatic revert points | copy between accounts, apply, undo, capture, prune | several parts, one fails; undo takes its own revert point and prunes | all parts or none; an undo that is offered works |
| **Steam close sequence** (`steam/close_sequence.go`, `os_backend_*.go`) | deadlines | ask, terminate, kill | a late request starts Steam again; helpers outlive the client | "closed" means nothing is in flight |
| **Sign-in watch** (`steam/signin_watch.go`) | a generation and a verdict | launch, poll, clear | goroutines of earlier launches; leftovers of a killed client | the verdict shown is about the last launch |
| **Login files** (`steam/loginusers*.go`, `switcher.go`, `registryvdf.go`, `localconfig_persona.go`, `advanced_clearing.go`) | loginusers.vdf and its copy, the registry, localconfig.vdf | switch, forget, persona, clear | several records written in turn, Steam writing them too | a switch that was reported is seen everywhere |
| **Account roles and module settings** (`steam/roles.go`, `sessionkit_modules.go`, `settings.go`) | SteamSettings.json | roles, labels, shortcuts, pauses, self-tests | whole-file writers under one lock, another or none | Home is never shared; a pause ends when it should |
| **Profile refresh** (`steam/service.go`, `refresh_schedule.go`) | a timer, the round, a queue of one, the tiles | ask, run, retry, lock | requests during a round; a page that loads meanwhile | nothing asked for is forgotten |
| **Vault checks and scheduler** (`vault/scheduler.go`, `verify.go`, `health.go`, `entries.go`) | each entry's health, failures, skips and next time; the rate-limit latch; the one-check mutex; the loop | `DeepCheck`, `CheckSession`, `QuickCheck`, `schedulerStep`, `ConfigureScheduler` | results written after the entry changed; loops replaced in mid-step | one login at a time, none after a rate limit; a wrong password is found in the end |
| **Vault store, roster, handoff** (`vault/store.go`, `entries.go`, `roster_import.go`, `handoff.go`) | one encrypted document and its copy in memory, import sessions, bundles | load, mutate, save, link, import, export, accept | every caller writes the whole; a stale cache, form or review | a write changes what it is about and nothing else |
| **Vault sign-in and guard codes** (`vault/codes.go`, `manualcode.go`, `mail`, `steamauth`) | a mailbox, pre-warmed codes, a prompt and its request | warm, fetch, purge, ask the person, read Steam's answers | cancelled and late goroutines, prompts of earlier logins | a code is used for the sign-in it belongs to; a verdict is a fact |
| **App lock and saved-account encryption** (`security`) | the key in memory, the vault lock, the busy latch, the flag and the sealed copies on disk | set, unlock, lock, remove, encrypt, decrypt, quarantine | the flag is read outside the lock; operations are long | no session is lost or sealed under a key no password opens |
| **User data move** (`platform/user_data_move.go`) | two folders, the setting, the note beside the program | move, finalize, remove | two processes, retries at each start | no file goes missing |
| **Settings** (`platform/settings.go`, `service_settings_setters.go`, `background.go`) | one JSON file, its copy in memory, what it switches outside | setters, undo of a half-made change | the outside step or the save fails | a toggle says what is so |
| **Backup of the user data** (`platform/backup.go`, `service_backup.go`) | zip archives, live folders | back up, restore | a cut archive looks like one; a kit or Steam beside it | a restore reported as done put back all of it |
| **Tray recent accounts** (`tray`, `steam/tray_recent.go`) | Tray_Users.json, its mutex, the menu | record, repair, sync, rebuild | the mutex is taken in two sections; menus are built later | a locked tray names nobody; the menu follows the list |
| **Account tags** (`basic/tags.go`, `service.go`) | ids.json | put on, take off, end, the weekly special tag, the list that prunes | writers without the mutex | a tag stays until it is taken off or ends |
| **Commands, shortcuts and IPC** (`cli/args.go`, `app`, `ipc`, `winutil`) | a mutex, a pipe, processes | parse, forward, carry out, restart | processes started at once, windows that give way | one process acts; a link only switches |
| **Recovery dialog and frontend stores** | what the dialog offers | its answers | modal | only what it offers is asked for |
| **Operating system layer, images, statistics, logging** | files, registry, processes | - | - | not modelled |

How they interact: an account tile calls `SessionKitService.SwitchTo`, which holds
`Engine.mu` for the whole call and lets the Dota module and the Steam lifecycle do
the file work. The tray, shortcuts, links and the command line call `SwapToAccount`,
which runs under `Engine.mu` through `RunUnjournaledSwap` and is refused while the
kit's state forbids it. Either closes Steam by the close sequence, writes the login
files, starts Steam and its sign-in watch, and warms a guard code. The window shows
`KitRecoveryModal` when `Status` reports an interrupted or externally changed
transaction; its answer is `Resolve`. The vault shares the app lock's key and lock with
the saved sessions. Tray, statistics and the sign-in watch are told of a switch and
never change the transaction.

## Modules

Modules whose name begins with MC hold the bounds, the symmetry and the
specifications TLC runs. `MCVaultParts` and `MCAppParts` put parts that share no state
into one run: a behaviour chooses a part, takes it through its steps and leaves the
others where they start, so that the states are the sum of the parts' and not the product.

| Module | What it is | Run |
|---|---|---|
| `SessionKit` | the engine, one transaction over one module's parts | `kit_visits`, `kit_crashes` |
| `KitPromise` | what the engine promises the owner: a loan with a copy in hand | |
| `SessionKitPromise` | the refinement mapping from `SessionKit` to `KitPromise` | `kit_crashes` |
| `SnapshotStore` | snapshots, pruning, last-known-good, records that do not parse | `kit_store` |
| `KitGuard` | the three mutexes and the gate, every caller that takes one | `kit_guard` |
| `GameConfig` | the manual tool: copy, apply, undo, revert points | `game_config` |
| `AppLock` | the app password, encryption of the sessions, locks, vault calls | `app_lock` |
| `VaultChecks` | checks, scheduler, setting, edits of the entries | `vault_safety`, `vault_eventually` |
| `VaultDocument` | the vault's document, its cache, stand-in keys, import, handoff | `vault_parts`, `readers_put_back` |
| `GuardCodes`, `VaultSignIn` | codes out of the mailbox; a login, its verdict and the prompt | `vault_parts` |
| `AppSettings` | the settings and what they switch | `app_parts`, `minutes_reset` |
| `CloseSequence`, `SignInWatch`, `UserData`, `Commands`, `LoginFiles`, `ProfileRefresh`, `SteamSettings`, `TrayRecent`, `BackupArchives`, `AccountTags` | one part each | `app_parts` |
| `SessionKitProofs`, `VaultChecksProofs`, `SnapshotStoreProofs`, `KitGuardProofs`, `AppLockProofs` | theorems about the module of that name; `SessionKitProofs` also proves the refinement of `KitPromise` | |
| `SettingsFilesProofs` | theorems about `AppSettings`, `SteamSettings`, `AccountTags`, `GameConfig` | |
| `AppPartsProofs` | theorems about `CloseSequence`, `Commands`, `LoginFiles`, `SignInWatch`, `ProfileRefresh`, `TrayRecent`, `UserData`, `BackupArchives` | |
| `VaultPartsProofs` | theorems about `VaultSignIn`, `GuardCodes`, `VaultDocument` | |

### SessionKit

*State.* Four groups, by who would lose them.

- `disk`, kept over a crash: `live[p]` is the part's directory in the shared
  account's userdata; `rollback[p]` is what the last replacement moved aside
  (`"marker"` is the file that says there was nothing); `active` is whether
  `LoadActive` finds a journal; `j` is that journal, with phase, part states, login
  before the visit, leave target, the two snapshots' payloads and which parts have a
  `KitApplied` digest; `login` is the account loginusers.vdf names.
- `steam`: Steam or a game runs.
- `memory`, the call that holds `Engine.mu`: `op` the call, `pc` its next step,
  `at` the part in hand, `staged` its private copy, `todo` the parts left, `dest` the
  account to sign in. A `pc` that is the name of a phase means that the durable
  `Advance` to it is next.
- history, for the properties only: `orig` is what the account held when it was last
  saved, `accepted` is set when the user has said that what is there is theirs.

A tree is `absent`, `empty`, `theirs`, `edited` (theirs, changed since), `kit`,
`kitEdited` (changed by the game since) or `torn` (the remains of a removal or copy
that was cut short). That is all the properties tell apart.

*Actions.* One per mutation of the disk. `BeginEnter`, `BeginPlainSwitch`,
`BeginLeave` and the four `Resolve...` actions start a call, with the guards of
`guardReady`, `RunUnjournaledSwap`, `kitBlocksEntry` and the dialog. `EnsureClosed`,
`Publish`, `Advance`, `AdvanceToRest`, `SaveTheirSetup`, `CheckExternalChange`,
`ReleaseVerified`, `WriteLogin`, `LaunchSteam`, `ReconcileLogin`, `ClearActive`,
`DropTransaction`, `ReleaseScratch` are the steps of the calls. `StartPart` to
`RecordPass` are one pass of `ReplacePart` over the plan, with the part journal
between the renames; `NothingMoved`, `RemoveInstalled`, `PutBack`, `RollbackDone`
are `rollbackIncomplete`. `AfterAdvance` is the order of the phases in each call.

*Faults.* `Interrupt` is a crash or an error return at any step, with the half-done
effects (`CutShort`) of the steps that are not one atomic rename or write. The
actions whose names end in `Fails` are errors the code swallows. `StageShort` is a
copy that came out short without an error.

*The world.* The user starts and closes Steam and signs in from its window while the
engine is idle; a game or Steam Cloud writes a part while Steam runs with the shared
account.

*Abstractions to know.*

- `Publish` is the kit-source snapshot, the first journal write and `SetActive`: until
  the pointer names it, no other call can see the journal. `SnapshotStore` takes them
  apart. A snapshot's commit and the journal write that names it are one step for the
  same reason.
- Staging is in `memory` because `ReplacePart` removes it before it fills it. What a
  dead transaction leaves under its own id is never read again.
- Payloads are values in the journal; that pruning keeps them is for `SnapshotStore`.
- Parts are done in any order; the code's plan has one fixed order.
- The user does not start Steam while a call holds it closed. Every write the engine
  makes relies on that.
- Journals and pointers that do not parse are in `SnapshotStore`; here a pointer may
  name a missing journal (there is no transaction).

*What it refines.* `KitPromise` says what the owner is promised with none of how it is
kept: a copy is taken before anything changes, held while the account is anything but
theirs, and given up only when they have it back or say that what is there is theirs.
`SessionKitPromise` maps the engine to it: the setup is what a live tree is to the owner,
the copy is the snapshot in the journal while the pointer names it and its phase is not
the last, the mark is what `Status` shows.

### SnapshotStore

`dir[a][s]` is a snapshot's directory (none, temporary, torn, whole, unreadable), `lkg`
and `pointer` and `record` the files that name snapshots. `EnterStep` is Enter from its
preflight to the apply: capture of the kit, journal, pointer, capture of theirs,
last-known-good, the two prunings. `EndStep` and `Answers` end a transaction or answer a
record, also one that does not parse. `StoreFault` is an error, a death at any step, a
removal that is cut short, a snapshot or record that becomes unreadable. A removal that
fails makes `missed` true. Snapshots are numbered in the order they are taken.

### KitGuard

`owner` is who holds each mutex, `proc` each caller's operation and next step, `kit` what
`Status` would report, `login` the account Steam signs in to, `engine` whether it could be
built. `Begin` is every entry point that takes a lock: visits, plain switches, leaving,
the dialog's answers, tray, links, launches with a game, tools, the library, restore,
forgetting an account. `Take` is a lock, and each other action a step between two points
where another caller can come in. `Restart` ends the process; `Fail` is a close, a write
or a launch that does not happen.

### GameConfig

`live` holds each part's files per account (the machine-wide folder once), `inventory`
remotecache.vdf, `library` the saved configs and revert points by age, `op` the operation
under `dotaWriteMu`. `CopyGameConfigBetween`, `ApplyGameConfigSnapshot` and
`UndoGameConfigCopy` start one; `CaptureRevertPoint`, `WritePart`, `RemovePart`, `PutInventory`, the rollback and
`PruneAutoSnapshots` are its steps; saving, naming and deleting are the library's. `CaptureFails`,
`WriteFails`, `RollBackFails` and `ConfigCrash` are its failures; Steam and the game come,
go and write beside it.

### AppLock

On disk: `file` (the key the security file wraps, and whether sessions are encrypted),
`plain` and `blob` (each session's folder and sealed copy), `listed` (ids.json),
`quarantines`, `sealed` (the key of vault.json). In memory: `held`, `vaultLocked`, `busy`,
`shared`, `cached`. Three callers: `job` (set, enable, disable, remove, delete a
quarantine, import), `gate` (locks and unlocks), `call` (the vault's reads and writes). A
lock reads the file first and decides under the mutex; so do the operations. `shared` says
that `removeAppPassword` put its own array into the manager, which a lock then wipes.

### VaultChecks

*State.* `doc[id]` is the vault's entry (there or not, its login and password, token,
`CheckFailures > 0`, `SessionSkips`, whether `NextEligibleAt` has passed, the health
report); `setting` the saved interval of deep checks, zero or not; `vaultOpen`;
`rateLimited` the latch; `lock` who holds `deepMu`; `act[a]` the check in progress of each
goroutine, a user's call or a run of `runScheduler`; `interval` and `handle` the scheduler's
`deepInterval` and `schedCancel`; `stopped` the loops whose context is cancelled; `saver` the
calls of `SaveSteamSettings`.

*Actions.* One per critical section or answer of Steam. A check is `UserCheck` or a
loop's `PickDue`, then `Enter`, `TryLock` or `Busy`, `Recheck`, `ReadEntry`, `Fetch` or
`FetchForSession`, `KeepReport`, `Reread`, `Login` or `SignIn`, `StoreToken`,
`RecordHealth`, `ResetSessionSkips`, `RecordSessionSkip`; `WriteFails` is each of the
writes failing. `DelayOver` to `StopForGood` are `runScheduler` and `schedulerStep`;
`SaveSettings` to `TurnOn` are `SaveSteamSettings`, `ApplyVaultCheckSchedule` and
`ConfigureScheduler`, which take their locks one after another. `Put`, `ClearToken` and
`Delete` are the user's edits, `Lock`, `Unlock` and `Restart` the app's.

*Abstractions to know.* One `mutate` is one step: `VaultDocument` takes it apart. Time is
three events: an account's next check becomes due, its last report becomes an interval
old, a ticker fires. A new loop waits ten minutes before its first tick and a step of an
old one takes at most four; `DelayOver` says this much of real time. A warning counts as
refused; offline mode, the order in which `nextDue` prefers accounts and entries without a
SteamID are left out. A goroutine in the middle goes on with what it had read when the
vault is locked, as in the code.

### VaultDocument, GuardCodes, VaultSignIn

`VaultDocument`: `file` and `cached` are the document on disk and in memory, `writer` who
holds `writeMu`, `at`, `doing` and `own` each call with the document it has read,
`rosters` the import sessions, `handoffs` the bundles written here, `minted` the stand-in
keys of entries without a SteamID. Calls are puts under a stand-in or a SteamID, checks'
recorders, links, deletes, plans and commits of imports, exports, acceptance of bundles
and lists; each is load, change, save the file, store the cache.

`GuardCodes`: mails arrive with a minute; each pre-warm is a goroutine and a slot; a
request takes the warmed code or cancels the warming and reads the inbox itself. A
cancelled fetch ends only between two polls.

`VaultSignIn`: the login from its key to its verdict, each answer of Steam with its HTTP
status, `x-eresult` header and body; `pending`, `channel`, `prompt` and `submitting` are the
request for a typed code on both sides of the window.

### The parts of `app_parts`

| Module | Actions to code |
|---|---|
| `CloseSequence` | `AskToClose` to `Kill` are `closeSequence.run` poll by poll; `AskDelivered`, `AskFails` are the command on its own goroutine; `WriteLogin` is the bare swap's edit after it |
| `SignInWatch` | `Launch`, `CheckAgain` (decide), `Store` (under the lock, if the generation is still current), `ClearWatch`; Steam accepts, rejects, stops, is killed |
| `AppSettings` | load, outside step, save, undo of each setter; `Restart` |
| `UserData` | `StartMove`, `CopyOne`, `SaveSetting`, `WriteNote`, `RestartSelf`, `FinalizeMove`, `RemoveOne`, `GiveUp`; `End` at any step |
| `Commands` | parsing, `Acquire` of the mutex, `ForwardArgs` through the pipe, `DispatchInGUI`, `HandOver`, `RestartWindow`, `GiveUpRestart` |
| `LoginFiles` | one action per record written: loginusers.vdf with its copy, the registry (at once on macOS, two values on Windows), localconfig.vdf; forget, clear; Steam's own rewriting |
| `ProfileRefresh` | `StartSteamProfileRefresh` and its timer, `runProfileRefresh` with its queue of one, an account's goroutine, the page's load, locks |
| `SteamSettings` | `CallBegins`, `ReadsWhole`, `WritesWhole`: whoever changes one setting writes all; what each makes of its copy; game patches; `DetectForSwitch` |
| `TrayRecent` | calls that record, rename, lock or sync; the file in two sections; the rebuild on the main thread |
| `BackupArchives` | an archive file by file, failures in the middle, permission, unpacking and copying of a restore, a kit or Steam that comes and goes |
| `AccountTags` | each call reads ids.json, changes its copy and writes it back, under the service's mutex or, the list and the forgetting, without |

## What is checked

| Run | Bounds | Shows |
|---|---|---|
| `kit_visits` | two parts, two faults, two events | visits with a crash between two parts strand nothing, ask before they overwrite, write only while Steam is closed |
| `kit_crashes` | one part, three faults, two events, Home's part may be found empty | the engine implements `KitPromise`; an answered dialog ends an interruption |
| `kit_store` | cap 3, eight snapshots, three faults | what is named is whole; every record can be answered |
| `kit_guard` | two callers, two accounts, every operation, no bound on anything | exclusion, no deadlock, every call returns |
| `game_config` | two accounts, two choices of parts, cap 1, three snapshots, one failure, one interference | all or none; undo |
| `app_lock` | two sessions, two passwords, one fault, one lock | sessions survive; keys |
| `vault_safety` | one call, two loops, one edit, one fault, two requests | verdicts, the setting, rate limits |
| `vault_eventually` | one call, two loops, one edit, one request, three deferrals | liveness |
| `vault_parts` | two callers with three calls; two mails and warmings; three logins | the document, codes, verdicts |
| `app_parts` | as the cfg says, per part | one or two properties of each part |
| `readers_put_back` | two calls and a lock | violated, see the findings |
| `minutes_reset` | one setter | violated, see the findings |

*Why the bounds are enough.* Two parts are every state between one part and the next,
which is all a pass distinguishes; two or three faults let a recovery fail and be
recovered. Two accounts are the shared one and another. In `kit_guard` two callers are
every pair that can wait for one another, and nobody waits for two; three mutexes and no
counters make it finite by itself. In `kit_store` and `game_config` the cap is small so
that pruning happens on the first or second visit; the store's theorem is for every cap.
In `app_lock` two sessions are the one in hand and one behind or ahead; two passwords are
the current and the one before. In the vault's runs one account is enough: entries share
`deepMu`, the latch and the scheduler, none of which looks at whose check it is; two loops
are what a stop followed by a start leaves. The document's two callers with three calls
between them are a stale holder, a writer and one more to lose something. Parts of
`app_parts` have two callers, two of what they tell apart and two or three events each.

*The properties.*

- `NothingStranded`: without a transaction that could restore it, the account holds no
  kit, no torn tree and no hole, unless the user has said it is theirs.
- `LeaveAsksFirst`: Leave replaces only a tree that is the kit as written or the setup
  as saved; anything else it asks about.
- `WritesOnlyWhenClosed`: the engine changes no part while Steam runs.
- `KeepsThePromise`: every step of the engine, a crash included, is a step of the loan.
- `AnswerUnblocks`: an interrupted transaction does not block switching for ever.
- `NamedIsWhole`, `RecordIsAnswered`: what a transaction or last-known-good names is there
  through every pruning; a record that blocks can be answered, unreadable ones included.
- `KitWritesAlone`, `LoginFollowsKit`, `EveryCallReturns`: one writer of a kit's files;
  the login stays on a live kit's account; no call waits for ever.
- `RolledBackIsAsFound`, `UndoPutsBack`, `OfferedUndoExists`: a copy rolled back, an undo
  done and an undo offered are what they say, unless Steam writes beside them.
- `SessionsSurvive`, `SealedUnderAKey`, `SwitchingKeepsItsKey`, `LockForgets`: each with
  the exceptions it names, which are findings below.
- `VerdictIsCurrent`, `SettingIsHonoured`, `NoSignInOnceLimited`, `WrongPasswordFound`: a
  verdict is about the password stored; the scheduler runs by the setting; no sign-in after
  a rate limit; a wrong password is found.
- `UnrelatedWritesKeep`, `StandInsStayGone`, `SingleUseOnce`, `ImportKeepsWhatIsThere`: a
  write changes its own entry only; a linked or deleted stand-in does not come back; a
  bundle is let in once; an import fills only what is empty when it is committed. Without
  a lock in the middle (`Relocks = FALSE`); `readers_put_back` has one.
- `VerdictIsAFact`, `TypedForThisRequest`, `WarmedForThisSignIn`: a lost or limited request
  is not a broken account; a typed code answers its own request; a warmed code is not
  older than its sign-in.
- `NothingStartsAgain`, `NeverFalselySignedIn`, `TogglesTellTheTruth`, `FilesStay`,
  `LinksOnlySwitch`, `OneAppActs`, `SwitchIsSeen`, `QuietMeansDone`, `HomeIsNotShared`,
  `TagsStay`, `MenuFollows`, `RestoredIsTheArchive`: one or two for each part of the app,
  stated above their definitions.

Each property of a passing run has a mutant: a bug in one definition, in the module above
the definition it replaces, that TLC must find with that property.

*Fairness.* `AnswerUnblocks` assumes weak fairness of the steps of a call in progress
(a goroutine that holds `Engine.mu` keeps running and every step of it returns) and of
the user's answer (the dialog is modal). Faults are bounded in that run: with a crash at
every step nothing ends. `RecordIsAnswered` assumes the same of the store's steps and the
answers. `EveryCallReturns` assumes weak fairness of each caller's steps and strong fairness
of taking a mutex, which Go's mutexes give by handing themselves to a waiter that has
starved. `WrongPasswordFound` assumes that goroutines go on, that timers fire, that the
vault is unlocked in the end, that the ticker meets the moments at which an account is due
(strong fairness of `PickDue`), and that Steam, asked often enough, refuses a wrong
password. Requests by the user are bounded there, and must be: each quiet check postpones
the scheduler's by an interval. A rate limit ends the promise: the property is about a
scheduler that runs.

## What the checks found

Two are runs that expect a violation:

- **A read puts an older document back** (`vault/store.go:158`; `readers_put_back`). A list
  reads vault.json; the app locks and unlocks; another call saves; the list then stores what
  it had read into the cache, and the next write saves that.
- **Every save resets the auto-lock interval** (`platform/settings.go:331`;
  `minutes_reset`). The save normalizes with a list of keys that leaves it out.

The others are properties stated in the modules that the code breaks, or bounds and
constants under which a property of a run fails. Each was checked with the run's own
configuration and the property in place of the run's, or with the change named.

*Session Kit.*

- A part found empty when the kit is captured has no digest, so Leave overwrites what its
  owner has changed in it (`engine.go:641`; `LeaveAsksFirst` with `HomeMayEmpty = TRUE`).
- A part that was an empty directory comes back as none, against `manifest.go:25-28`
  (`sessionkit_dota.go:359`; `RestoreKeepsEmpty`).
- `Resolve(Abandon)` on a transaction interrupted while restoring drops the journal with the
  kit on the account (`recovery.go:164`), and does not close Steam before it rolls back
  (`recovery.go:169`; both with `AnyAnswer = TRUE`). The dialog does not offer Abandon there.
- A manual tool asks whether a kit is live before it waits for `dotaWriteMu`, and can write
  over one that has come meanwhile (`gameconfig.go:799`; `ToolsSpareKits`).
- `ForgetSteamAccount` writes loginusers.vdf without the gate and can undo a swap under a
  live kit (`KitLoginKept`). A game after a swap is started outside the gate
  (`SwappedGamesToo`, against `service.go:937`).
- The command line's forwarded `+s:` runs on the main thread, which a swap in progress may
  be waiting for.

*Login, close, watch.*

- A switch that stopped between the two records is not repaired by asking for it again:
  `SwapToAccount` finds the file's half and writes nothing (`switcher.go:86`;
  `ReportedSwitchIsSeen`; `loginusers.go:218-222` says Steam would sign the other in).
- Forgetting the last account leaves a row in the copy that is read when the file has none
  (`ForgottenIsGone`); a switch to an id without a row clears every mark and reports success.
- After a close by signal with helpers that outstay the client the request may still be in
  flight and start Steam (`NoCloseStartsAgain`). The bare swap writes without looking again
  whether Steam is closed (`LoginWrittenWhenClosed`).
- Were Steam to write ActiveUser before a sign-in is through, an account would be shown as
  signed in that is not (`NeverFalselySignedIn` with `EarlyActive = TRUE`).

*Vault.*

- `DeepCheck` stores its verdict on the password it read up to three minutes before beside
  the one the user has saved since (`verify.go:161`), and brings back an entry that was
  deleted (`entries.go:561`): `VerdictIsCurrent` and `DeletedStaysDeleted` with
  `EditsMidCheck = TRUE`.
- It learns of a 429 in its own lookup from the stored report, which a quick check may have
  replaced (`verify.go:115`; `NoLoginPast429`).
- A quiet check puts off the account's scheduled one by an interval, against its comment and
  test (`scheduler.go:360`; `ScheduleLeftAlone`). Between `nextDue` and `DeepCheck` a check of
  the user's may come and go; the scheduler logs in all the same (`scheduler.go:189`;
  `ScheduledLoginIsDue`). An account it cannot read because the vault was locked is taken for
  one whose schedule moved (`scheduler.go:204`; `NoBlindRelogin` with `LocksVault = TRUE`).
- Of two overlapping saves of the settings the one that read "on" may be the last to apply
  (`service.go:408`; `SettingIsHonoured` with two savers).
- A switch that begins while a request reads the inbox hands out its code twice
  (`NoCodeTwice`); a poll cancelled after it found a mail deletes it and drops the code
  (`NoCodeLost`).
- Where Steam puts its reason in a header of a reply with status 200, as the comments of
  `auth.go:155-197` say it does, `VerdictIsAFact` fails (`HeaderOnOK = TRUE`): the body is
  read as if there were no reason.

*App lock.*

- A vault call under way when the lock falls leaves the document in the cache
  (`LockAlwaysForgets`); so does removing the password (`UnreadableOnceRemoved`).
- A quarantine whose rename failed, or whose import was cut short with ids.json naming the
  session, can lose it (`QuarantinedSurvive`).
- `removeAppPassword` shares its key's array with the manager; a lock of the whole app in
  between makes it zeros, and what is sealed then opens for nobody
  (`NothingSealedUnderZeros`).

*The rest of the app.*

- Tray: a malformed Tray_Users.json that can be repaired is saved under the mutex the load
  holds (`mru.go:64`, `:165`): the call never returns, and at startup (`gui.go:233`) the app
  does not open (`TrayCallsEnd`). An unlock's sync beside a switch drops the account the
  switch recorded (`SyncKeepsRecent`).
- Backup: a failed backup leaves an archive that opens, is the newest and is restored with
  success (`RestoredWasTold`). A backup takes no gate: a kit it saw comes back with a restore
  after it was taken off (`KitStaysOff`). A restore that fails half way is not undone.
- Tags: the list writes over a tag put on meanwhile (`tags.go:466-477`; `TagsOutlastLists`).
  Putting the weekly tag on one account moves its end for all who still carry last week's
  (`service.go:433`; `ClaimIsThisWeeks`).
- Module settings: what detects another build of a game runs on the settings page only, not
  "before a switch" (`sessionkit_modules.go:134-135`; `ChangedGameIsLeftAlone`). A pause set
  by the user is lost to a shortcut or the settings page that read before it
  (`PauseOutlastsOthers`).
- User data: an old folder that could not be removed is copied over what has been written
  since (`user_data_move.go:90-105`; `NewestIsInUse`).
  Files go missing with any of the three `Faults` (`FilesStay`): the process ends after the
  setting is saved and before the note is written, a copy skips a file that is in use, or a
  second move begins while the folder of the first is being removed.
- Settings: two setters that overlap can leave a toggle beside what it switches
  (`TogglesTellTheTruth` with two `Setters`).
- Commands: a command that arrives while a window restarts takes the mutex, and the window
  goes away with no successor (`RestartsComeBack`).
- Profile refresh: a round under way is not stopped by a lock, and a skipped round leaves its
  tiles pending until the next.

## What is proved

Each theorem is for every value of the constants that satisfies its module's `ASSUME`s, and
for any number of calls, faults and events: the bounds live in the MC modules only. A theorem
with a hypothesis has it in its statement. Each hypothesis is what passing runs give the
constant, and none is there for the proof's sake: given the other value, TLC finds a property
of each row violated, and the findings above say what it means for the code.

| Hypothesis | What it switches off | Theorems |
|---|---|---|
| `~AnyAnswer` | answers the recovery dialog never offers | the engine's, but for `TypeCorrect` |
| `~HomeMayEmpty` | a part of Home that is emptied before the kit is captured | `LeaveAsks` |
| one caller in `Savers`, in `Setters` | two answers of the settings page at once | `SettingHonoured`, `OneSetterTellsTheTruth` |
| `~EditsMidCheck` | an edit of an entry while a check of it signs in | `VerdictsAreCurrent`, `DeletedStay` |
| `~EarlyActive` | ActiveUser set before the sign-in is through | `NobodyIsFalselySignedIn` |
| `~HeaderOnOK` | a reason on a reply with a good status | `VerdictsAreFacts` |
| `~Relocks` | the app being unlocked and the document read again | `VaultDocument`'s |
| `Faults = {}` | an end of the process between the settings and the note, a file that a copy skips, a second move too soon | `NoFileGoesMissing` |

`SessionKitProofs`

- `TypeCorrect`: `TypeOK` alone is not inductive, as what `Stage` copies has a type only if
  `at` is a part; `TypeInv` adds that, and that a call that has returned is at no step.
- `EngineWritesOnlyWhenClosed`: `ClosedInv` says that Steam is closed at each step between
  `EnsureClosed` and `LaunchSteam` of every call but Abandon; that Abandon is only at work
  where no setup is saved; that without a saved setup no rollback directory exists; and that
  no pass starts before the setup is saved. The third is needed because Abandon does not close
  Steam: it is harmless only as it finds nothing to undo.
- The rest of the engine follows from `KitInv`, in three layers. `CallInv` says where a call
  can be in which phase of the journal. `PassInv` says what a pass has done: the parts behind
  it are as its source has them, those ahead untouched, and a part's state in the journal says
  which of the two renames is over. `LoanInv` says what the trees are to their owner: the saved
  snapshot is theirs, a rollback would give back what was saved, and what a call reports as
  given back is. From it `NothingIsStranded`, `SnapshotStaysTheirs`, `RestoresAreExact`,
  `KitLandsFirst`, `KeptKitIsReal` and `LeaveReplacesOnlyTheKit`. `LeaveAsks` needs `AskInv`
  besides: between the check for changes and the pass of Leave nobody writes the account.
- `EngineKeepsThePromise`: `SessionKit` implements `KitPromise`. Every initial state maps to an
  initial state; under `KitInv` every action of the engine, of the faults and of the world maps
  to a step of the loan or leaves it as it is. The mapping is the one of `SessionKitPromise`.

`VaultChecksProofs`

- `VaultTypeCorrect`, with two bounds among the types: `skips` and `deferred` stay in range
  because every place that counts one looks at it first.
- `NeverTwoSignIns` and `NoneOnceLimited` rest on `Apart`, three parts for each goroutine: a
  check at a step under `deepMu` is of a kind that takes it; a goroutine at such a step holds
  it; one past `Recheck`, not yet signing in, meets an unset latch. The third is why the latch
  is looked at a second time, under the lock.
- `SettingHonoured` from `Running`: a loop on its way is the one the handle names or is
  cancelled, and what the one change in progress carries is what is saved, or "off".
- `VerdictsAreCurrent` and `DeletedStay` from `Current`: what a check has read, and what it is
  about to store, is about the login and password of the entry as it is.
- `DeferralsBounded` from `Deferrals`: the stored count of skips is never behind what happened,
  and from a login to the reset of the count, all under `deepMu`, nobody defers.
  `FailuresStick` is about a step: no action but an accepted login clears an account's backoff.

`SnapshotStoreProofs`

- `NothingNamedIsPruned`: `StoreSpec => []NamedIsWhole`, for every cap, also one smaller than
  what is protected. `Inv` adds what the call has in hand: its two snapshots are whole from
  their commit on, and the journal on disk names what the call has, but for the step that has
  just saved their setup and not recorded it; there the snapshot is the newest and no pointer
  reaches it. `DoomedIsHarmless` is the heart: what a pruning removes is disjoint from what
  is protected.
- `LastKnownGoodIsNewest`: the last-known-good pointer only advances.

`KitGuardProofs`

- `LocksHeld`: every mutex is held by the caller whose step says so. From it `SwapsExclude`
  (one switch, bare swap or restore at a time while there is an engine),
  `KitFilesHaveOneWriter`, and `NobodyStuck`: the caller that waits for the last mutex in the
  order waits for one that runs.
- `LoginStaysWithKit` and `GamesStartInside` rest on `KitInv`: what a swap read of the kit
  when it took the engine is still so at each of its steps, because whoever changes the kit
  holds the engine.

`AppLockProofs`

- One invariant, `LockInv`, for the six theorems: the types; `JobInv`, what each step of a job
  that seals, clears or extracts the sessions has left to do and which of the two key files and
  which key it works with; `KeyInv`, which key the manager holds at each step of a lock, a
  removal or a latched call; and `SessionInv`, that a session with a torn copy has a whole one
  beside it, and which. `SessionsAlwaysSurvive` is over every crash and every failed write;
  `NothingSealedUnderNoKey`, `SwitchingAlwaysKeepsItsKey` and `LocksForget` have the exceptions
  in the property, where each names the interleaving that the findings tell of.
  `LatchHoldsKey`: an operation under its latch holds the key it works with.

`SettingsFilesProofs`

- `OneSetterTellsTheTruth`: with one call at a time. The invariant says what the file, the copy
  in memory and the outside (registry, images, links) may differ in at each step of the call in
  hand, its undo included; between calls it is that they agree.
- `HomeStaysApart`: although calls that write the file overlap and changes are lost, Home is
  never shared. Every call writes what it made of one whole copy and checked against that same
  copy, so the invariant is that the file and every copy in hand are sound.
- `TagsAlwaysStay`: calls of the basic service exclude one another, so the copy that such a call
  has in hand is the file, until a list or a forgetting, which hold another lock, wrote across.
- `RollbacksAreComplete`, `UndosPutBack` and `OfferedUndosExist` from `GameInv`: a revert point
  holds or found empty just the parts it was taken of; of the operation in hand, the parts not
  touched yet are as it found them, those an undo has behind it are as they once were, and the
  point it offers is the newest, which pruning never takes while the cap is not zero. An undo
  carries what it needs with it, so that its own point may be pruned by the one it takes.
  `SavedConfigsStay` is about a step, and needs that a new snapshot's number is nobody's.

`AppPartsProofs`, for each part its own invariant:

- `NothingEverStartsAgain`: the command that asks Steam to close ends within its own timeout,
  which is shorter than the wait for it.
- `OneAppAtATime`: who acts as the app has the mutex. `LinksAlwaysOnlySwitch`: a request that
  has a link in it is of one argument, so that no induction over the arguments is needed to say
  what it was read as; whatever is asked, sent or carried out for a link stays that.
- `WrittenSwitchIsSeen`: what a switch has written so far is so, while nobody else writes.
- `NobodyIsFalselySignedIn`: the evidence a watch holds is of its own launch.
- `QuietIsAlwaysDone`: until the app is locked, what no coming round will see has been seen.
- `MenuAlwaysFollows`: a menu behind the lock or the file has a rebuild coming, or a call that
  has it still to ask for.
- `NoFileGoesMissing`: the folder that is set, and the one in use, hold every file at every
  moment, and what is removed is neither.
- `RestoresAreTheArchive`: the files behind the one in hand are the archive's.

`VaultPartsProofs`

- `VerdictsAreFacts` from `SignInv`: a login gets past the password only when it is right, and
  an error that is kept for later says nothing of the account. `CodesAnswerTheirRequest`: a
  prompt's answer is taken for the request that waits, or thrown away.
- `WarmedIsForThisSignIn`: the pre-warm in the slot has an anchor no earlier than the sign-in
  that is declared, and what a pre-warm found is no older than its anchor lets through.
- `UnrelatedStays`, `StandInsAlwaysStayGone`, `SingleUseIsOnce`, `ImportsKeep` and
  `CacheStaysSaved` from `DocumentInv`: a call that saves holds `writeMu` and has read the file
  as it is, and the cache is empty, or the file, or about to be made so by the caller that
  holds `writeMu`. That makes each save one change of the file; each theorem then says what
  that change may be.

Model-checked only:

- every liveness property (`EveryCallReturns`, `AnswerUnblocks`, `RecordIsAnswered`,
  `WrongPasswordFound`): the provers have no rule for fairness;
- the type invariants of the modules whose inductive invariant needs only
  some of the types.

## Plan

The modules and most of the proofs of the plan are done. What is left, in order:

1. Proofs: the safety half of the liveness properties (what a record or a request in waiting
   is never without), the properties stated in the modules and left out of the runs
   (`ExportIsAllOrNothing`, `RostersForgotten`), and the types of the
   small modules.
2. `SessionKit` with several modules in one plan and the cloud-risk checks.
3. `VaultChecks` over `VaultDocument`'s cache instead of one step per `mutate`, and the
   mailbox behind a deep check's login.
4. Larger instances of `game_config` (two failures) outside the runs.

## Not modelled

Text formats (VDF, XML, CSV rosters, JSON) beyond what the properties tell apart,
cryptography (a key opens what was sealed under it), the wire formats of mail and of Steam,
images and mini profiles, statistics, logging, the updater, icons and shortcuts' files, the
operating system layer below "this process runs" and "this file is replaced", and the
frontend beyond what a page may ask for. These are pure input and output, or sequential, or
outside what an interleaving could change.

Parts listed as `partly` in `PROJECT.json` say there what of them is left out.

## Running

`tlc -config KitVisits.cfg MCSessionKit.tla`, and so on with the module and configuration
`PROJECT.json` names for each run (`MCSessionKit` for `KitVisits` and `KitCrashes`,
`MCSnapshotStore`, `MCKitGuard`, `MCGameConfig`, `MCAppLock`, `MCVaultChecks`,
`MCVaultDocument` for `ReadersPutBack`, `MCVaultParts`, `MCAppParts`, and the module itself
for `MinutesReset`); each takes at most a few minutes. `tlapm SessionKitProofs.tla` and so on
for the eight proof modules; each takes at most a few minutes.

Each module states a type invariant, which holds under the configuration of its run; the
runs leave it out. For `SessionKit`, `VaultChecks` and `AppLock` it is a theorem, and the
other inductive invariants have the types they need among their conjuncts.
