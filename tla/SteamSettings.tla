----------------------------- MODULE SteamSettings -----------------------------
(***************************************************************************)
(* SteamSettings.json and those who write it (internal/steam: settings.go, *)
(* roles.go, account_label.go, sessionkit_modules.go, launch_bridge.go;    *)
(* internal/shortcuts/store.go; SteamSettings.svelte).  The file holds the *)
(* Home account, the accounts shared with others, whether a game's module  *)
(* is paused, and the rest.  Everybody who changes one of these reads the  *)
(* whole file, changes his part and writes the whole back, some under      *)
(* SteamService.mu and some under nothing.                                 *)
(*                                                                         *)
(* A module is paused by the user, or when the list of modules finds that  *)
(* the game's files have moved since a self-test last passed.              *)
(***************************************************************************)
EXTENDS Naturals, FiniteSets

CONSTANTS RoleIds,     \* accounts
          NoHome,      \* no Home account is set
          Writers,     \* calls that may be in progress at once
          MaxPatches,  \* bound: game patches
          MaxWrites    \* bound: calls in a behaviour

ASSUME SteamSettingsAssumption ==
    /\ NoHome \notin RoleIds /\ IsFiniteSet(Writers) /\ {MaxPatches, MaxWrites} \subseteq Nat

VARIABLES stored,      \* SteamSettings.json
          layout,      \* the fingerprint of the game's files
          writing,     \* each writer's call: what, its next step, what it read
          shown,       \* what the card of the module shows: paused or not
          begun,
          alone,       \* no two calls have overlapped (history)
          byHand,      \* the user paused the module and has not resumed it (history)
          usedUnknown  \* a switch took the module along over files no self-test knows (history)

steamSettingsVars == <<stored, layout, writing, shown, begun, alone, byHand, usedUnknown>>

Defaults == [home |-> NoHome, shared |-> {}, paused |-> FALSE, byChange |-> FALSE, good |-> 0, rest |-> 0]
NotWriting == [op |-> "none", step |-> "none", id |-> NoHome, copy |-> Defaults, saw |-> 0]

\* What holds SteamService.mu from before the read to after the write: roles and labels.
Serviced == {"home", "share", "unshare", "label"}
\* What takes no lock, or another for each half: a shortcut, the folder, the settings page; the modules.
Others == {"rest", "page", "pause", "resume", "modules", "test"}
SettingsCalls == Serviced \cup Others

SteamSettingsInit ==
    /\ stored \in {Defaults, [Defaults EXCEPT !.good = 1]}
    /\ layout = 1
    /\ writing = [w \in Writers |-> NotWriting]
    /\ shown = FALSE /\ begun = 0
    /\ alone = TRUE /\ byHand = FALSE /\ usedUnknown = FALSE

SteamSettingsTypeOK ==
    /\ stored.home \in RoleIds \cup {NoHome} /\ stored.shared \subseteq RoleIds
    /\ {stored.paused, stored.byChange, shown} \subseteq BOOLEAN
    /\ stored.good \in 0..MaxPatches + 1 /\ layout \in 1..MaxPatches + 1
    /\ \A w \in Writers : writing[w].op \in SettingsCalls \cup {"none"}

----------------------------------------------------------------------------
(* What each call makes of what it read.                                   *)

\* autoPauseNeeded: only for files a self-test has known.
AutoPauseNeeded(s, fingerprint) == ~s.paused /\ s.good # 0 /\ fingerprint # s.good

\* ListGameModules: pauses the module where it has to.
AutoPaused(s, fingerprint) ==
    IF AutoPauseNeeded(s, fingerprint) THEN [s EXCEPT !.paused = TRUE, !.byChange = TRUE] ELSE s

\* SetGameModulePaused.
SetPaused(s, paused) == [s EXCEPT !.paused = paused, !.byChange = paused /\ @]

\* RunGameModuleSelfTest: a pause that the user set is left alone.
LiftsItsOwn(s) == IF s.byChange THEN [s EXCEPT !.paused = FALSE, !.byChange = FALSE] ELSE s

\* A mutant: neither looks at what the other wrote.
AllowedToAll(op, id, s) == TRUE

\* RunGameModuleSelfTest: it passes with a Home account only, and what it saw is older than what it read.
SelfTested(s, saw) == IF s.home = NoHome THEN s ELSE [LiftsItsOwn(s) EXCEPT !.good = saw]

\* SetHomeAccount and SetAccountShared refuse an account that would be both.
Allowed(op, id, s) ==
    /\ op = "home" => id \notin s.shared
    /\ op = "share" => id # s.home

WithRole(op, id, s) ==
    CASE op = "home"    -> [s EXCEPT !.home = id]
      [] op = "share"   -> [s EXCEPT !.shared = @ \cup {id}]
      [] op = "unshare" -> [s EXCEPT !.shared = @ \ {id}]

\* Labels, shortcuts, the folder and the settings page, which takes over what it owns alone.
WithRest(s) == [s EXCEPT !.rest = 1 - @]

EditedCopy(op, id, s, saw, now) ==
    CASE op \in {"home", "share", "unshare"} -> WithRole(op, id, s)
      [] op \in {"label", "rest", "page"} -> WithRest(s)
      [] op \in {"pause", "resume"} -> SetPaused(s, op = "pause")
      [] op = "modules" -> AutoPaused(s, now)
      [] op = "test" -> SelfTested(s, saw)

----------------------------------------------------------------------------
StepOf(w, step) == writing[w].step = step
ServiceMutexFree == \A w \in Writers : writing[w].op \notin Serviced

\* The card's button asks for the opposite of what the card shows.
CallBegins(w, op, id) ==
    /\ StepOf(w, "none") /\ begun < MaxWrites
    /\ op \in Serviced => ServiceMutexFree
    /\ op \in {"share", "unshare"} => id # NoHome
    /\ op \notin {"home", "share", "unshare"} => id = NoHome
    /\ op = "pause" => ~shown
    /\ op = "resume" => shown
    /\ writing' = [writing EXCEPT ![w] = [op |-> op, step |-> "read", id |-> id, copy |-> Defaults, saw |-> layout]]
    /\ begun' = begun + 1
    /\ alone' = (alone /\ \A v \in Writers : StepOf(v, "none"))
    /\ UNCHANGED <<stored, layout, shown, byHand, usedUnknown>>

\* LoadSettings; GetSteamSettings takes the mutex for the read alone.
ReadsWhole(w) ==
    /\ StepOf(w, "read")
    /\ writing[w].op = "page" => ServiceMutexFree
    /\ writing' = [writing EXCEPT ![w].step = "write", ![w].copy = stored]
    /\ UNCHANGED <<stored, layout, shown, begun, alone, byHand, usedUnknown>>

\* SaveSettings, or nothing where the call is refused.
WritesWhole(w) ==
    /\ StepOf(w, "write")
    /\ writing[w].op = "page" => ServiceMutexFree
    /\ LET call == writing[w]
       IN  /\ IF Allowed(call.op, call.id, call.copy)
              THEN stored' = EditedCopy(call.op, call.id, call.copy, call.saw, layout)
              ELSE UNCHANGED stored
           /\ shown' = IF call.op \in {"modules", "pause", "resume", "test"} THEN stored'.paused ELSE shown
           /\ byHand' = CASE call.op = "pause" -> TRUE
                          [] call.op = "resume" -> FALSE
                          [] OTHER -> byHand
    /\ writing' = [writing EXCEPT ![w] = NotWriting]
    /\ UNCHANGED <<layout, begun, alone, usedUnknown>>

\* The file cannot be read or written, or the app ends.
CallFails(w) ==
    /\ ~StepOf(w, "none")
    /\ writing' = [writing EXCEPT ![w] = NotWriting]
    /\ UNCHANGED <<stored, layout, shown, begun, alone, byHand, usedUnknown>>

\* platform.ResetSettings.
ResetToDefaults ==
    /\ begun < MaxWrites /\ begun' = begun + 1
    /\ stored' = Defaults /\ byHand' = FALSE
    /\ alone' = (alone /\ \A v \in Writers : StepOf(v, "none"))
    /\ UNCHANGED <<layout, writing, shown, usedUnknown>>

\* Steam installs another build of the game.
GamePatched ==
    /\ layout <= MaxPatches /\ layout' = layout + 1
    /\ UNCHANGED <<stored, writing, shown, begun, alone, byHand, usedUnknown>>

\* pausableModule.Detect, by which a switch asks whether to take the module along: the pause that
\* is stored, and not where the files are.
Paused(s) == s.paused
DetectForSwitch ==
    /\ usedUnknown' = (usedUnknown \/ (~Paused(stored) /\ stored.good \notin {0, layout}))
    /\ UNCHANGED <<stored, layout, writing, shown, begun, alone, byHand>>

SteamSettingsNext ==
    \/ \E w \in Writers :
          \/ \E op \in SettingsCalls, id \in RoleIds \cup {NoHome} : CallBegins(w, op, id)
          \/ ReadsWhole(w) \/ WritesWhole(w) \/ CallFails(w)
    \/ ResetToDefaults \/ GamePatched \/ DetectForSwitch

SteamSettingsSpec == SteamSettingsInit /\ [][SteamSettingsNext]_steamSettingsVars

----------------------------------------------------------------------------
\* Home is nobody else's: however calls overlap, under one lock, another or none, and whoever's
\* change is lost, the file on disk never names an account that is Home and shared (roles.go:19-21).
HomeIsNotShared == stored.home \notin stored.shared

\* A pause the user set ends when the user ends it, whatever patches, lists and self-tests there are
\* in between; as long as no two calls overlap (sessionkit_modules.go:400-405).
PausedByHandStays == alone /\ byHand => stored.paused

\* The same when calls overlap.  It fails: a shortcut, or the settings page, writes back what it read
\* before the pause.
PauseOutlastsOthers == byHand => stored.paused

\* A switch takes the module along over files that a self-test has known, if there was one, and over
\* no others.  It fails: nothing but the page with the modules compares them.
ChangedGameIsLeftAlone == ~usedUnknown
=============================================================================
