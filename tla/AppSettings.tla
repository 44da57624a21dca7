------------------------------ MODULE AppSettings ------------------------------
(***************************************************************************)
(* The app's own settings (internal/platform/settings.go,                  *)
(* service_settings_setters.go, settings_batch.go, background.go): one     *)
(* JSON file, a copy of it in memory, and what a setting switches on or    *)
(* off outside the file: outgoing requests, the registered link scheme and *)
(* the background image.                                                   *)
(*                                                                         *)
(* A setter loads the copy, changes a field and saves the whole.  Those of *)
(* PlatformService do so under its mutex; the Steam service saves the same *)
(* settings under locks of its own.  A save or an outside step may fail,   *)
(* and the process may end between any two steps.                          *)
(***************************************************************************)
EXTENDS Integers

CONSTANTS Setters,         \* goroutines that answer the frontend's calls
          DefaultMinutes,  \* DefaultVaultAutoLockMinutes
          MaxEnds          \* bound: how often the process ends

ASSUME SettingsAssumption == DefaultMinutes \in Nat \ {0} /\ MaxEnds \in Nat

VARIABLES disk,        \* the settings file
          cache,       \* settingsCache.settings
          lock,        \* who holds PlatformService.mu
          call,        \* what each setter is doing
          offline,     \* appclient's switch
          scheme,      \* the link scheme is registered
          images,      \* the background files there are
          chosen,      \* the auto-lock minutes somebody saved last; -1 for none (history)
          astray,      \* an undo failed, or the process ended, in the middle of a change (history)
          ends

settingsVars == <<disk, cache, lock, call, offline, scheme, images, chosen, astray, ends>>

Free == "nobody"
Absent == -1                                  \* a key that is not in the file
Minutes == {0, DefaultMinutes, DefaultMinutes + 1}   \* 0 is "never"
Images == {"png", "jpg"}                      \* a background is stored under its extension
Kinds == {"offline", "batch", "scheme", "minutes", "folder", "image", "noImage"}
Settings == [minutes : Minutes, offline : BOOLEAN, scheme : BOOLEAN, image : Images \cup {"none"}]

Default == [minutes |-> DefaultMinutes, offline |-> FALSE, scheme |-> FALSE, image |-> "none"]
NoCall == [kind |-> "none", step |-> "idle"]

\* normalizeAppSettingsDefaults: a key the file does not hold gets its default.
Normalized(s, keys) == [s EXCEPT !.minutes = IF "minutes" \in keys THEN @ ELSE DefaultMinutes]

\* Read from the file, which leaves out a zero.
FromDisk(d) ==
    IF d.minutes = Absent THEN Normalized([d EXCEPT !.minutes = 0], {}) ELSE Normalized(d, {"minutes"})
ToDisk(s) == [s EXCEPT !.minutes = IF @ = 0 THEN Absent ELSE @]

\* What a save writes and remembers.  It normalizes too, and says of two keys that they are there:
\* animationsEnabled and statsEnabled.
KeysOfSave == {"animations", "stats"}
Saved(s) == Normalized(s, KeysOfSave)

SettingsInit ==
    /\ disk = ToDisk(Default) /\ cache = Default
    /\ lock = Free
    /\ call = [c \in Setters |-> NoCall]
    /\ offline = FALSE /\ scheme = FALSE /\ images = {}
    /\ chosen = -1 /\ astray = FALSE /\ ends = 0

SettingsTypeOK ==
    /\ cache \in Settings /\ FromDisk(disk) \in Settings
    /\ lock \in Setters \cup {Free}
    /\ \A c \in Setters : call[c].kind \in Kinds \cup {"none"}
    /\ {offline, scheme, astray} \subseteq BOOLEAN
    /\ images \subseteq Images
    /\ chosen \in Minutes \cup {-1}

At(c, step) == call[c].step = step
Goes(c, step) == call' = [call EXCEPT ![c].step = step]
Done(c) == call' = [call EXCEPT ![c] = NoCall]
LetsGo(c) == lock' = IF lock = c THEN Free ELSE lock

----------------------------------------------------------------------------
(* A setter.                                                               *)

\* previous is what the toggle shows when the call begins.  Registering comes before the setting;
\* the rest begins under the mutex.
Call(c, kind, value) ==
    /\ At(c, "idle")
    /\ call' = [call EXCEPT ![c] = [kind |-> kind, value |-> value, previous |-> cache.scheme, copy |-> cache,
                                    step |-> IF kind = "scheme" THEN "apply" ELSE "load"]]
    /\ UNCHANGED <<disk, cache, lock, offline, scheme, images, chosen, astray, ends>>

\* changeProtocol: the registry first.
ApplyScheme(c, ok) ==
    /\ At(c, "apply")
    /\ IF ok THEN scheme' = call[c].value /\ Goes(c, "load")
       ELSE Done(c) /\ UNCHANGED scheme
    /\ UNCHANGED <<disk, cache, lock, offline, images, chosen, astray, ends>>

\* withSettingsWrite and the setters written out in full.  "folder" is the Steam service's, which
\* does not take this mutex.
TakesLock(kind) == kind # "folder"

Load(c) ==
    /\ At(c, "load")
    /\ IF TakesLock(call[c].kind) THEN lock = Free /\ lock' = c ELSE UNCHANGED lock
    /\ call' = [call EXCEPT ![c].copy = cache,
                            ![c].step = IF call[c].kind \in {"image", "noImage"} THEN "clear" ELSE "save"]
    /\ UNCHANGED <<disk, cache, offline, scheme, images, chosen, astray, ends>>

\* bgClearFiles, then the rename of what was copied in; the settings are loaded after that.
GoesReloaded(c, step) == call' = [call EXCEPT ![c].step = step, ![c].copy = cache]

ClearImages(c) ==
    /\ At(c, "clear")
    /\ images' = {}
    /\ GoesReloaded(c, IF call[c].kind = "image" THEN "install" ELSE "save")
    /\ UNCHANGED <<disk, cache, lock, offline, scheme, chosen, astray, ends>>

InstallImage(c, ok) ==
    /\ At(c, "install")
    /\ IF ok THEN images' = {call[c].value} /\ GoesReloaded(c, "save") /\ UNCHANGED <<lock, astray>>
       ELSE Done(c) /\ LetsGo(c) /\ astray' = TRUE /\ UNCHANGED images
    /\ UNCHANGED <<disk, cache, offline, scheme, chosen, ends>>

Changed(k) ==
    CASE k.kind \in {"offline", "batch"} -> [k.copy EXCEPT !.offline = k.value]
      [] k.kind = "scheme" -> [k.copy EXCEPT !.scheme = k.value]
      [] k.kind = "minutes" -> [k.copy EXCEPT !.minutes = k.value]
      [] k.kind = "image" -> [k.copy EXCEPT !.image = k.value]
      [] k.kind = "noImage" -> [k.copy EXCEPT !.image = "none"]
      [] k.kind = "folder" -> k.copy

\* The file, then the copy in memory; the mutex is let go, save in the batch setter, which
\* switches under it.
Save(c) ==
    /\ At(c, "save")
    /\ cache' = Saved(Changed(call[c]))
    /\ disk' = ToDisk(cache')
    /\ chosen' = IF call[c].kind = "minutes" THEN call[c].value ELSE chosen
    /\ IF call[c].kind \in {"offline", "batch"} THEN Goes(c, "switch") ELSE Done(c)
    /\ IF call[c].kind = "batch" THEN UNCHANGED lock ELSE LetsGo(c)
    /\ UNCHANGED <<offline, scheme, images, astray, ends>>

\* A mutant: the outside is left as it was put when the setting could not be saved.
NeverUndoes(k) == FALSE

\* Registering again what was registered is not undone.
Undoes(k) == k.kind = "scheme" /\ k.value # k.previous

SaveFails(c) ==
    /\ At(c, "save")
    /\ IF Undoes(call[c]) THEN Goes(c, "undo") ELSE Done(c)
    /\ LetsGo(c)
    /\ astray' = (astray \/ call[c].kind \in {"image", "noImage"})
    /\ UNCHANGED <<disk, cache, offline, scheme, images, chosen, ends>>

UndoScheme(c, ok) ==
    /\ At(c, "undo")
    /\ scheme' = IF ok THEN ~call[c].value ELSE scheme
    /\ astray' = (astray \/ ~ok)
    /\ Done(c)
    /\ UNCHANGED <<disk, cache, lock, offline, images, chosen, ends>>

SwitchOffline(c) ==
    /\ At(c, "switch")
    /\ offline' = call[c].value
    /\ Done(c) /\ LetsGo(c)
    /\ UNCHANGED <<disk, cache, scheme, images, chosen, astray, ends>>

\* The process ends and starts again: the file is read, and requests are switched by it.
Restart ==
    /\ ends < MaxEnds
    /\ ends' = ends + 1
    /\ cache' = FromDisk(disk) /\ offline' = disk.offline
    /\ lock' = Free /\ call' = [c \in Setters |-> NoCall]
    /\ astray' = (astray \/ \E c \in Setters : ~At(c, "idle"))
    /\ UNCHANGED <<disk, scheme, images, chosen>>

Calls(c) ==
    \/ \E kind \in {"offline", "batch", "scheme"}, v \in BOOLEAN : Call(c, kind, v)
    \/ \E m \in Minutes : Call(c, "minutes", m)
    \/ \E i \in Images : Call(c, "image", i)
    \/ \E kind \in {"folder", "noImage"} : Call(c, kind, FALSE)

SettingsNext ==
    \/ \E c \in Setters :
          \/ Calls(c) \/ Load(c) \/ ClearImages(c) \/ Save(c) \/ SaveFails(c) \/ SwitchOffline(c)
          \/ \E ok \in BOOLEAN : ApplyScheme(c, ok) \/ InstallImage(c, ok) \/ UndoScheme(c, ok)
    \/ Restart

SettingsSpec == SettingsInit /\ [][SettingsNext]_settingsVars

----------------------------------------------------------------------------
(* What the settings page relies on.                                       *)

Quiet == \A c \in Setters : At(c, "idle")

\* Between calls every toggle says what is so: requests are off when the setting says so, the
\* scheme is registered when the setting says so and the background named is there, through
\* failed saves, failed steps and restarts, unless an undo failed too or a change was cut short
\* (service_settings_setters.go:192-195).
TogglesTellTheTruth ==
    Quiet /\ ~astray => /\ offline = cache.offline
                        /\ scheme = cache.scheme
                        /\ cache.image # "none" => cache.image \in images

\* The auto-lock interval somebody chose is the one in force (settings_vault_test.go:71-72).
\* Every save breaks it: the save normalizes with a list of keys that leaves this one out.
ChosenMinutesStay == Quiet /\ chosen # -1 => cache.minutes = chosen
=============================================================================
