------------------------ MODULE SettingsFilesProofs ------------------------
(***************************************************************************)
(* What is proved of the settings the app keeps in files and changes by    *)
(* reading, editing and writing them whole: the app's own, the kit         *)
(* module's and the tags on accounts; and of copying a game's settings     *)
(* between accounts.  Each section has the inductive invariant of its      *)
(* part, the lemmas it needs, and the theorem.                             *)
(***************************************************************************)
EXTENDS AppSettings, SteamSettings, AccountTags, GameConfig, SequenceTheorems,
        FiniteSetTheorems, TLAPS

-----------------------------------------------------------------------------
(* The app's settings, with one setter at a time.                          *)

DiskSettings == [minutes : Minutes \cup {Absent}, offline : BOOLEAN, scheme : BOOLEAN,
                 image : Images \cup {"none"}]

\* A call by its kind: the steps it takes and the value it sets.
SettingCalls ==
    {k \in [kind : Kinds, value : BOOLEAN \cup Minutes \cup Images, previous : BOOLEAN, copy : Settings,
            step : {"apply", "load", "clear", "install", "save", "switch", "undo"}] :
        /\ k.step \in {"apply", "undo"} => k.kind = "scheme"
        /\ k.step = "switch" => k.kind \in {"offline", "batch"}
        /\ k.step = "clear" => k.kind \in {"image", "noImage"}
        /\ k.step = "install" => k.kind = "image"
        /\ k.kind \in {"offline", "batch", "scheme"} => k.value \in BOOLEAN
        /\ k.kind = "minutes" => k.value \in Minutes
        /\ k.kind = "image" => k.value \in Images}

SettingsShape ==
    /\ cache \in Settings /\ disk \in DiskSettings
    /\ {offline, scheme, astray} \subseteq BOOLEAN /\ images \subseteq Images
    /\ call \in [Setters -> SettingCalls \cup {NoCall}]

\* Where a call has changed the outside and the setting does not say so yet, or the reverse.
SchemeAhead(k) == k.kind = "scheme" /\ k.step \in {"load", "save", "undo"}
ImageAhead(k) == k.kind \in {"image", "noImage"} /\ k.step \in {"install", "save"}

\* The file says what the copy in memory says.
FileAgrees == disk.offline = cache.offline /\ disk.scheme = cache.scheme /\ disk.image = cache.image

\* Of the call k, when no other is in progress.
OfflineTold(k) == IF k.step = "switch" THEN k.value = cache.offline ELSE offline = cache.offline

SchemeTold(k) ==
    /\ IF SchemeAhead(k) THEN scheme = k.value ELSE scheme = cache.scheme
    /\ SchemeAhead(k) \/ k.step = "apply" => k.previous = cache.scheme
    /\ k.step = "undo" => k.value # k.previous

ImageTold(k) ==
    /\ ~ImageAhead(k) => (cache.image # "none" => cache.image \in images)
    /\ k.kind = "image" /\ k.step = "save" => images = {k.value}

\* The invariant, when c is the only setter.
SettingsToldInv(c) ==
    /\ SettingsShape /\ FileAgrees
    /\ call[c].step = "save" => call[c].copy = cache
    /\ ~astray => OfflineTold(call[c]) /\ SchemeTold(call[c]) /\ ImageTold(call[c])

\* Reading and writing the file keeps everything but the minutes.
LEMMA FileKeeps ==
    /\ \A s \in Settings : /\ Saved(s) \in Settings /\ ToDisk(s) \in DiskSettings
                           /\ \A t \in {Saved(s), ToDisk(s)} :
                                 t.offline = s.offline /\ t.scheme = s.scheme /\ t.image = s.image
    /\ \A d \in DiskSettings : LET t == FromDisk(d)
                               IN t \in Settings /\ t.offline = d.offline /\ t.scheme = d.scheme /\ t.image = d.image
BY SettingsAssumption
   DEF Settings, DiskSettings, Saved, KeysOfSave, Normalized, ToDisk, FromDisk, Minutes, Absent

\* What a call makes of the copy it has loaded.
LEMMA ChangedKeeps ==
    ASSUME NEW k \in SettingCalls
    PROVE  LET s == Changed(k)
           IN  /\ s \in Settings
               /\ s.offline = IF k.kind \in {"offline", "batch"} THEN k.value ELSE k.copy.offline
               /\ s.scheme = IF k.kind = "scheme" THEN k.value ELSE k.copy.scheme
               /\ s.image = IF k.kind = "image" THEN k.value ELSE IF k.kind = "noImage" THEN "none" ELSE k.copy.image
BY DEF Changed, SettingCalls, Settings, Kinds

\* The toggles start out telling the truth.
LEMMA ToldInitially == ASSUME NEW c, Setters = {c}, SettingsInit PROVE SettingsToldInv(c)
<1>1. Default \in Settings BY DEF Default, Settings, Minutes
<1>2. /\ ToDisk(Default) \in DiskSettings
      /\ ToDisk(Default).offline = FALSE /\ ToDisk(Default).scheme = FALSE /\ ToDisk(Default).image = "none"
  BY <1>1, FileKeeps DEF Default
<1>3. cache.offline = FALSE /\ cache.scheme = FALSE /\ cache.image = "none"
  BY DEF SettingsInit, Default
<1>4. call[c].step = "idle" /\ call[c].kind = "none"
  BY DEF SettingsInit, NoCall
<1>5. SettingsShape
  BY <1>1, <1>2 DEF SettingsInit, SettingsShape
<1> QED
  BY <1>2, <1>3, <1>4, <1>5
     DEF SettingsInit, SettingsToldInv, FileAgrees, OfflineTold, SchemeTold, ImageTold, SchemeAhead, ImageAhead

\* Every step of a call, with no other call in progress, keeps the invariant.
LEMMA ToldStep ==
    ASSUME NEW c, Setters = {c}, SettingsToldInv(c), [SettingsNext]_settingsVars
    PROVE  SettingsToldInv(c)'
<1>0. NoCall.step = "idle" /\ NoCall.kind = "none"
  BY DEF NoCall
<1>00. c \in Setters /\ call[c] \in SettingCalls \cup {NoCall} /\ DOMAIN call = Setters
  BY DEF SettingsToldInv, SettingsShape
<1> DEFINE k == call[c]
           n == call'[c]
           InCall == k \in SettingCalls
<1>1. ASSUME NEW x \in SettingCalls \cup {NoCall}, call' = [call EXCEPT ![c] = x],
             cache' \in Settings, disk' \in DiskSettings,
             {offline', scheme', astray'} \subseteq BOOLEAN, images' \subseteq Images
      PROVE  SettingsShape' /\ n = x
  BY <1>1, <1>00 DEF SettingsToldInv, SettingsShape
<1>2. k.step # "idle" => k \in SettingCalls
  BY <1>0, <1>00
<1>3. ASSUME NEW kind \in Kinds, NEW value \in BOOLEAN \cup Minutes \cup Images,
             kind \in {"offline", "batch", "scheme"} => value \in BOOLEAN,
             kind = "minutes" => value \in Minutes, kind = "image" => value \in Images,
             Call(c, kind, value)
      PROVE  SettingsToldInv(c)'
  <2> DEFINE x == [kind |-> kind, value |-> value, previous |-> cache.scheme, copy |-> cache,
                   step |-> IF kind = "scheme" THEN "apply" ELSE "load"]
  <2>1. call' = [call EXCEPT ![c] = x] /\ UNCHANGED <<disk, cache, offline, scheme, images, astray>>
    BY <1>3 DEF Call
  <2>2. x \in SettingCalls
    BY <1>3 DEF SettingCalls, SettingsToldInv, SettingsShape, Settings
  <2>3. k = NoCall
    BY <1>00, <1>3 DEF Call, At, SettingCalls
  <2>4. SettingsShape' /\ n = x
    BY <2>1, <2>2, <1>1 DEF SettingsToldInv, SettingsShape
  <2> QED
    BY <2>1, <2>3, <2>4, <1>0
       DEF SettingsToldInv, FileAgrees, OfflineTold, SchemeTold, ImageTold, SchemeAhead, ImageAhead
<1>4. ASSUME NEW ok \in BOOLEAN, ApplyScheme(c, ok) PROVE SettingsToldInv(c)'
  <2>1. k \in SettingCalls /\ k.step = "apply" /\ k.kind = "scheme" /\ k.value \in BOOLEAN
    BY <1>2, <1>4 DEF ApplyScheme, At, SettingCalls
  <2>2. UNCHANGED <<disk, cache, offline, images, astray>>
    BY <1>4 DEF ApplyScheme
  <2>3. CASE ok
    <3> DEFINE x == [k EXCEPT !.step = "load"]
    <3>1. call' = [call EXCEPT ![c] = x] /\ scheme' = k.value
      BY <1>4, <2>3 DEF ApplyScheme, Goes
    <3>2. x \in SettingCalls /\ x.step = "load" /\ x.kind = k.kind /\ x.value = k.value /\ x.previous = k.previous
      BY <2>1 DEF SettingCalls
    <3> HIDE DEF x
    <3>3. SettingsShape' /\ n = x
      BY <2>1, <2>2, <3>1, <3>2, <1>1 DEF SettingsToldInv, SettingsShape
    <3> QED
      BY <2>1, <2>2, <3>1, <3>2, <3>3
         DEF SettingsToldInv, FileAgrees, OfflineTold, SchemeTold, ImageTold, SchemeAhead, ImageAhead
  <2>4. CASE ~ok
    <3>1. call' = [call EXCEPT ![c] = NoCall] /\ scheme' = scheme
      BY <1>4, <2>4 DEF ApplyScheme, Done
    <3>2. SettingsShape' /\ n = NoCall
      BY <2>2, <3>1, <1>1 DEF SettingsToldInv, SettingsShape
    <3> QED
      BY <2>1, <2>2, <3>1, <3>2, <1>0
         DEF SettingsToldInv, FileAgrees, OfflineTold, SchemeTold, ImageTold, SchemeAhead, ImageAhead
  <2> QED BY <2>3, <2>4
<1>5. CASE Load(c)
  <2> DEFINE x == [k EXCEPT !.copy = cache, !.step = IF k.kind \in {"image", "noImage"} THEN "clear" ELSE "save"]
  <2>1. k \in SettingCalls /\ k.step = "load"
    BY <1>2, <1>5 DEF Load, At
  <2>2. call' = [call EXCEPT ![c] = x] /\ UNCHANGED <<disk, cache, offline, scheme, images, astray>>
    BY <1>5 DEF Load
  <2>3. /\ x \in SettingCalls /\ x.kind = k.kind /\ x.value = k.value /\ x.previous = k.previous /\ x.copy = cache
        /\ x.step = IF k.kind \in {"image", "noImage"} THEN "clear" ELSE "save"
    BY <2>1 DEF SettingCalls, SettingsToldInv, SettingsShape
  <2> HIDE DEF x
  <2>4. SettingsShape' /\ n = x
    BY <2>2, <2>3, <1>1 DEF SettingsToldInv, SettingsShape
  <2>5. ~astray => OfflineTold(call[c])' /\ SchemeTold(call[c])' /\ ImageTold(call[c])'
    <3> SUFFICES ASSUME ~astray PROVE OfflineTold(call[c])' /\ SchemeTold(call[c])' /\ ImageTold(call[c])'
      OBVIOUS
    <3>0. OfflineTold(k) /\ SchemeTold(k) /\ ImageTold(k) BY DEF SettingsToldInv
    <3>1. OfflineTold(call[c])' BY <2>1, <2>2, <2>3, <2>4, <3>0 DEF OfflineTold
    <3>2. SchemeTold(call[c])' BY <2>1, <2>2, <2>3, <2>4, <3>0 DEF SchemeTold, SchemeAhead
    <3>3. ImageTold(call[c])' BY <2>1, <2>2, <2>3, <2>4, <3>0 DEF ImageTold, ImageAhead
    <3> QED BY <3>1, <3>2, <3>3
  <2> QED
    BY <2>2, <2>3, <2>4, <2>5 DEF SettingsToldInv, FileAgrees
<1>6. CASE ClearImages(c)
  <2> DEFINE x == [k EXCEPT !.step = IF k.kind = "image" THEN "install" ELSE "save", !.copy = cache]
  <2>1. k \in SettingCalls /\ k.step = "clear" /\ k.kind \in {"image", "noImage"}
    BY <1>2, <1>6 DEF ClearImages, At, SettingCalls
  <2>2. call' = [call EXCEPT ![c] = x] /\ images' = {} /\ UNCHANGED <<disk, cache, offline, scheme, astray>>
    BY <1>6 DEF ClearImages, GoesReloaded
  <2>3. /\ x \in SettingCalls /\ x.kind = k.kind /\ x.value = k.value /\ x.copy = cache
        /\ x.step = IF k.kind = "image" THEN "install" ELSE "save"
    BY <2>1 DEF SettingCalls, SettingsToldInv, SettingsShape
  <2> HIDE DEF x
  <2>4. SettingsShape' /\ n = x
    BY <2>2, <2>3, <1>1 DEF SettingsToldInv, SettingsShape
  <2> QED
    BY <2>1, <2>2, <2>3, <2>4
       DEF SettingsToldInv, FileAgrees, OfflineTold, SchemeTold, ImageTold, SchemeAhead, ImageAhead
<1>7. ASSUME NEW ok \in BOOLEAN, InstallImage(c, ok) PROVE SettingsToldInv(c)'
  <2>1. k \in SettingCalls /\ k.step = "install" /\ k.kind = "image" /\ k.value \in Images
    BY <1>2, <1>7 DEF InstallImage, At, SettingCalls
  <2>2. UNCHANGED <<disk, cache, offline, scheme>>
    BY <1>7 DEF InstallImage
  <2>3. CASE ok
    <3> DEFINE x == [k EXCEPT !.step = "save", !.copy = cache]
    <3>1. call' = [call EXCEPT ![c] = x] /\ images' = {k.value} /\ astray' = astray
      BY <1>7, <2>3 DEF InstallImage, GoesReloaded
    <3>2. x \in SettingCalls /\ x.step = "save" /\ x.kind = "image" /\ x.value = k.value /\ x.copy = cache
      BY <2>1 DEF SettingCalls, SettingsToldInv, SettingsShape
    <3> HIDE DEF x
    <3>3. SettingsShape' /\ n = x
      BY <2>1, <2>2, <3>1, <3>2, <1>1 DEF SettingsToldInv, SettingsShape
    <3> QED
      BY <2>1, <2>2, <3>1, <3>2, <3>3
         DEF SettingsToldInv, FileAgrees, OfflineTold, SchemeTold, ImageTold, SchemeAhead, ImageAhead
  <2>4. CASE ~ok
    <3>1. call' = [call EXCEPT ![c] = NoCall] /\ astray' = TRUE /\ images' = images
      BY <1>7, <2>4 DEF InstallImage, Done
    <3>2. SettingsShape' /\ n = NoCall
      BY <2>2, <3>1, <1>1 DEF SettingsToldInv, SettingsShape
    <3> QED BY <2>2, <3>1, <3>2, <1>0 DEF SettingsToldInv, FileAgrees
  <2> QED BY <2>3, <2>4
<1>8. CASE Save(c)
  <2> DEFINE d == Changed(k)
             x == IF k.kind \in {"offline", "batch"} THEN [k EXCEPT !.step = "switch"] ELSE NoCall
  <2>1. k \in SettingCalls /\ k.step = "save" /\ k.copy = cache
    BY <1>2, <1>8 DEF Save, At, SettingsToldInv
  <2>2. /\ d \in Settings
        /\ d.offline = IF k.kind \in {"offline", "batch"} THEN k.value ELSE cache.offline
        /\ d.scheme = IF k.kind = "scheme" THEN k.value ELSE cache.scheme
        /\ d.image = IF k.kind = "image" THEN k.value ELSE IF k.kind = "noImage" THEN "none" ELSE cache.image
    BY <2>1, ChangedKeeps
  <2>3. /\ cache' = Saved(d) /\ disk' = ToDisk(cache') /\ call' = [call EXCEPT ![c] = x]
        /\ UNCHANGED <<offline, scheme, images, astray>>
    BY <1>8 DEF Save, Goes, Done
  <2>4. /\ x \in SettingCalls \cup {NoCall} /\ (x.step = "switch" => x.value = k.value)
        /\ x.step = IF k.kind \in {"offline", "batch"} THEN "switch" ELSE "idle"
        /\ x.kind = IF k.kind \in {"offline", "batch"} THEN k.kind ELSE "none"
    BY <2>1, <1>0 DEF SettingCalls
  <2> HIDE DEF d, x
  <2>5. cache' \in Settings /\ cache'.offline = d.offline /\ cache'.scheme = d.scheme /\ cache'.image = d.image
    BY <2>2, <2>3, FileKeeps
  <2>6. disk' \in DiskSettings /\ FileAgrees'
    BY <2>3, <2>5, FileKeeps DEF FileAgrees
  <2>7. SettingsShape' /\ n = x
    BY <2>3, <2>4, <2>5, <2>6, <1>1 DEF SettingsToldInv, SettingsShape
  <2>8. ~astray => OfflineTold(call[c])' /\ SchemeTold(call[c])' /\ ImageTold(call[c])'
    <3> SUFFICES ASSUME ~astray PROVE OfflineTold(call[c])' /\ SchemeTold(call[c])' /\ ImageTold(call[c])'
      OBVIOUS
    <3>0. OfflineTold(k) /\ SchemeTold(k) /\ ImageTold(k) BY DEF SettingsToldInv
    <3>1. OfflineTold(call[c])' BY <2>1, <2>2, <2>3, <2>4, <2>5, <2>7, <3>0 DEF OfflineTold
    <3>2. SchemeTold(call[c])' BY <2>1, <2>2, <2>3, <2>4, <2>5, <2>7, <3>0 DEF SchemeTold, SchemeAhead
    <3>3. ImageTold(call[c])' BY <2>1, <2>2, <2>3, <2>4, <2>5, <2>7, <3>0 DEF ImageTold, ImageAhead
    <3> QED BY <3>1, <3>2, <3>3
  <2> QED BY <2>3, <2>4, <2>6, <2>7, <2>8 DEF SettingsToldInv
<1>9. CASE SaveFails(c)
  <2> DEFINE x == IF Undoes(k) THEN [k EXCEPT !.step = "undo"] ELSE NoCall
  <2>1. k \in SettingCalls /\ k.step = "save"
    BY <1>2, <1>9 DEF SaveFails, At
  <2>2. /\ call' = [call EXCEPT ![c] = x] /\ astray' = (astray \/ k.kind \in {"image", "noImage"})
        /\ UNCHANGED <<disk, cache, offline, scheme, images>>
    BY <1>9 DEF SaveFails, Goes, Done
  <2>3. CASE Undoes(k)
    <3>1. /\ x \in SettingCalls /\ x.step = "undo" /\ x.kind = "scheme" /\ x.value = k.value /\ x.previous = k.previous
          /\ k.kind = "scheme" /\ k.value # k.previous
      BY <2>1, <2>3 DEF SettingCalls, Undoes
    <3> HIDE DEF x
    <3>2. SettingsShape' /\ n = x
      BY <2>2, <3>1, <1>1 DEF SettingsToldInv, SettingsShape
    <3> QED
      BY <2>1, <2>2, <3>1, <3>2
         DEF SettingsToldInv, FileAgrees, OfflineTold, SchemeTold, ImageTold, SchemeAhead, ImageAhead
  <2>4. CASE ~Undoes(k)
    <3>1. x = NoCall /\ (k.kind = "scheme" => k.value = k.previous)
      BY <2>4 DEF Undoes
    <3>2. SettingsShape' /\ n = NoCall
      BY <2>2, <3>1, <1>1 DEF SettingsToldInv, SettingsShape
    <3> QED
      BY <2>1, <2>2, <3>1, <3>2, <1>0
         DEF SettingsToldInv, FileAgrees, OfflineTold, SchemeTold, ImageTold, SchemeAhead, ImageAhead
  <2> QED BY <2>3, <2>4
<1>10. ASSUME NEW ok \in BOOLEAN, UndoScheme(c, ok) PROVE SettingsToldInv(c)'
  <2>1. k \in SettingCalls /\ k.step = "undo" /\ k.kind = "scheme" /\ k.value \in BOOLEAN /\ k.previous \in BOOLEAN
    BY <1>2, <1>10 DEF UndoScheme, At, SettingCalls
  <2>2. /\ call' = [call EXCEPT ![c] = NoCall] /\ UNCHANGED <<disk, cache, offline, images>>
        /\ scheme' = (IF ok THEN ~k.value ELSE scheme) /\ astray' = (astray \/ ~ok)
    BY <1>10 DEF UndoScheme, Done
  <2>3. SettingsShape' /\ n = NoCall
    BY <2>1, <2>2, <1>1 DEF SettingsToldInv, SettingsShape
  <2> QED
    BY <2>1, <2>2, <2>3, <1>0
       DEF SettingsToldInv, FileAgrees, OfflineTold, SchemeTold, ImageTold, SchemeAhead, ImageAhead
<1>11. CASE SwitchOffline(c)
  <2>1. k \in SettingCalls /\ k.step = "switch" /\ k.kind \in {"offline", "batch"} /\ k.value \in BOOLEAN
    BY <1>2, <1>11 DEF SwitchOffline, At, SettingCalls
  <2>2. /\ call' = [call EXCEPT ![c] = NoCall] /\ UNCHANGED <<disk, cache, scheme, images, astray>>
        /\ offline' = k.value
    BY <1>11 DEF SwitchOffline, Done
  <2>3. SettingsShape' /\ n = NoCall
    BY <2>1, <2>2, <1>1 DEF SettingsToldInv, SettingsShape
  <2> QED
    BY <2>1, <2>2, <2>3, <1>0
       DEF SettingsToldInv, FileAgrees, OfflineTold, SchemeTold, ImageTold, SchemeAhead, ImageAhead
<1>12. CASE Restart
  <2>1. /\ cache' = FromDisk(disk) /\ offline' = disk.offline /\ call' = [call EXCEPT ![c] = NoCall]
        /\ astray' = (astray \/ k.step # "idle") /\ UNCHANGED <<disk, scheme, images>>
    BY <1>12, <1>00 DEF Restart, At
  <2>2. /\ cache' \in Settings /\ disk \in DiskSettings
        /\ cache'.offline = disk.offline /\ cache'.scheme = disk.scheme /\ cache'.image = disk.image
    BY <2>1, FileKeeps DEF SettingsToldInv, SettingsShape
  <2>3. offline' \in BOOLEAN BY <2>1, <2>2 DEF DiskSettings
  <2>4. SettingsShape' /\ n = NoCall
    BY <2>1, <2>2, <2>3, <1>1 DEF SettingsToldInv, SettingsShape
  <2>5. k.step = "idle" => k = NoCall
    BY <1>00 DEF SettingCalls
  <2> QED
    BY <2>1, <2>2, <2>4, <2>5, <1>0
       DEF SettingsToldInv, FileAgrees, OfflineTold, SchemeTold, ImageTold, SchemeAhead, ImageAhead
<1>13. CASE UNCHANGED settingsVars
  BY <1>13
     DEF settingsVars, SettingsToldInv, SettingsShape, FileAgrees, OfflineTold, SchemeTold, ImageTold,
         SchemeAhead, ImageAhead
<1>14. Calls(c) => SettingsToldInv(c)'
  <2>1. ASSUME NEW kind \in {"offline", "batch", "scheme"}, NEW v \in BOOLEAN, Call(c, kind, v)
        PROVE  SettingsToldInv(c)'
    BY <2>1, <1>3 DEF Kinds
  <2>2. ASSUME NEW m \in Minutes, Call(c, "minutes", m) PROVE SettingsToldInv(c)'
    BY <2>2, <1>3 DEF Kinds
  <2>3. ASSUME NEW i \in Images, Call(c, "image", i) PROVE SettingsToldInv(c)'
    BY <2>3, <1>3 DEF Kinds
  <2>4. ASSUME NEW kind \in {"folder", "noImage"}, Call(c, kind, FALSE) PROVE SettingsToldInv(c)'
    BY <2>4, <1>3 DEF Kinds
  <2> QED BY <2>1, <2>2, <2>3, <2>4 DEF Calls
<1> QED
  BY <1>4, <1>5, <1>6, <1>7, <1>8, <1>9, <1>10, <1>11, <1>12, <1>13, <1>14 DEF SettingsNext

\* As long as one call is answered at a time, every toggle tells the truth between calls, whatever
\* saves and outside steps fail and however often the app restarts.
THEOREM OneSetterTellsTheTruth ==
    \A c : Setters = {c} => (SettingsSpec => []TogglesTellTheTruth)
<1> SUFFICES ASSUME NEW CONSTANT c, Setters = {c} PROVE SettingsSpec => []TogglesTellTheTruth OBVIOUS
<1>1. SettingsInit => SettingsToldInv(c) BY ToldInitially
<1>2. SettingsToldInv(c) /\ [SettingsNext]_settingsVars => SettingsToldInv(c)' BY ToldStep
<1>3. SettingsToldInv(c) => TogglesTellTheTruth
  BY DEF SettingsToldInv, TogglesTellTheTruth, Quiet, At, OfflineTold, SchemeTold, ImageTold, SchemeAhead, ImageAhead
<1> QED BY <1>1, <1>2, <1>3, PTL DEF SettingsSpec

-----------------------------------------------------------------------------
(* SteamSettings.json: Home is never shared, whichever of the overlapping    *)
(* changes are lost.  Every call writes what it made of one whole copy of    *)
(* the file, and checked against that same copy; so it is enough that every  *)
(* copy that is held is sound.                                               *)

\* What SteamSettings.json holds.
KitSettings == [home : RoleIds \cup {NoHome}, shared : SUBSET RoleIds, paused : BOOLEAN,
             byChange : BOOLEAN, good : Nat, rest : {0, 1}]

\* Home is not among the shared.
Sound(s) == s \in KitSettings /\ s.home \notin s.shared

InProgress == [op : SettingsCalls \cup {"none"}, step : {"none", "read", "write"},
               id : RoleIds \cup {NoHome}, copy : KitSettings, saw : Nat]

\* A call at a step is a call; one that shares an account names one (only Home may be set to none).
Proper(entry) ==
    /\ entry.step # "none" => entry.op \in SettingsCalls
    /\ entry.op \in {"share", "unshare"} => entry.id \in RoleIds

SettingsInv ==
    /\ Sound(stored)
    /\ layout \in Nat
    /\ writing \in [Writers -> InProgress]
    /\ \A w \in Writers : Sound(writing[w].copy) /\ Proper(writing[w])

(* No call makes an unsound copy of a sound one.                           *)

\* What a passed self-test writes is sound.
LEMMA SelfTestedIsSound ==
    ASSUME NEW s, Sound(s), NEW saw \in Nat
    PROVE  Sound(SelfTested(s, saw))
BY DEF Sound, KitSettings, SelfTested, LiftsItsOwn

\* A role that is allowed leaves Home apart from the shared.
LEMMA WithRoleIsSound ==
    ASSUME NEW s, Sound(s), NEW ask \in {"home", "share", "unshare"}, NEW id \in RoleIds \cup {NoHome},
           Allowed(ask, id, s), ask \in {"share", "unshare"} => id \in RoleIds
    PROVE  Sound(WithRole(ask, id, s))
<1>1. CASE ask = "home"
  BY <1>1 DEF Sound, KitSettings, WithRole, Allowed
<1>2. CASE ask = "share"
  BY <1>2 DEF Sound, KitSettings, WithRole, Allowed
<1>3. CASE ask = "unshare"
  BY <1>3 DEF Sound, KitSettings, WithRole
<1> QED  BY <1>1, <1>2, <1>3

\* Whatever a call makes of a sound copy, where it is allowed, is sound.
LEMMA EditedIsSound ==
    ASSUME NEW s, Sound(s), NEW ask \in SettingsCalls, NEW id \in RoleIds \cup {NoHome},
           NEW saw \in Nat, NEW now \in Nat,
           Allowed(ask, id, s), ask \in {"share", "unshare"} => id \in RoleIds
    PROVE  Sound(EditedCopy(ask, id, s, saw, now))
<1>1. CASE ask \in {"home", "share", "unshare"}
  <2>1. EditedCopy(ask, id, s, saw, now) = WithRole(ask, id, s)
    BY <1>1 DEF EditedCopy
  <2> QED  BY <1>1, <2>1, WithRoleIsSound
<1>2. CASE ask \in {"label", "rest", "page"}
  <2>1. EditedCopy(ask, id, s, saw, now) = WithRest(s)
    BY <1>2 DEF EditedCopy
  <2> QED  BY <2>1 DEF Sound, KitSettings, WithRest
<1>3. CASE ask \in {"pause", "resume"}
  <2>1. EditedCopy(ask, id, s, saw, now) = SetPaused(s, ask = "pause")
    BY <1>3 DEF EditedCopy
  <2> QED  BY <2>1 DEF Sound, KitSettings, SetPaused
<1>4. CASE ask = "modules"
  <2>1. EditedCopy(ask, id, s, saw, now) = AutoPaused(s, now)
    BY <1>4 DEF EditedCopy
  <2> QED  BY <2>1 DEF Sound, KitSettings, AutoPaused
<1>5. CASE ask = "test"
  <2>1. EditedCopy(ask, id, s, saw, now) = SelfTested(s, saw)
    BY <1>5 DEF EditedCopy
  <2> QED  BY <2>1, SelfTestedIsSound
<1> QED  BY <1>1, <1>2, <1>3, <1>4, <1>5 DEF SettingsCalls, Serviced, Others

\* The file of an app that was never set up.
LEMMA DefaultsAreSound == Sound(Defaults)
BY SteamSettingsAssumption DEF Sound, KitSettings, Defaults

\* A writer who is not in a call.
LEMMA NotWritingIsInProgress == NotWriting \in InProgress /\ Sound(NotWriting.copy) /\ Proper(NotWriting)
BY DefaultsAreSound DEF NotWriting, InProgress, Sound, Proper

(* The steps.                                                              *)

\* The file the app starts with is sound and nobody holds a copy.
LEMMA SettingsInvInit == SteamSettingsInit => SettingsInv
<1> SUFFICES ASSUME SteamSettingsInit PROVE SettingsInv
  OBVIOUS
<1>1. Sound(stored)
  <2>1. Sound([Defaults EXCEPT !.good = 1])
    BY SteamSettingsAssumption DEF Sound, KitSettings, Defaults
  <2> QED  BY <2>1, DefaultsAreSound DEF SteamSettingsInit
<1>2. layout \in Nat
  BY DEF SteamSettingsInit
<1>3. /\ writing \in [Writers -> InProgress]
      /\ \A w \in Writers : Sound(writing[w].copy) /\ Proper(writing[w])
  BY NotWritingIsInProgress DEF SteamSettingsInit
<1> QED  BY <1>1, <1>2, <1>3 DEF SettingsInv

\* Every step leaves the file and every copy sound.
LEMMA SettingsInvNext == SettingsInv /\ [SteamSettingsNext]_steamSettingsVars => SettingsInv'
<1> SUFFICES ASSUME SettingsInv, [SteamSettingsNext]_steamSettingsVars PROVE SettingsInv'
  OBVIOUS
<1> USE DEF SettingsInv
<1>1. ASSUME NEW w \in Writers, NEW ask \in SettingsCalls, NEW id \in RoleIds \cup {NoHome},
             CallBegins(w, ask, id)
      PROVE SettingsInv'
  <2> DEFINE entry == [op |-> ask, step |-> "read", id |-> id, copy |-> Defaults, saw |-> layout]
  <2>1. writing' = [writing EXCEPT ![w] = entry] /\ UNCHANGED <<stored, layout>>
    BY <1>1 DEF CallBegins
  <2>2. entry \in InProgress
    BY DefaultsAreSound DEF InProgress, Sound
  <2>3. Sound(entry.copy) /\ Proper(entry)
    BY <1>1, DefaultsAreSound DEF CallBegins, Proper
  <2> QED  BY <2>1, <2>2, <2>3
<1>2. ASSUME NEW w \in Writers, ReadsWhole(w)
      PROVE SettingsInv'
  <2> DEFINE entry == [writing[w] EXCEPT !.step = "write", !.copy = stored]
  <2>1. writing' = [writing EXCEPT ![w] = entry] /\ UNCHANGED <<stored, layout>>
    BY <1>2 DEF ReadsWhole
  <2>2. entry \in InProgress /\ Sound(entry.copy) /\ Proper(entry)
    <3>1. writing[w] \in InProgress /\ writing[w].step = "read" /\ Proper(writing[w])
      BY <1>2 DEF ReadsWhole, StepOf
    <3> QED  BY <3>1 DEF InProgress, Sound, Proper
  <2> QED  BY <2>1, <2>2
<1>3. ASSUME NEW w \in Writers, WritesWhole(w)
      PROVE SettingsInv'
  <2> DEFINE entry == writing[w]
  <2>1. writing' = [writing EXCEPT ![w] = NotWriting] /\ UNCHANGED layout
    BY <1>3 DEF WritesWhole
  <2>2. /\ entry.op \in SettingsCalls /\ entry.id \in RoleIds \cup {NoHome} /\ entry.saw \in Nat
        /\ Sound(entry.copy) /\ (entry.op \in {"share", "unshare"} => entry.id \in RoleIds)
    BY <1>3 DEF WritesWhole, StepOf, InProgress, Proper
  <2>3. Sound(stored')
    <3>1. CASE Allowed(entry.op, entry.id, entry.copy)
      <4>1. stored' = EditedCopy(entry.op, entry.id, entry.copy, entry.saw, layout)
        BY <1>3, <3>1 DEF WritesWhole
      <4> HIDE DEF entry
      <4> QED  BY <2>2, <3>1, <4>1, EditedIsSound
    <3>2. CASE ~Allowed(entry.op, entry.id, entry.copy)
      BY <1>3, <3>2 DEF WritesWhole
    <3> QED  BY <3>1, <3>2
  <2> QED  BY <2>1, <2>3, NotWritingIsInProgress
<1>4. ASSUME NEW w \in Writers, CallFails(w)
      PROVE SettingsInv'
  <2>1. writing' = [writing EXCEPT ![w] = NotWriting] /\ UNCHANGED <<stored, layout>>
    BY <1>4 DEF CallFails
  <2> QED  BY <2>1, NotWritingIsInProgress
<1>5. CASE ResetToDefaults
  BY <1>5, DefaultsAreSound DEF ResetToDefaults
<1>6. CASE GamePatched
  BY <1>6 DEF GamePatched
<1>7. CASE DetectForSwitch
  BY <1>7 DEF DetectForSwitch
<1>8. CASE UNCHANGED steamSettingsVars
  BY <1>8 DEF steamSettingsVars
<1> QED  BY <1>1, <1>2, <1>3, <1>4, <1>5, <1>6, <1>7, <1>8 DEF SteamSettingsNext

\* Home is never an account shared with others, however the calls that write the file overlap.
THEOREM HomeStaysApart == SteamSettingsSpec => []HomeIsNotShared
<1>1. SettingsInv => HomeIsNotShared
  BY DEF SettingsInv, Sound, HomeIsNotShared
<1> QED  BY <1>1, SettingsInvInit, SettingsInvNext, PTL DEF SteamSettingsSpec

-----------------------------------------------------------------------------
(* The tags on accounts.                                                   *)

TagFiles == [ends : [Tags -> Int], on : [Tagged -> SUBSET Tags], until : [Tagged -> [Tags -> Int]]]

AnyAccount == CHOOSE a \in Tagged : TRUE
ForNoAccount == {"everywhere", "list"}

TagCallRecords ==
    {k \in [op : BasicCalls \cup SteamCalls, id : Tagged \cup {AnyAccount}, tag : Tags, end : Nat,
            read : BOOLEAN, copy : TagFiles] :
        /\ k.op \notin ForNoAccount => k.id \in Tagged
        /\ k.op = "endsHere" \/ k.op = "endsForAll" => k.end # Undefined}

\* A tag somebody carries is defined.
TagsDefined(f) == \A a \in Tagged, t \in Tags : t \in f.on[a] => f.ends[t] # Undefined

TagsShape ==
    /\ ids \in TagFiles /\ hour \in Nat
    /\ tagCall \in [TagCallers -> TagCallRecords \cup {NoTagCall}]

\* The calls of the service wait for one another.
TagsWait ==
    \A c, d \in TagCallers : c # d => ~(tagCall[c].op \in BasicCalls /\ tagCall[d].op \in BasicCalls)

\* Until a list or a forgetting writes across another call, what a call of the service has read is
\* what the file holds.
TagsInv ==
    /\ TagsShape /\ TagsWait
    /\ ~crossed => /\ TagsDefined(ids) /\ owed = Carried(ids)
                   /\ \A c \in TagCallers : tagCall[c].op \in BasicCalls /\ tagCall[c].read => tagCall[c].copy = ids

\* The end of the week is a time.
LEMMA NextResetIsTime == ASSUME NEW now \in Nat PROVE NextReset(now) \in Nat
<1>1. now \div Week \in Nat BY AccountTagsAssumption
<1>2. \A m, n \in Nat : m * n \in Nat OBVIOUS
<1> QED BY <1>1, <1>2, AccountTagsAssumption DEF NextReset

\* The helpers on the file, in terms of who carries what.
LEMMA WithoutTagsDoes ==
    ASSUME NEW f \in TagFiles, NEW pairs
    PROVE  /\ WithoutTags(f, pairs) \in TagFiles /\ WithoutTags(f, pairs).ends = f.ends
           /\ \A a \in Tagged : WithoutTags(f, pairs).on[a] = {t \in f.on[a] : <<a, t>> \notin pairs}
<1> DEFINE on == [a \in Tagged |-> {t \in f.on[a] : <<a, t>> \notin pairs}]
           until == [a \in Tagged |-> [t \in Tags |-> IF <<a, t>> \in pairs THEN Always ELSE f.until[a][t]]]
           g == [f EXCEPT !.on = on, !.until = until]
<1>1. WithoutTags(f, pairs) = g BY DEF WithoutTags
<1>2. on \in [Tagged -> SUBSET Tags] BY DEF TagFiles
<1>3. until \in [Tagged -> [Tags -> Int]] BY DEF TagFiles, Always
<1>4. \A a \in Tagged : on[a] = {t \in f.on[a] : <<a, t>> \notin pairs} OBVIOUS
<1> HIDE DEF on, until
<1>5. g \in TagFiles /\ g.ends = f.ends /\ g.on = on BY <1>2, <1>3 DEF TagFiles
<1> QED BY <1>1, <1>4, <1>5

\* Dropping the tags nobody carries changes no account.
LEMMA UnusedPrunedDoes ==
    ASSUME NEW f \in TagFiles
    PROVE  /\ UnusedPruned(f) \in TagFiles /\ TagsDefined(UnusedPruned(f))
           /\ \A a \in Tagged : UnusedPruned(f).on[a] = {t \in f.on[a] : f.ends[t] # Undefined}
<1> DEFINE on == [a \in Tagged |-> {t \in f.on[a] : f.ends[t] # Undefined}]
           newEnds == [t \in Tags |-> IF \E a \in Tagged : t \in on[a] THEN f.ends[t] ELSE Undefined]
           until == [a \in Tagged |-> [t \in Tags |-> IF t \in on[a] THEN f.until[a][t] ELSE Always]]
           g == [on |-> on, ends |-> newEnds, until |-> until]
<1>1. UnusedPruned(f) = g BY DEF UnusedPruned
<1>2. on \in [Tagged -> SUBSET Tags] BY DEF TagFiles
<1>3. newEnds \in [Tags -> Int] BY DEF TagFiles, Undefined
<1>4. until \in [Tagged -> [Tags -> Int]] BY DEF TagFiles, Always
<1>5. \A a \in Tagged : on[a] = {t \in f.on[a] : f.ends[t] # Undefined} OBVIOUS
<1>6. \A a \in Tagged, t \in Tags : t \in on[a] => newEnds[t] # Undefined OBVIOUS
<1> HIDE DEF on, newEnds, until
<1> QED BY <1>1, <1>2, <1>3, <1>4, <1>5, <1>6 DEF TagFiles, TagsDefined

\* One account is given one tag, and nothing else changes.
LEMMA WithTagDoes ==
    ASSUME NEW f \in TagFiles, NEW a \in Tagged, NEW t \in Tags
    PROVE  /\ WithTag(f, a, t) \in TagFiles /\ WithTag(f, a, t).ends = f.ends
           /\ \A b \in Tagged : WithTag(f, a, t).on[b] = IF b = a THEN f.on[b] \cup {t} ELSE f.on[b]
<1> DEFINE h == WithoutTags(f, {<<a, t>>})
           g == [h EXCEPT !.on[a] = @ \cup {t}]
<1>1. /\ h \in TagFiles /\ h.ends = f.ends
      /\ \A b \in Tagged : h.on[b] = {u \in f.on[b] : <<b, u>> \notin {<<a, t>>}}
  BY WithoutTagsDoes
<1>2. WithTag(f, a, t) = g BY DEF WithTag
<1> HIDE DEF h
<1>3. g \in TagFiles /\ g.ends = h.ends /\ g.on = [h.on EXCEPT ![a] = @ \cup {t}]
  BY <1>1 DEF TagFiles
<1>4. h.on \in [Tagged -> SUBSET Tags] /\ f.on \in [Tagged -> SUBSET Tags] BY <1>1 DEF TagFiles
<1>5. \A b \in Tagged : b # a => h.on[b] = f.on[b] BY <1>1, <1>4
<1>6. h.on[a] \cup {t} = f.on[a] \cup {t} BY <1>1, <1>4
<1> HIDE DEF g
<1> QED BY <1>1, <1>2, <1>3, <1>4, <1>5, <1>6

\* An end is all that setting an end changes.
LEMMA EndSetDoes ==
    ASSUME NEW f \in TagFiles, NEW a \in Tagged, NEW t \in Tags, NEW e \in Int
    PROVE  /\ [f EXCEPT !.ends[t] = e] \in TagFiles /\ [f EXCEPT !.ends[t] = e].on = f.on
           /\ [f EXCEPT !.ends[t] = e].ends = [f.ends EXCEPT ![t] = e]
           /\ [f EXCEPT !.until[a][t] = e] \in TagFiles /\ [f EXCEPT !.until[a][t] = e].on = f.on
           /\ [f EXCEPT !.until[a][t] = e].ends = f.ends
<1>1. /\ [f EXCEPT !.ends[t] = e] \in TagFiles /\ [f EXCEPT !.ends[t] = e].on = f.on
      /\ [f EXCEPT !.ends[t] = e].ends = [f.ends EXCEPT ![t] = e]
  BY DEF TagFiles
<1> DEFINE u == [f.until EXCEPT ![a][t] = e]
<1>2. u \in [Tagged -> [Tags -> Int]]
  BY DEF TagFiles
<1>3. [f EXCEPT !.until[a][t] = e] = [f EXCEPT !.until = u]
  BY DEF TagFiles
<1> HIDE DEF u
<1>4. /\ [f EXCEPT !.until = u] \in TagFiles /\ [f EXCEPT !.until = u].on = f.on
      /\ [f EXCEPT !.until = u].ends = f.ends
  BY <1>2 DEF TagFiles
<1> QED BY <1>1, <1>3, <1>4

\* A call makes a file of a file.
LEMMA RetaggedIsAFile ==
    ASSUME NEW k \in TagCallRecords, hour \in Nat
    PROVE  Retagged(k) \in TagFiles
<1>0. k.copy \in TagFiles /\ k.tag \in Tags /\ k.end \in Nat BY DEF TagCallRecords
<1>1. CASE k.op = "add"
  BY <1>0, <1>1, WithTagDoes DEF Retagged, TagCallRecords, ForNoAccount
<1>2. CASE k.op = "create"
  <2> DEFINE held == [k.copy EXCEPT !.ends[k.tag] = Always]
  <2>1. held \in TagFiles BY <1>0 DEF TagFiles, Always
  <2>2. Retagged(k) = WithTag(held, k.id, k.tag) BY <1>2 DEF Retagged, Created
  <2>3. k.id \in Tagged BY <1>2 DEF TagCallRecords, ForNoAccount
  <2> HIDE DEF held
  <2>4. WithTag(held, k.id, k.tag) \in TagFiles BY <1>0, <2>1, <2>3, WithTagDoes
  <2> QED BY <2>2, <2>4
<1>3. CASE k.op = "special"
  <2> DEFINE held == [k.copy EXCEPT !.ends[k.tag] = NextReset(hour)]
  <2>0. NextReset(hour) \in Int BY NextResetIsTime
  <2>1. held \in TagFiles BY <1>0, <2>0 DEF TagFiles
  <2>2. Retagged(k) = WithTag(held, k.id, k.tag) BY <1>3 DEF Retagged, SpecialApplied
  <2>3. k.id \in Tagged BY <1>3 DEF TagCallRecords, ForNoAccount
  <2> HIDE DEF held
  <2>4. WithTag(held, k.id, k.tag) \in TagFiles BY <1>0, <2>1, <2>3, WithTagDoes
  <2> QED BY <2>2, <2>4
<1>4. CASE k.op = "endsHere"
  <2>1. Retagged(k) = EndSetHere(k) BY <1>4 DEF Retagged
  <2>3. k.id \in Tagged BY <1>4 DEF TagCallRecords, ForNoAccount
  <2>4. [k.copy EXCEPT !.until[k.id][k.tag] = k.end] \in TagFiles
    <3>1. k.end \in Int BY <1>0
    <3> QED BY Zenon, <1>0, <2>3, <3>1, EndSetDoes
  <2> QED BY <2>1, <2>4 DEF EndSetHere
<1>5. CASE k.op = "endsForAll"
  <2>1. Retagged(k) = EndSetForAll(k) BY <1>5 DEF Retagged
  <2>3. k.id \in Tagged BY <1>5 DEF TagCallRecords, ForNoAccount
  <2>4. [k.copy EXCEPT !.ends[k.tag] = k.end] \in TagFiles
    <3>1. k.end \in Int BY <1>0
    <3> QED BY Zenon, <1>0, <2>3, <3>1, EndSetDoes
  <2> QED BY <2>1, <2>4 DEF EndSetForAll
<1>6. CASE k.op \in {"remove", "everywhere", "forget", "list"}
  <2>1. Retagged(k) = UnusedPruned(WithoutTags(k.copy, TagsTaken(k))) BY <1>6 DEF Retagged
  <2> QED BY <1>0, <2>1, WithoutTagsDoes, UnusedPrunedDoes
<1> QED BY <1>1, <1>2, <1>3, <1>4, <1>5, <1>6 DEF TagCallRecords, BasicCalls, SteamCalls

Pair(a, t) == {<<a, t>>}

\* g is f with the tag t defined.
DefinesTag(f, g, t) ==
    /\ g.on = f.on /\ g.ends[t] # Undefined
    /\ \A u \in Tags : u # t => g.ends[u] = f.ends[u]

\* Putting on a tag that is defined gives it to one account.
LEMMA TagGiven ==
    ASSUME NEW f \in TagFiles, NEW g \in TagFiles, NEW a \in Tagged, NEW t \in Tags, TagsDefined(f),
           DefinesTag(f, g, t)
    PROVE  TagsDefined(WithTag(g, a, t)) /\ Carried(WithTag(g, a, t)) = Carried(f) \cup Pair(a, t)
<1> DEFINE r == WithTag(g, a, t)
<1>1. r.ends = g.ends BY WithTagDoes
<1>2. \A b \in Tagged : r.on[b] = IF b = a THEN g.on[b] \cup {t} ELSE g.on[b]
  BY Zenon, WithTagDoes
<1>3. r.on \in [Tagged -> SUBSET Tags] /\ f.on \in [Tagged -> SUBSET Tags]
  BY WithTagDoes DEF TagFiles
<1> HIDE DEF r
<1>4. \A b \in Tagged, u \in Tags : u \in r.on[b] <=> u \in f.on[b] \/ (b = a /\ u = t)
  BY <1>2 DEF DefinesTag
<1>5. TagsDefined(r) BY <1>1, <1>4 DEF TagsDefined, DefinesTag
<1>6. Carried(r) = Carried(f) \cup {<<a, t>>} BY <1>3, <1>4 DEF Carried
<1> QED BY <1>5, <1>6 DEF r, Pair

\* A call that is not refused gives and takes what it says, and leaves no tag undefined.
LEMMA RetaggedCarries ==
    ASSUME NEW k \in TagCallRecords, hour \in Nat, TagsDefined(k.copy), ~TagRefused(k)
    PROVE  /\ TagsDefined(Retagged(k))
           /\ Carried(Retagged(k)) = (Carried(k.copy) \cup TagsGiven(k)) \ TagsTaken(k)
<1> DEFINE held == k.copy
           r == Retagged(k)
<1>0. /\ held \in TagFiles /\ k.tag \in Tags /\ k.end \in Nat
      /\ held.on \in [Tagged -> SUBSET Tags] /\ held.ends \in [Tags -> Int]
  BY DEF TagCallRecords, TagFiles
<1>00. r \in TagFiles /\ r.on \in [Tagged -> SUBSET Tags]
  BY RetaggedIsAFile DEF TagFiles
<1>1. ASSUME TagsTaken(k) = {}, k.id \in Tagged, TagsGiven(k) = {<<k.id, k.tag>>}, NEW made \in TagFiles,
             made.on = held.on, r = WithTag(made, k.id, k.tag), made.ends[k.tag] # Undefined,
             \A t \in Tags : t # k.tag => made.ends[t] = held.ends[t]
      PROVE  TagsDefined(r) /\ Carried(r) = (Carried(held) \cup TagsGiven(k)) \ TagsTaken(k)
  <2> HIDE DEF held, r
  <2>0. TagsDefined(held) BY DEF held
  <2>1. TagsDefined(WithTag(made, k.id, k.tag)) /\ Carried(WithTag(made, k.id, k.tag)) = Carried(held) \cup Pair(k.id, k.tag)
    <3>1. /\ held \in TagFiles /\ made \in TagFiles /\ k.id \in Tagged /\ k.tag \in Tags
          /\ DefinesTag(held, made, k.tag)
      BY <1>0, <1>1 DEF DefinesTag
    <3> HIDE DEF TagsDefined, Carried
    <3>2. TagsDefined(WithTag(made, k.id, k.tag)) BY Zenon, <3>1, <2>0, TagGiven
    <3>3. Carried(WithTag(made, k.id, k.tag)) = Carried(held) \cup Pair(k.id, k.tag)
      BY SMT, <3>1, <2>0, TagGiven
    <3> QED BY <3>2, <3>3
  <2> QED BY <1>1, <2>1 DEF Pair
<1>2. ASSUME k.op \in {"remove", "everywhere", "forget", "list"}
      PROVE  TagsDefined(r) /\ Carried(r) = (Carried(held) \cup TagsGiven(k)) \ TagsTaken(k)
  <2> DEFINE made == WithoutTags(held, TagsTaken(k))
  <2>1. made \in TagFiles /\ made.ends = held.ends /\ \A a \in Tagged : made.on[a] = {t \in held.on[a] : <<a, t>> \notin TagsTaken(k)}
    BY <1>0, WithoutTagsDoes
  <2>2. r = UnusedPruned(made) BY <1>2 DEF Retagged
  <2>3. TagsDefined(r) /\ \A a \in Tagged : r.on[a] = {t \in made.on[a] : made.ends[t] # Undefined}
    BY <2>1, <2>2, UnusedPrunedDoes
  <2>4. TagsGiven(k) = {} BY <1>2 DEF TagsGiven
  <2>5. \A a \in Tagged : r.on[a] = {t \in held.on[a] : <<a, t>> \notin TagsTaken(k)}
    <3> SUFFICES ASSUME NEW a \in Tagged PROVE r.on[a] = {t \in held.on[a] : <<a, t>> \notin TagsTaken(k)} OBVIOUS
    <3>1. \A t \in held.on[a] : held.ends[t] # Undefined BY <1>0 DEF TagsDefined
    <3> HIDE DEF held, r, made
    <3> QED BY <2>1, <2>3, <3>1
  <2>6. Carried(r) = Carried(held) \ TagsTaken(k)
    <3> HIDE DEF held, r, made
    <3> QED BY <1>0, <1>00, <2>5 DEF Carried
  <2> QED BY <2>3, <2>4, <2>6
<1>3. CASE k.op = "add"
  <2>1. r = WithTag(held, k.id, k.tag) /\ held.ends[k.tag] # Undefined BY <1>3 DEF Retagged, TagRefused
  <2>2. k.id \in Tagged BY <1>3 DEF TagCallRecords, ForNoAccount
  <2>3. TagsTaken(k) = {} /\ TagsGiven(k) = {<<k.id, k.tag>>} BY <1>3 DEF TagsTaken, TagsGiven
  <2> QED BY <1>0, <1>1, <2>1, <2>2, <2>3
<1>4. CASE k.op = "create"
  <2> DEFINE made == [held EXCEPT !.ends[k.tag] = Always]
  <2>1. r = WithTag(made, k.id, k.tag) BY <1>4 DEF Retagged, Created
  <2>2. k.id \in Tagged BY <1>4 DEF TagCallRecords, ForNoAccount
  <2>3. TagsTaken(k) = {} /\ TagsGiven(k) = {<<k.id, k.tag>>} BY <1>4 DEF TagsTaken, TagsGiven
  <2>4. /\ made \in TagFiles /\ made.on = held.on /\ made.ends[k.tag] # Undefined
        /\ \A t \in Tags : t # k.tag => made.ends[t] = held.ends[t]
    BY <1>0 DEF TagFiles, Always, Undefined
  <2> HIDE DEF made
  <2> QED BY <1>1, <2>1, <2>2, <2>3, <2>4
<1>5. CASE k.op = "special"
  <2> DEFINE made == [held EXCEPT !.ends[k.tag] = NextReset(hour)]
  <2>1. r = WithTag(made, k.id, k.tag) BY <1>5 DEF Retagged, SpecialApplied
  <2>2. k.id \in Tagged BY <1>5 DEF TagCallRecords, ForNoAccount
  <2>3. TagsTaken(k) = {} /\ TagsGiven(k) = {<<k.id, k.tag>>} BY <1>5 DEF TagsTaken, TagsGiven
  <2>5. NextReset(hour) \in Nat BY NextResetIsTime
  <2>4. /\ made \in TagFiles /\ made.on = held.on /\ made.ends[k.tag] # Undefined
        /\ \A t \in Tags : t # k.tag => made.ends[t] = held.ends[t]
    BY <1>0, <2>5 DEF TagFiles, Undefined
  <2> HIDE DEF made
  <2> QED BY <1>1, <2>1, <2>2, <2>3, <2>4
<1>6. CASE k.op \in {"endsHere", "endsForAll"}
  <2>1. TagsTaken(k) = {} /\ TagsGiven(k) = {} BY <1>6 DEF TagsTaken, TagsGiven
  <2>2. r.on = held.on /\ \A t \in Tags : held.ends[t] # Undefined => r.ends[t] # Undefined
    <3>1. CASE k.op = "endsHere"
      <4>1. r = [held EXCEPT !.until[k.id][k.tag] = k.end] BY <3>1 DEF Retagged, EndSetHere
      <4> QED BY <1>0, <4>1 DEF TagFiles
    <3>2. CASE k.op = "endsForAll"
      <4>1. r = [held EXCEPT !.ends[k.tag] = k.end] BY <3>2 DEF Retagged, EndSetForAll
      <4> QED BY <1>0, <4>1 DEF TagFiles, Undefined
    <3> QED BY <1>6, <3>1, <3>2
  <2>3. Carried(r) = Carried(held) BY <2>2 DEF Carried
  <2>4. TagsDefined(r) BY <1>0, <2>2 DEF TagsDefined
  <2> QED BY <2>1, <2>3, <2>4
<1> QED BY <1>2, <1>3, <1>4, <1>5, <1>6 DEF TagCallRecords, BasicCalls, SteamCalls

\* Nobody carries a tag in the beginning.
LEMMA TagsInitially == TagsInit => TagsInv
<1> SUFFICES ASSUME TagsInit PROVE TagsInv OBVIOUS
<1>1. NoTags \in TagFiles BY DEF NoTags, TagFiles, Undefined, Always
<1>2. \A a \in Tagged : NoTags.on[a] = {} BY DEF NoTags
<1>3. \A c \in TagCallers : tagCall[c].op = "none" BY DEF TagsInit, NoTagCall
<1>4. TagsShape BY <1>1 DEF TagsInit, TagsShape
<1>5. TagsWait BY <1>3 DEF TagsWait, BasicCalls
<1>6. TagsDefined(ids) /\ owed = Carried(ids) BY <1>2 DEF TagsInit, TagsDefined, Carried
<1> QED BY <1>3, <1>4, <1>5, <1>6 DEF TagsInv, BasicCalls

\* A call begins with nothing read, and waits for those it excludes.
LEMMA TagCallBeginsKeeps ==
    ASSUME TagsInv, NEW c \in TagCallers, NEW ask \in BasicCalls \cup SteamCalls, NEW id \in Tagged \cup {AnyAccount},
           NEW tag \in Tags, NEW end \in Nat,
           ask \notin ForNoAccount => id \in Tagged, TagCallBegins(c, ask, id, tag, end)
    PROVE  TagsInv'
<1> DEFINE k == [op |-> ask, id |-> id, tag |-> tag, end |-> end, read |-> FALSE, copy |-> NoTags]
<1>1. tagCall' = [tagCall EXCEPT ![c] = k] /\ UNCHANGED <<ids, hour, owed, crossed>>
  BY DEF TagCallBegins
<1>2. k \in TagCallRecords
  BY DEF TagCallRecords, NoTags, TagFiles, Undefined, Always
<1>3. k.op = ask /\ k.read = FALSE OBVIOUS
<1>4. \A d \in TagCallers : ask \in BasicCalls => tagCall[d].op \notin BasicCalls
  BY DEF TagCallBegins, Excludes, TagIdle, BasicCalls
<1> HIDE DEF k
<1>5. TagsShape' BY <1>1, <1>2 DEF TagsInv, TagsShape
<1>6. /\ tagCall'[c] = k /\ \A d \in TagCallers : d # c => tagCall'[d] = tagCall[d]
  BY <1>1 DEF TagsInv, TagsShape
<1>7. TagsWait' BY <1>3, <1>4, <1>6 DEF TagsInv, TagsWait
<1> QED BY <1>1, <1>3, <1>5, <1>6, <1>7 DEF TagsInv

\* A call that writes leaves just what somebody is owed.
LEMMA WritesIdsKeeps == ASSUME TagsInv, NEW c \in TagCallers, WritesIds(c) PROVE TagsInv'
<1> DEFINE k == tagCall[c]
<1>1. k \in TagCallRecords /\ k.read /\ hour \in Nat
  BY DEF TagsInv, TagsShape, WritesIds, NoTagCall
<1>2. /\ ~TagRefused(k) /\ ids' = Retagged(k) /\ owed' = (owed \cup TagsGiven(k)) \ TagsTaken(k)
      /\ crossed' = (crossed \/ (k.op \in SteamCalls /\ Across(c)))
      /\ tagCall' = [tagCall EXCEPT ![c] = NoTagCall] /\ hour' = hour
  BY DEF WritesIds
<1>3. NoTagCall.op = "none" /\ NoTagCall.read = FALSE BY DEF NoTagCall
<1>4. tagCall'[c] = NoTagCall /\ \A d \in TagCallers : d # c => tagCall'[d] = tagCall[d]
  BY <1>2 DEF TagsInv, TagsShape
<1>5. k.op \in BasicCalls \/ k.op \in SteamCalls BY <1>1 DEF TagCallRecords
<1>6. Across(c) \/ (ids = k.copy /\ \A d \in TagCallers : d # c => ~tagCall[d].read)
  BY DEF Across
<1> HIDE DEF k
<1>7. TagsShape' BY <1>1, <1>2, RetaggedIsAFile DEF TagsInv, TagsShape
<1>8. TagsWait' BY <1>3, <1>4 DEF TagsInv, TagsWait, BasicCalls
<1>9. ASSUME ~crossed'
      PROVE  /\ TagsDefined(ids') /\ owed' = Carried(ids')
             /\ \A d \in TagCallers : tagCall'[d].op \in BasicCalls /\ tagCall'[d].read => tagCall'[d].copy = ids'
  <2>1. ~crossed /\ TagsDefined(ids) /\ owed = Carried(ids) BY <1>2, <1>9 DEF TagsInv
  <2>2. k.copy = ids
    <3>1. CASE k.op \in SteamCalls BY <1>2, <1>6, <1>9, <3>1
    <3>2. CASE k.op \in BasicCalls BY <1>1, <2>1, <3>2 DEF TagsInv, k
    <3> QED BY <1>5, <3>1, <3>2
  <2>3. TagsDefined(ids') /\ owed' = Carried(ids')
    <3>1. TagsDefined(k.copy) BY <2>1, <2>2
    <3>2. /\ TagsDefined(Retagged(k))
          /\ Carried(Retagged(k)) = (Carried(k.copy) \cup TagsGiven(k)) \ TagsTaken(k)
      BY <1>1, <1>2, <3>1, RetaggedCarries
    <3> QED BY <1>2, <2>1, <2>2, <3>2
  <2>4. \A d \in TagCallers : ~(tagCall'[d].op \in BasicCalls /\ tagCall'[d].read)
    <3> SUFFICES ASSUME NEW d \in TagCallers PROVE ~(tagCall'[d].op \in BasicCalls /\ tagCall'[d].read) OBVIOUS
    <3>1. CASE d = c BY <1>3, <1>4, <3>1
    <3>2. CASE d # c
      <4>1. CASE k.op \in SteamCalls BY <1>2, <1>4, <1>6, <1>9, <3>2, <4>1
      <4>2. CASE k.op \in BasicCalls BY <1>4, <3>2, <4>2 DEF TagsInv, TagsWait, k
      <4> QED BY <1>5, <4>1, <4>2
    <3> QED BY <3>1, <3>2
  <2> QED BY <2>3, <2>4
<1> QED BY <1>7, <1>8, <1>9 DEF TagsInv

\* Every step keeps the invariant.
LEMMA TagsStep == TagsInv /\ [TagsNext]_tagVars => TagsInv'
<1> SUFFICES ASSUME TagsInv, [TagsNext]_tagVars PROVE TagsInv' OBVIOUS
<1> USE AccountTagsAssumption
<1>0. /\ NoTagCall.op = "none" /\ NoTagCall.read = FALSE
      /\ Hours \subseteq Nat /\ Always \in Nat
      /\ tagCall \in [TagCallers -> TagCallRecords \cup {NoTagCall}]
  BY DEF NoTagCall, Hours, Always, TagsInv, TagsShape
<1>1. ASSUME NEW c \in TagCallers, ReadsIds(c) PROVE TagsInv'
  <2> DEFINE k == [tagCall[c] EXCEPT !.read = TRUE, !.copy = ids]
  <2>1. tagCall' = [tagCall EXCEPT ![c] = k] /\ UNCHANGED <<ids, hour, owed, crossed>>
    BY <1>1 DEF ReadsIds
  <2>2. tagCall[c] \in TagCallRecords BY <1>0, <1>1 DEF ReadsIds, TagIdle
  <2>3. k \in TagCallRecords /\ k.copy = ids /\ k.op = tagCall[c].op
    BY <2>2 DEF TagCallRecords, TagsInv, TagsShape
  <2> HIDE DEF k
  <2>4. tagCall'[c] = k /\ \A d \in TagCallers : d # c => tagCall'[d] = tagCall[d]
    BY <1>0, <2>1
  <2>5. TagsShape' BY <2>1, <2>3 DEF TagsInv, TagsShape
  <2>6. TagsWait' BY <2>3, <2>4 DEF TagsInv, TagsWait
  <2> QED BY <2>1, <2>3, <2>4, <2>5, <2>6 DEF TagsInv
<1>2. ASSUME NEW c \in TagCallers, TagCallEnds(c) PROVE TagsInv'
  <2>1. tagCall' = [tagCall EXCEPT ![c] = NoTagCall] /\ UNCHANGED <<ids, hour, owed, crossed>>
    BY <1>2 DEF TagCallEnds
  <2>2. tagCall'[c] = NoTagCall /\ \A d \in TagCallers : d # c => tagCall'[d] = tagCall[d]
    BY <1>0, <2>1
  <2>3. TagsShape' BY <2>1 DEF TagsInv, TagsShape
  <2>4. TagsWait' BY <1>0, <2>2 DEF TagsInv, TagsWait, BasicCalls
  <2> QED BY <1>0, <2>1, <2>2, <2>3, <2>4 DEF TagsInv
<1>3. CASE HourPasses
  BY <1>3 DEF HourPasses, TagsInv, TagsShape, TagsWait
<1>4. CASE UNCHANGED tagVars
  BY <1>4 DEF tagVars, TagsInv, TagsShape, TagsWait
<1>5. ASSUME NEW c \in TagCallers, NEW ask \in {"endsHere", "endsForAll"}, NEW a \in Tagged, NEW t \in Tags,
             NEW e \in Hours, TagCallBegins(c, ask, a, t, e)
      PROVE TagsInv'
  <2>1. ask \in BasicCalls \cup SteamCalls /\ ask \notin ForNoAccount BY DEF BasicCalls, ForNoAccount
  <2> QED BY <1>0, <1>5, <2>1, TagCallBeginsKeeps
<1>6. ASSUME NEW c \in TagCallers, NEW ask \in {"add", "create", "remove", "special"}, NEW a \in Tagged, NEW t \in Tags,
             TagCallBegins(c, ask, a, t, Always)
      PROVE TagsInv'
  <2>1. ask \in BasicCalls \cup SteamCalls /\ ask \notin ForNoAccount BY DEF BasicCalls, ForNoAccount
  <2> QED BY <1>0, <1>6, <2>1, TagCallBeginsKeeps
<1>7. ASSUME NEW c \in TagCallers, NEW t \in Tags, TagCallBegins(c, "everywhere", AnyAccount, t, Always)
      PROVE TagsInv'
  <2>1. "everywhere" \in BasicCalls \cup SteamCalls /\ "everywhere" \in ForNoAccount BY DEF BasicCalls, ForNoAccount
  <2> QED BY <1>0, <1>7, <2>1, TagCallBeginsKeeps
<1>8. ASSUME NEW c \in TagCallers, NEW a \in Tagged, TagCallBegins(c, "forget", a, DropClaimed, Always)
      PROVE TagsInv'
  <2>1. "forget" \in BasicCalls \cup SteamCalls /\ "forget" \notin ForNoAccount BY DEF SteamCalls, ForNoAccount
  <2> QED BY <1>0, <1>8, <2>1, TagCallBeginsKeeps
<1>9. ASSUME NEW c \in TagCallers, TagCallBegins(c, "list", AnyAccount, DropClaimed, Always)
      PROVE TagsInv'
  <2>1. "list" \in BasicCalls \cup SteamCalls /\ "list" \in ForNoAccount BY DEF SteamCalls, ForNoAccount
  <2> QED BY <1>0, <1>9, <2>1, TagCallBeginsKeeps
<1>10. ASSUME NEW c \in TagCallers, WritesIds(c) PROVE TagsInv' BY <1>10, WritesIdsKeeps
<1> QED
  BY <1>1, <1>2, <1>3, <1>4, <1>5, <1>6, <1>7, <1>8, <1>9, <1>10 DEF TagsNext, AnyAccount

\* However many calls overlap, an account carries just the tags it was given and has not lost, until a
\* list or a forgetting has written across another call.
THEOREM TagsAlwaysStay == TagsSpec => []TagsStay
<1>1. TagsInv => TagsStay BY DEF TagsInv, TagsStay
<1> QED BY <1>1, TagsInitially, TagsStep, PTL DEF TagsSpec

-----------------------------------------------------------------------------
(* The manual tool that copies a game's settings.  A revert point says what *)
(* it was taken of: what it holds and what it found empty are the parts it  *)
(* looked at, so writing the one back and removing the other is an undo.    *)

GamePcs == {"idle", "capture", "write", "prune", "putInventory", "rollback", "returned"}

GameOps == [pc : GamePcs, kind : {"none", "copy", "apply", "undo"},
            dest : Accounts \cup {NoAccount}, source : Accounts \cup {NoAccount},
            from : Ids \cup {0}, todo : Seq(Parts), drop : Seq(Parts), touched : Seq(Parts),
            cloud : BOOLEAN, revert : Ids \cup {0}, putInv : Contents,
            result : {"none", "refused", "done", "rolledBack", "notRolledBack"},
            disturbed : BOOLEAN]

GameSnapshots == [auto : BOOLEAN, of : Accounts \cup {NoAccount}, holds : Files,
                  empty : SUBSET Parts, inv : Contents]

GameTypes ==
    /\ live \in [Places -> Contents] /\ inventory \in [Accounts -> Contents]
    /\ library \in [Ids -> GameSnapshots]
    /\ before \in [Ids -> [files : Files, inv : Contents]]
    /\ taken \in 0 .. MaxTaken
    /\ client \in Accounts \cup {NoAccount}
    /\ op \in GameOps

AnySynced(parts) == \E p \in parts : PartCloudSynced(p)

\* A revert point holds what there was of the parts it looked at, says which were empty and, where
\* a part the cloud has is among them, has Steam's inventory.
RevertOf(snap, found) ==
    /\ snap.of \in Accounts
    /\ DOMAIN found.files = DOMAIN snap.holds \cup snap.empty
    /\ DOMAIN snap.holds \cap snap.empty = {}
    /\ \A p \in DOMAIN snap.holds : snap.holds[p] = found.files[p] /\ snap.holds[p] # Empty
    /\ \A p \in snap.empty : found.files[p] = Empty
    /\ snap.inv = IF AnySynced(DOMAIN found.files) THEN found.inv ELSE Empty

LibraryAt ==
    \A id \in Ids : library[id].auto => id <= taken /\ RevertOf(library[id], before[id])

Ahead == Range(op.todo) \cup Range(op.drop)

\* From the capture on there is a revert point, the newest until another operation takes one.
RevertAt ==
    op.pc \in {"write", "rollback", "prune", "putInventory"}
        \/ (op.pc = "returned" /\ op.result # "refused") =>
        op.revert \in Ids /\ library[op.revert].auto

\* What is still touched when a rollback begins is all that differs.
RollbackAt ==
    LET found == before[op.revert]
        Same(p) == live[Place(op.dest, p)] = found.files[p]
    IN  /\ op.pc \in {"write", "rollback"} =>
              /\ op.revert = taken
              /\ Range(op.touched) \cup Ahead \subseteq DOMAIN found.files
              /\ ~op.disturbed => /\ inventory[op.dest] = found.inv
                                  /\ \A p \in DOMAIN found.files \ Range(op.touched) : Same(p)
        /\ op.pc = "prune" => op.revert = taken
        /\ op.pc \in {"idle", "capture"} => op.touched = <<>>
        /\ RolledBackIsAsFound

\* What an undo has written is as its revert point says, and what it has not written is ahead of it.
UndoAt ==
    LET snap    == library[op.from]
        found   == before[op.from]
        Same(p) == live[Place(op.dest, p)] = found.files[p]
        wanted  == DOMAIN found.files
    IN  op.kind = "undo" =>
        /\ op.pc \in {"capture", "write"} =>
              /\ snap.auto
              /\ Range(op.todo) \subseteq DOMAIN snap.holds /\ Range(op.drop) \subseteq snap.empty
              /\ \A p \in wanted \ Ahead : /\ ~op.disturbed => Same(p)
                                           /\ PartCloudSynced(p) => op.cloud
        /\ op.pc \in {"capture", "write", "prune", "putInventory"} =>
              /\ op.from \in Ids
              /\ op.putInv = IF AnySynced(wanted) THEN found.inv ELSE Empty
        /\ op.pc \in {"prune", "putInventory"} /\ ~op.disturbed =>
              /\ \A p \in wanted : Same(p)
              /\ AnySynced(wanted) => inventory[op.dest] = Empty
        /\ UndoPutsBack

OpAt ==
    /\ ~Idle => op.dest \in Accounts /\ op.result = "none" /\ op.kind \in {"copy", "apply", "undo"}
    /\ op.kind = "copy" => op.source \in Accounts
    /\ op.pc \in {"capture", "write"} /\ op.kind # "copy" => op.from \in Ids
    /\ RevertAt /\ RollbackAt /\ UndoAt

GameInv == GameTypes /\ LibraryAt /\ OpAt

-----------------------------------------------------------------------------
(* Parts in sequence, snapshots and places.                                *)

\* A sequence that is not empty is its head and the rest.
LEMMA TakeHead ==
    ASSUME NEW S, NEW s \in Seq(S), s # <<>>
    PROVE  /\ Head(s) \in S /\ Tail(s) \in Seq(S)
           /\ Range(s) = {Head(s)} \cup Range(Tail(s))
<1>1. Head(s) = s[1] /\ Len(s) \in Nat \ {0} /\ DOMAIN s = 1 .. Len(s) BY DEF Range
<1>2. Tail(s) \in Seq(S) /\ Len(Tail(s)) = Len(s) - 1 /\ \A i \in 1 .. Len(s) - 1 : Tail(s)[i] = s[i + 1]
  BY HeadTailProperties
<1>3. DOMAIN Tail(s) = 1 .. Len(s) - 1 BY <1>1, <1>2
<1>4. \A x \in Range(s) : x \in {Head(s)} \cup Range(Tail(s))
  <2> SUFFICES ASSUME NEW i \in 1 .. Len(s), i # 1 PROVE s[i] \in Range(Tail(s))
    BY <1>1 DEF Range
  <2>1. i - 1 \in 1 .. Len(s) - 1 /\ (i - 1) + 1 = i BY <1>1
  <2>2. s[i] = Tail(s)[i - 1] BY <1>2, <2>1
  <2> QED BY <1>3, <2>1, <2>2 DEF Range
<1>5. Range(Tail(s)) \subseteq Range(s)
  <2> SUFFICES ASSUME NEW i \in 1 .. Len(s) - 1 PROVE Tail(s)[i] \in Range(s)
    BY <1>3 DEF Range
  <2>1. i + 1 \in 1 .. Len(s) BY <1>1
  <2> QED BY <1>1, <1>2, <2>1 DEF Range
<1>6. Head(s) \in Range(s) BY <1>1 DEF Range
<1> QED BY <1>2, <1>4, <1>5, <1>6, HeadTailProperties

\* Appending adds one element to what is listed.
LEMMA AppendOne ==
    ASSUME NEW S, NEW s \in Seq(S), NEW x \in S
    PROVE  Append(s, x) \in Seq(S) /\ Range(Append(s, x)) = Range(s) \cup {x}
<1>1. <<x>> \in Seq(S) /\ Append(s, x) = s \o <<x>> BY AppendIsConcat
<1>2. Range(<<x>>) = {x} BY DEF Range
<1>3. Range(s \o <<x>>) = Range(s) \cup Range(<<x>>) BY <1>1, RangeConcatenation
<1>4. Append(s, x) \in Seq(S) BY AppendProperties
<1> QED BY <1>1, <1>2, <1>3, <1>4

\* The empty sequence lists nothing.
LEMMA RangeEmpty == Range(<<>>) = {}
BY DEF Range

\* InOrder lists the parts it is given.
LEMMA InOrderLists ==
    ASSUME NEW ps \in SUBSET Parts PROVE InOrder(ps) \in Seq(Parts) /\ Range(InOrder(ps)) = ps
<1> DEFINE One(p) == IF p \in ps THEN <<p>> ELSE <<>>
           l == One("local")  r == One("remote")  g == One("globalcfg")
<1>1. ASSUME NEW p \in Parts PROVE One(p) \in Seq(Parts) /\ Range(One(p)) = ps \cap {p}
  BY RangeEmpty DEF Range
<1>2. /\ l \in Seq(Parts) /\ r \in Seq(Parts) /\ g \in Seq(Parts)
      /\ Range(l) = ps \cap {"local"} /\ Range(r) = ps \cap {"remote"} /\ Range(g) = ps \cap {"globalcfg"}
  BY <1>1 DEF Parts
<1>3. InOrder(ps) = l \o r \o g BY DEF InOrder
<1> HIDE DEF l, r, g
<1>4. l \o r \in Seq(Parts) /\ Range(l \o r) = Range(l) \cup Range(r)
  BY <1>2, RangeConcatenation, ConcatProperties
<1>5. (l \o r) \o g \in Seq(Parts) /\ Range((l \o r) \o g) = Range(l \o r) \cup Range(g)
  <2> HIDE DEF r
  <2> DEFINE lr == l \o r
  <2>1. lr \in Seq(Parts) BY <1>4
  <2> HIDE DEF lr
  <2>2. lr \o g \in Seq(Parts) BY <1>2, <2>1, ConcatProperties
  <2>3. Range(lr \o g) = Range(lr) \cup Range(g) BY <1>2, <2>1, RangeConcatenation
  <2> QED BY <2>2, <2>3, <1>4 DEF lr
<1>6. ps = (ps \cap {"local"}) \cup (ps \cap {"remote"}) \cup (ps \cap {"globalcfg"}) BY DEF Parts
<1> QED BY <1>2, <1>3, <1>4, <1>5, <1>6

\* Each part has its place.
LEMMA PlacesApart ==
    ASSUME NEW a \in Accounts
    PROVE  /\ \A p \in Parts : Place(a, p) \in Places
           /\ \A p, q \in Parts : Place(a, p) = Place(a, q) => p = q
           /\ \A b \in Accounts, p \in Parts : b # a => Place(a, p) # Place(b, "remote")
BY DEF Place, Places, Parts

\* Files holds what some of the parts may contain.
LEMMA FilesAre ==
    /\ \A f \in Files : DOMAIN f \subseteq Parts /\ f \in [DOMAIN f -> Contents]
    /\ \A ps \in SUBSET Parts : [ps -> Contents] \subseteq Files
BY DEF Files

-----------------------------------------------------------------------------
(* The invariant, kept by each step.                                       *)

\* What the constants and the records of nothing are.
LEMMA GameConstants ==
    /\ Empty \in Contents /\ Torn \in Contents /\ NoSnapshot \in GameSnapshots /\ ~NoSnapshot.auto
    /\ MaxTaken \in Nat /\ Ids = 1 .. MaxTaken
    /\ NoOp \in GameOps /\ NoOp.pc = "idle" /\ NoOp.kind = "none" /\ NoOp.result = "none"
    /\ NoOp.touched = <<>> /\ ~NoOp.disturbed
<1>1. Empty \in Contents /\ Torn \in Contents BY DEF Contents
<1>2. [p \in {} |-> Empty] \in Files
  <2>1. {} \in SUBSET Parts /\ [p \in {} |-> Empty] \in [{} -> Contents] OBVIOUS
  <2> QED BY <2>1, FilesAre
<1>3. NoSnapshot \in GameSnapshots /\ ~NoSnapshot.auto BY <1>1, <1>2 DEF NoSnapshot, GameSnapshots
<1>4. <<>> \in Seq(Parts) OBVIOUS
<1>5. /\ NoOp \in GameOps /\ NoOp.pc = "idle" /\ NoOp.kind = "none" /\ NoOp.result = "none"
      /\ NoOp.touched = <<>> /\ ~NoOp.disturbed
  BY <1>1, <1>4 DEF NoOp, GameOps, GamePcs
<1> QED BY <1>1, <1>3, <1>5, MaxTakenAssumption DEF Ids

\* Where no operation runs, nothing is said of one.
LEMMA NoOpKeeps == ASSUME GameTypes', LibraryAt', op' = NoOp PROVE GameInv'
<1>1. op'.pc = "idle" /\ op'.kind = "none" /\ op'.result = "none" /\ op'.touched = <<>> BY GameConstants
<1> HIDE DEF NoOp
<1>2. RevertAt' /\ RollbackAt' /\ UndoAt' BY <1>1 DEF RevertAt, RollbackAt, UndoAt, RolledBackIsAsFound
<1>3. OpAt' BY <1>1, <1>2 DEF OpAt, Idle
<1> QED BY <1>3 DEF GameInv

\* Nothing is saved and nothing in progress in the beginning.
LEMMA ConfigInitially == ConfigInit => GameInv
<1> SUFFICES ASSUME ConfigInit PROVE GameInv OBVIOUS
<1>1. live \in [Places -> Contents]
  <2>1. PICK held \in SUBSET Places : live = [pl \in Places |-> IF pl \in held THEN pl ELSE Empty]
    BY DEF ConfigInit
  <2> QED BY <2>1 DEF Contents
<1>2. inventory \in [Accounts -> Contents]
  <2>1. \A a \in Accounts : Place(a, "remote") \in Places BY PlacesApart DEF Parts
  <2> QED BY <1>1, <2>1 DEF ConfigInit
<1>3. library \in [Ids -> GameSnapshots] /\ \A id \in Ids : ~library[id].auto BY GameConstants DEF ConfigInit
<1>4. before \in [Ids -> [files : Files, inv : Contents]]
  <2>1. [p \in {} |-> Empty] \in Files BY GameConstants DEF NoSnapshot, GameSnapshots
  <2> QED BY <2>1, GameConstants DEF ConfigInit
<1>5. taken \in 0 .. MaxTaken BY GameConstants DEF ConfigInit
<1>6. op = NoOp /\ client \in Accounts \cup {NoAccount} BY DEF ConfigInit
<1>7. GameTypes BY <1>1, <1>2, <1>3, <1>4, <1>5, <1>6, GameConstants DEF GameTypes
<1>8. LibraryAt BY <1>3 DEF LibraryAt
<1>9. op.pc = "idle" /\ op.kind = "none" /\ op.result = "none" /\ op.touched = <<>> BY <1>6, GameConstants
<1>10. RevertAt /\ RollbackAt /\ UndoAt BY <1>9 DEF RevertAt, RollbackAt, UndoAt, RolledBackIsAsFound
<1> QED BY <1>7, <1>8, <1>9, <1>10 DEF GameInv, OpAt, Idle

\* What a capture keeps is what there is.
LEMMA Captured ==
    ASSUME GameTypes, NEW a \in Accounts, NEW parts \in SUBSET Parts, NEW auto \in BOOLEAN
    PROVE  /\ Capture(a, parts, auto) \in GameSnapshots /\ Capture(a, parts, auto).auto = auto
           /\ Found(a, parts) \in [files : Files, inv : Contents]
           /\ DOMAIN Found(a, parts).files = parts /\ Found(a, parts).inv = inventory[a]
           /\ \A p \in parts : Found(a, parts).files[p] = live[Place(a, p)]
           /\ auto => RevertOf(Capture(a, parts, auto), Found(a, parts))
<1> DEFINE held == {p \in parts : live[Place(a, p)] # Empty}
           c == Capture(a, parts, auto)
           f == Found(a, parts)
<1>1. \A p \in parts : live[Place(a, p)] \in Contents BY PlacesApart DEF GameTypes
<1>2. /\ c = [auto |-> auto, of |-> a, holds |-> [p \in held |-> live[Place(a, p)]],
              empty |-> IF auto THEN parts \ held ELSE {},
              inv |-> IF auto /\ AnySynced(parts) THEN inventory[a] ELSE Empty]
      /\ f = [files |-> [p \in parts |-> live[Place(a, p)]], inv |-> inventory[a]]
  BY DEF Capture, Found, AnySynced
<1>3. [p \in held |-> live[Place(a, p)]] \in Files /\ [p \in parts |-> live[Place(a, p)]] \in Files
  <2>1. held \in SUBSET Parts OBVIOUS
  <2>2. [p \in held |-> live[Place(a, p)]] \in [held -> Contents]
        /\ [p \in parts |-> live[Place(a, p)]] \in [parts -> Contents]
    BY <1>1
  <2> QED BY <2>1, <2>2, FilesAre
<1>4. inventory[a] \in Contents /\ Empty \in Contents BY GameConstants DEF GameTypes
<1> HIDE DEF c, f
<1>5. c \in GameSnapshots /\ c.auto = auto
  <2> DEFINE none == parts \ held
  <2>1. none \in SUBSET Parts /\ {} \in SUBSET Parts OBVIOUS
  <2> HIDE DEF none
  <2>2. c.auto = auto /\ c.of = a /\ c.holds = [p \in held |-> live[Place(a, p)]] BY <1>2
  <2>3. (IF auto THEN parts \ held ELSE {}) \in SUBSET Parts BY <2>1 DEF none
  <2>4. (IF auto /\ AnySynced(parts) THEN inventory[a] ELSE Empty) \in Contents BY <1>4
  <2> HIDE DEF held
  <2> QED BY <1>2, <1>3, <2>3, <2>4 DEF GameSnapshots
<1>6. /\ f.files = [p \in parts |-> live[Place(a, p)]] /\ f.inv = inventory[a] BY <1>2
<1>7. f \in [files : Files, inv : Contents] BY <1>2, <1>3, <1>4
<1>8. DOMAIN f.files = parts /\ \A p \in parts : f.files[p] = live[Place(a, p)] BY <1>6
<1>9. ASSUME auto PROVE RevertOf(c, f)
  <2>1. /\ c.of = a /\ c.holds = [p \in held |-> live[Place(a, p)]] /\ c.empty = parts \ held
        /\ c.inv = IF AnySynced(parts) THEN inventory[a] ELSE Empty
    BY <1>2, <1>9
  <2>2. DOMAIN c.holds = held /\ \A p \in held : c.holds[p] = live[Place(a, p)] BY <2>1
  <2> QED BY <1>6, <1>8, <2>1, <2>2 DEF RevertOf
<1> QED BY <1>5, <1>6, <1>7, <1>8, <1>9 DEF c, f

\* An operation begins: nothing is written yet, and an undo is to write all of its revert point.
LEMMA BeginKeeps ==
    ASSUME GameInv, NEW o \in GameOps, NEW writes \in SUBSET Parts, NEW removes \in SUBSET Parts,
           Begin(o, writes, removes),
           o.touched = <<>>, o.result = "none", o.dest \in Accounts,
           o.kind \in {"copy", "apply", "undo"},
           o.kind = "copy" => o.source \in Accounts, o.kind # "copy" => o.from \in Ids,
           o.kind = "undo" => /\ library[o.from].auto /\ o.putInv = library[o.from].inv
                              /\ writes = DOMAIN library[o.from].holds
                              /\ removes = library[o.from].empty
    PROVE  GameInv'
<1> DEFINE there == {p \in writes : SourceOf(o, p) # Empty}
<1>0. GameTypes /\ LibraryAt BY DEF GameInv
<1>1. /\ op' = [o EXCEPT !.pc = "capture", !.todo = InOrder(there), !.drop = InOrder(removes)]
      /\ UNCHANGED <<live, inventory, library, taken, client, playing, before>>
  BY DEF Begin
<1>2. there \in SUBSET Parts OBVIOUS
<1> HIDE DEF there
<1>3. /\ InOrder(there) \in Seq(Parts) /\ Range(InOrder(there)) = there
      /\ InOrder(removes) \in Seq(Parts) /\ Range(InOrder(removes)) = removes
  BY <1>2, InOrderLists
<1>4. /\ op' \in GameOps /\ op'.pc = "capture" /\ op'.todo = InOrder(there) /\ op'.drop = InOrder(removes)
      /\ op'.kind = o.kind /\ op'.dest = o.dest /\ op'.source = o.source /\ op'.from = o.from
      /\ op'.touched = <<>> /\ op'.result = "none" /\ op'.putInv = o.putInv
  BY <1>1, <1>3 DEF GameOps, GamePcs
<1>5. GameTypes' BY <1>0, <1>1, <1>4 DEF GameTypes
<1>6. LibraryAt' BY <1>0, <1>1 DEF LibraryAt, RevertOf
<1>7. RevertAt' /\ RollbackAt' BY <1>4 DEF RevertAt, RollbackAt, RolledBackIsAsFound
<1>8. UndoAt'
  <2> SUFFICES ASSUME o.kind = "undo" PROVE UndoAt' BY <1>4 DEF UndoAt
  <2>1. RevertOf(library[o.from], before[o.from]) /\ o.from \in Ids BY <1>0 DEF LibraryAt
  <2>2. there = DOMAIN library[o.from].holds BY <2>1 DEF there, SourceOf, RevertOf
  <2>3. Range(op'.todo) = DOMAIN library[o.from].holds /\ Range(op'.drop) = library[o.from].empty
    BY <1>3, <1>4, <2>2
  <2>4. Ahead' = DOMAIN before[o.from].files BY <2>1, <2>3 DEF Ahead, RevertOf
  <2>5. o.putInv = IF AnySynced(DOMAIN before[o.from].files) THEN before[o.from].inv ELSE Empty
    BY <2>1 DEF RevertOf
  <2> QED BY <1>1, <1>4, <2>1, <2>3, <2>4, <2>5 DEF UndoAt, UndoPutsBack, AnySynced
<1> QED BY <1>4, <1>5, <1>6, <1>7, <1>8 DEF GameInv, OpAt

\* A copy between accounts begins.
LEMMA CopyStep ==
    ASSUME GameInv, NEW src \in Accounts, NEW dst \in Accounts, NEW parts \in Selections,
           CopyGameConfigBetween(src, dst, parts)
    PROVE  GameInv'
<1> DEFINE o == [NoOp EXCEPT !.kind = "copy", !.dest = dst, !.source = src]
<1>1. Begin(o, parts \ {"globalcfg"}, {}) BY DEF CopyGameConfigBetween
<1>2. /\ o \in GameOps /\ o.touched = <<>> /\ o.result = "none" /\ o.dest \in Accounts
      /\ o.kind = "copy" /\ o.source \in Accounts
  BY GameConstants DEF GameOps
<1>3. parts \ {"globalcfg"} \in SUBSET Parts BY SelectionsAssumption DEF Parts
<1> HIDE DEF o
<1> QED BY <1>1, <1>2, <1>3, BeginKeeps

\* A saved config or a revert point begins to be applied.
LEMMA ApplySavedStep ==
    ASSUME GameInv, NEW id \in Ids, NEW dst \in Accounts, NEW parts \in Selections,
           ApplyGameConfigSnapshot(id, dst, parts)
    PROVE  GameInv'
<1> DEFINE snap      == library[id]
           removable == snap.auto /\ snap.of = dst
           usable    == parts \cap DOMAIN snap.holds
           removes   == IF removable THEN parts \cap snap.empty ELSE {}
           all       == usable = DOMAIN snap.holds /\ removes = snap.empty
           inv       == IF removable /\ all THEN snap.inv ELSE Empty
           o         == [NoOp EXCEPT !.kind = "apply", !.dest = dst, !.from = id, !.putInv = inv]
<1>1. Begin(o, usable, removes) BY DEF ApplyGameConfigSnapshot
<1>2. snap \in GameSnapshots BY DEF GameInv, GameTypes
<1>3. inv \in Contents BY <1>2, GameConstants DEF GameSnapshots
<1>4. parts \in SUBSET Parts BY SelectionsAssumption DEF Parts
<1>5. usable \in SUBSET Parts /\ removes \in SUBSET Parts BY <1>4
<1> HIDE DEF inv, usable, removes
<1>6. /\ o \in GameOps /\ o.touched = <<>> /\ o.result = "none" /\ o.dest \in Accounts
      /\ o.kind = "apply" /\ o.from \in Ids
  BY <1>3, GameConstants DEF GameOps
<1> HIDE DEF o
<1> QED BY <1>1, <1>5, <1>6, BeginKeeps

\* An undo begins: what its revert point is of is what it has ahead.
LEMMA UndoStep ==
    ASSUME GameInv, NEW id \in Ids, UndoGameConfigCopy(id) PROVE GameInv'
<1> DEFINE snap == library[id]
           o    == [NoOp EXCEPT !.kind = "undo", !.dest = snap.of, !.from = id, !.putInv = snap.inv]
<1>1. Begin(o, DOMAIN snap.holds, snap.empty) /\ snap.auto BY DEF UndoGameConfigCopy
<1>2. snap \in GameSnapshots /\ RevertOf(snap, before[id]) BY <1>1 DEF GameInv, GameTypes, LibraryAt
<1>3. snap.inv \in Contents /\ snap.of \in Accounts /\ DOMAIN snap.holds \in SUBSET Parts
      /\ snap.empty \in SUBSET Parts
  BY <1>2, FilesAre DEF GameSnapshots, RevertOf
<1>4. /\ o \in GameOps /\ o.touched = <<>> /\ o.result = "none" /\ o.dest \in Accounts
      /\ o.kind = "undo" /\ o.from = id /\ o.putInv = snap.inv
  BY <1>3, GameConstants DEF GameOps
<1> HIDE DEF o
<1> QED BY <1>1, <1>3, <1>4, BeginKeeps

\* The revert point is taken before the first write, of all that will be written or removed.
LEMMA CaptureStep == ASSUME GameInv, CaptureRevertPoint PROVE GameInv'
<1> DEFINE n == taken + 1
           snap == Capture(op.dest, Ahead, TRUE)
           found == Found(op.dest, Ahead)
<1>0. GameTypes /\ LibraryAt /\ UndoAt /\ OpAt BY DEF GameInv, OpAt
<1>1. /\ op.pc = "capture" /\ taken < MaxTaken /\ taken' = n
      /\ library' = [library EXCEPT ![n] = snap] /\ before' = [before EXCEPT ![n] = found]
      /\ op' = [op EXCEPT !.pc = "write", !.revert = n]
      /\ UNCHANGED <<live, inventory, client, playing>>
  BY DEF CaptureRevertPoint, Ahead
<1>2. n \in Ids /\ n \in 0 .. MaxTaken /\ taken \in Nat BY <1>0, <1>1, GameConstants DEF GameTypes
<1>3. op.dest \in Accounts /\ op.result = "none" /\ op.touched = <<>> /\ Ahead \in SUBSET Parts
  BY <1>0, <1>1, RangeOfSeq DEF OpAt, Idle, RollbackAt, GameTypes, GameOps, Ahead
<1>4. /\ snap \in GameSnapshots /\ snap.auto /\ found \in [files : Files, inv : Contents]
      /\ DOMAIN found.files = Ahead /\ found.inv = inventory[op.dest]
      /\ \A p \in Ahead : found.files[p] = live[Place(op.dest, p)]
      /\ RevertOf(snap, found)
  BY <1>0, <1>3, Captured
<1> HIDE DEF snap, found, n
<1>5. /\ op' \in GameOps /\ op'.pc = "write" /\ op'.revert = n /\ op'.touched = <<>>
      /\ op'.kind = op.kind /\ op'.dest = op.dest /\ op'.source = op.source /\ op'.from = op.from
      /\ op'.todo = op.todo /\ op'.drop = op.drop /\ op'.putInv = op.putInv /\ op'.cloud = op.cloud
      /\ op'.result = "none" /\ op'.disturbed = op.disturbed
  BY <1>0, <1>1, <1>2, <1>3 DEF GameTypes, GameOps, GamePcs
<1>6. GameTypes' BY <1>0, <1>1, <1>2, <1>4, <1>5 DEF GameTypes
<1>7. /\ library'[n] = snap /\ before'[n] = found
      /\ \A id \in Ids \ {n} : library'[id] = library[id] /\ before'[id] = before[id]
  BY <1>0, <1>1, <1>2 DEF GameTypes
<1>8. LibraryAt'
  <2> SUFFICES ASSUME NEW id \in Ids, library'[id].auto
               PROVE  id <= taken' /\ RevertOf(library'[id], before'[id])
    BY DEF LibraryAt, RevertOf
  <2>1. CASE id = n BY <1>1, <1>2, <1>4, <1>7, <2>1, GameConstants
  <2>2. CASE id # n
    <3>1. id <= taken /\ RevertOf(library[id], before[id]) BY <1>0, <1>7, <2>2 DEF LibraryAt
    <3> QED BY <1>1, <1>2, <1>7, <2>2, <3>1, GameConstants DEF n
  <2> QED BY <2>1, <2>2
<1>9. RevertAt' BY <1>2, <1>4, <1>5, <1>7 DEF RevertAt
<1>10. Ahead' = Ahead BY <1>5 DEF Ahead
<1>11. RollbackAt'
  BY <1>1, <1>4, <1>5, <1>7, <1>10, RangeEmpty DEF RollbackAt, RolledBackIsAsFound
<1>12. UndoAt'
  <2> SUFFICES ASSUME op.kind = "undo" PROVE UndoAt' BY <1>5 DEF UndoAt
  <2>1. op.from \in Ids /\ op.from # n
    BY <1>0, <1>1, <1>2 DEF UndoAt, LibraryAt, n
  <2>2. library'[op.from] = library[op.from] /\ before'[op.from] = before[op.from] BY <1>7, <2>1
  <2> QED BY <1>0, <1>1, <1>5, <1>10, <2>1, <2>2 DEF UndoAt, UndoPutsBack
<1>13. OpAt' BY <1>0, <1>1, <1>3, <1>5, <1>9, <1>11, <1>12 DEF OpAt, Idle
<1> QED BY <1>6, <1>8, <1>13 DEF GameInv

\* A step that writes, removes or half writes one part: the part is touched, and done when it is as
\* an undo wants it.
LEMMA TouchKeeps ==
    ASSUME GameInv, op.pc = "write", NEW p \in Ahead,
           live' \in [Places -> Contents],
           \A pl \in Places \ {Place(op.dest, p)} : live'[pl] = live[pl],
           UNCHANGED <<inventory, library, taken, client, before>>,
           op' \in GameOps, op'.pc \in {"write", "rollback"},
           Range(op'.touched) = Range(op.touched) \cup {p},
           Range(op'.todo) \subseteq Range(op.todo), Range(op'.drop) \subseteq Range(op.drop),
           op'.kind = op.kind, op'.dest = op.dest, op'.source = op.source, op'.from = op.from,
           op'.revert = op.revert, op'.putInv = op.putInv, op'.result = op.result,
           op'.disturbed = op.disturbed, op.cloud => op'.cloud,
           op'.pc = "write" /\ op.kind = "undo" =>
               /\ Ahead \ {p} \subseteq Ahead'
               /\ live'[Place(op.dest, p)] = before[op.from].files[p]
               /\ PartCloudSynced(p) => op'.cloud
    PROVE  GameInv'
<1>0. GameTypes /\ LibraryAt /\ OpAt /\ RevertAt /\ RollbackAt /\ UndoAt BY DEF GameInv, OpAt
<1>1. op.dest \in Accounts /\ op.result = "none" /\ p \in Parts
      /\ op.revert \in Ids /\ DOMAIN before[op.revert].files \subseteq Parts
  BY <1>0, RangeOfSeq, FilesAre DEF OpAt, Idle, GameTypes, GameOps, Ahead, RevertAt
<1>2. \A q \in Parts \ {p} : live'[Place(op.dest, q)] = live[Place(op.dest, q)]
  BY <1>1, PlacesApart
<1>3. Ahead' \subseteq Ahead BY DEF Ahead
<1>4. GameTypes' BY <1>0 DEF GameTypes
<1>5. LibraryAt' BY <1>0 DEF LibraryAt, RevertOf
<1>6. RevertAt' BY <1>0 DEF RevertAt
<1>7. RollbackAt'
  <2>1. /\ op.revert = taken
        /\ Range(op.touched) \cup Ahead \subseteq DOMAIN before[op.revert].files
        /\ ~op.disturbed =>
              /\ inventory[op.dest] = before[op.revert].inv
              /\ \A q \in DOMAIN before[op.revert].files \ Range(op.touched) :
                    live[Place(op.dest, q)] = before[op.revert].files[q]
    BY <1>0 DEF RollbackAt
  <2>2. \A q \in DOMAIN before[op.revert].files \ Range(op'.touched) :
            q \in Parts \ {p} /\ q \notin Range(op.touched)
    BY <1>1
  <2> QED BY <1>1, <1>2, <1>3, <2>1, <2>2 DEF RollbackAt, RolledBackIsAsFound
<1>8. UndoAt'
  <2> SUFFICES ASSUME op.kind = "undo" PROVE UndoAt' BY DEF UndoAt
  <2>1. /\ library[op.from].auto /\ op.from \in Ids
        /\ Range(op.todo) \subseteq DOMAIN library[op.from].holds
        /\ Range(op.drop) \subseteq library[op.from].empty
        /\ \A q \in DOMAIN before[op.from].files \ Ahead :
              /\ ~op.disturbed => live[Place(op.dest, q)] = before[op.from].files[q]
              /\ PartCloudSynced(q) => op.cloud
    BY <1>0 DEF UndoAt
  <2>2. DOMAIN before[op.from].files \subseteq Parts BY <1>0, <2>1, FilesAre DEF GameTypes
  <2>3. ASSUME op'.pc = "write", NEW q \in DOMAIN before[op.from].files \ Ahead'
        PROVE  /\ ~op.disturbed => live'[Place(op.dest, q)] = before[op.from].files[q]
               /\ PartCloudSynced(q) => op'.cloud
    <3>1. CASE q = p BY <2>3, <3>1
    <3>2. CASE q # p
      <4>1. q \notin Ahead BY <2>3, <3>2
      <4> QED BY <1>2, <2>1, <2>2, <3>2, <4>1
    <3> QED BY <3>1, <3>2
  <2> QED BY <1>0, <1>1, <2>1, <2>3 DEF UndoAt, UndoPutsBack
<1>9. OpAt' BY <1>0, <1>1, <1>6, <1>7, <1>8 DEF OpAt, Idle
<1> QED BY <1>4, <1>5, <1>9 DEF GameInv

\* One part is written.
LEMMA WriteStep == ASSUME GameInv, WritePart PROVE GameInv'
<1> DEFINE p == Head(op.todo)
           from == SourceOf(op, p)
           dst == Place(op.dest, p)
<1>0. GameTypes /\ LibraryAt /\ OpAt /\ UndoAt BY DEF GameInv, OpAt
<1>1. /\ op.pc = "write" /\ op.todo # <<>>
      /\ live' = IF from = Empty THEN live ELSE [live EXCEPT ![dst] = from]
      /\ op' = [Touch(op, p) EXCEPT !.todo = Tail(@), !.cloud = @ \/ PartCloudSynced(p)]
      /\ UNCHANGED <<inventory, library, taken, client, playing, before>>
  BY DEF WritePart
<1>2. op.dest \in Accounts /\ op.todo \in Seq(Parts) /\ op.touched \in Seq(Parts)
  BY <1>0, <1>1 DEF OpAt, Idle, GameTypes, GameOps
<1>3. /\ p \in Parts /\ Tail(op.todo) \in Seq(Parts) /\ Range(op.todo) = {p} \cup Range(Tail(op.todo))
      /\ Append(op.touched, p) \in Seq(Parts) /\ Range(Append(op.touched, p)) = Range(op.touched) \cup {p}
  BY <1>1, <1>2, TakeHead, AppendOne
<1>4. dst \in Places BY <1>2, <1>3, PlacesApart
<1>5. from \in Contents
  <2>1. CASE op.kind = "copy"
    <3>1. op.source \in Accounts /\ Place(op.source, p) \in Places BY <1>0, <1>3, <2>1, PlacesApart DEF OpAt
    <3> QED BY <1>0, <2>1, <3>1 DEF SourceOf, GameTypes
  <2>2. CASE op.kind # "copy"
    <3>1. CASE p \in DOMAIN library[op.from].holds
      <4>1. op.from \in Ids /\ library[op.from].holds \in Files
        BY <1>0, <1>1, <2>2 DEF OpAt, GameTypes, GameSnapshots
      <4>2. library[op.from].holds[p] \in Contents BY <3>1, <4>1, FilesAre
      <4> QED BY <2>2, <3>1, <4>2 DEF SourceOf
    <3>2. CASE p \notin DOMAIN library[op.from].holds BY <2>2, <3>2, GameConstants DEF SourceOf
    <3> QED BY <3>1, <3>2
  <2> QED BY <2>1, <2>2
<1> HIDE DEF from, dst, p
<1>6. live' \in [Places -> Contents] /\ \A pl \in Places \ {dst} : live'[pl] = live[pl]
  BY <1>0, <1>1, <1>4, <1>5 DEF GameTypes
<1>7. /\ op' \in GameOps /\ op'.pc = "write" /\ op'.todo = Tail(op.todo) /\ op'.drop = op.drop
      /\ op'.touched = Append(op.touched, p) /\ op'.cloud = (op.cloud \/ PartCloudSynced(p))
      /\ op'.kind = op.kind /\ op'.dest = op.dest /\ op'.source = op.source /\ op'.from = op.from
      /\ op'.revert = op.revert /\ op'.putInv = op.putInv /\ op'.result = op.result
      /\ op'.disturbed = op.disturbed
  BY <1>0, <1>1, <1>3 DEF Touch, GameTypes, GameOps, PartCloudSynced
<1>8. p \in Ahead /\ Ahead \ {p} \subseteq Ahead' BY <1>3, <1>7 DEF Ahead
<1>9. op.kind = "undo" => live'[dst] = before[op.from].files[p]
  <2> SUFFICES ASSUME op.kind = "undo" PROVE live'[dst] = before[op.from].files[p] OBVIOUS
  <2>1. /\ p \in DOMAIN library[op.from].holds /\ RevertOf(library[op.from], before[op.from])
    BY <1>0, <1>1, <1>3 DEF UndoAt, LibraryAt
  <2>2. from = before[op.from].files[p] /\ from # Empty BY <2>1 DEF from, SourceOf, RevertOf, p
  <2> QED BY <1>0, <1>1, <1>4, <2>2 DEF GameTypes
<1>10. \A pl \in Places \ {Place(op.dest, p)} : live'[pl] = live[pl] BY <1>6 DEF dst
<1>11. op.kind = "undo" => live'[Place(op.dest, p)] = before[op.from].files[p] BY <1>9 DEF dst
<1> QED BY <1>1, <1>3, <1>6, <1>7, <1>8, <1>10, <1>11, TouchKeeps

\* One part is removed.
LEMMA RemoveStep == ASSUME GameInv, RemovePart PROVE GameInv'
<1> DEFINE p == Head(op.drop)
           dst == Place(op.dest, p)
<1>0. GameTypes /\ LibraryAt /\ OpAt /\ UndoAt BY DEF GameInv, OpAt
<1>1. /\ op.pc = "write" /\ op.drop # <<>> /\ live' = [live EXCEPT ![dst] = Empty]
      /\ op' = [Touch(op, p) EXCEPT !.drop = Tail(@), !.cloud = @ \/ PartCloudSynced(p)]
      /\ UNCHANGED <<inventory, library, taken, client, playing, before>>
  BY DEF RemovePart
<1>2. op.dest \in Accounts /\ op.drop \in Seq(Parts) /\ op.touched \in Seq(Parts)
  BY <1>0, <1>1 DEF OpAt, Idle, GameTypes, GameOps
<1>3. /\ p \in Parts /\ Tail(op.drop) \in Seq(Parts) /\ Range(op.drop) = {p} \cup Range(Tail(op.drop))
      /\ Append(op.touched, p) \in Seq(Parts) /\ Range(Append(op.touched, p)) = Range(op.touched) \cup {p}
  BY <1>1, <1>2, TakeHead, AppendOne
<1>4. dst \in Places BY <1>2, <1>3, PlacesApart
<1> HIDE DEF dst, p
<1>5. live' \in [Places -> Contents] /\ live'[dst] = Empty /\ \A pl \in Places \ {dst} : live'[pl] = live[pl]
  BY <1>0, <1>1, <1>4, GameConstants DEF GameTypes
<1>6. /\ op' \in GameOps /\ op'.pc = "write" /\ op'.drop = Tail(op.drop) /\ op'.todo = op.todo
      /\ op'.touched = Append(op.touched, p) /\ op'.cloud = (op.cloud \/ PartCloudSynced(p))
      /\ op'.kind = op.kind /\ op'.dest = op.dest /\ op'.source = op.source /\ op'.from = op.from
      /\ op'.revert = op.revert /\ op'.putInv = op.putInv /\ op'.result = op.result
      /\ op'.disturbed = op.disturbed
  BY <1>0, <1>1, <1>3 DEF Touch, GameTypes, GameOps, PartCloudSynced
<1>7. p \in Ahead /\ Ahead \ {p} \subseteq Ahead' BY <1>3, <1>6 DEF Ahead
<1>8. op.kind = "undo" => before[op.from].files[p] = Empty
  BY <1>0, <1>1, <1>3 DEF UndoAt, LibraryAt, RevertOf
<1>9. /\ \A pl \in Places \ {Place(op.dest, p)} : live'[pl] = live[pl]
      /\ live'[Place(op.dest, p)] = Empty
  BY <1>5 DEF dst
<1> QED BY <1>1, <1>3, <1>5, <1>6, <1>7, <1>8, <1>9, TouchKeeps

\* What is left of one part says nothing of the others.
LEMMA HalfKeeps ==
    ASSUME GameTypes, NEW dst \in Places, live' \in Half(dst)
    PROVE  live' \in [Places -> Contents] /\ \A pl \in Places \ {dst} : live'[pl] = live[pl]
<1>1. PICK c \in {Torn, Empty, live[dst]} : live' = [live EXCEPT ![dst] = c] BY DEF Half
<1>2. c \in Contents BY GameConstants DEF GameTypes
<1> QED BY <1>1, <1>2 DEF GameTypes

\* What comes first of two sequences one after the other is listed in one of them.
LEMMA HeadOfBoth ==
    ASSUME NEW S, NEW s \in Seq(S), NEW u \in Seq(S), s \o u # <<>>
    PROVE  Head(s \o u) \in Range(s) \cup Range(u) /\ Head(s \o u) \in S
<1> DEFINE b == s \o u
<1>1. b \in Seq(S) BY ConcatProperties
<1>2. Range(b) = Range(s) \cup Range(u) BY RangeConcatenation
<1> HIDE DEF b
<1>3. b # <<>> BY DEF b
<1>4. Head(b) \in S /\ Head(b) \in Range(b) BY <1>1, <1>3, TakeHead
<1> QED BY <1>2, <1>4 DEF b

\* A write fails half way, and the part is touched all the same.
LEMMA WriteFailsStep == ASSUME GameInv, WriteFails PROVE GameInv'
<1> DEFINE p == Head(op.todo \o op.drop)
<1>0. GameTypes /\ OpAt BY DEF GameInv
<1>1. /\ op.pc = "write" /\ op.todo \o op.drop # <<>> /\ live' \in Half(Place(op.dest, p))
      /\ op' = [Touch(op, p) EXCEPT !.pc = "rollback", !.todo = <<>>, !.drop = <<>>]
      /\ UNCHANGED <<inventory, library, taken, client, playing, before>>
  BY DEF WriteFails
<1>2. /\ op.dest \in Accounts /\ op.todo \in Seq(Parts) /\ op.drop \in Seq(Parts)
      /\ op.touched \in Seq(Parts)
  BY <1>0, <1>1 DEF OpAt, Idle, GameTypes, GameOps
<1>3. p \in Parts /\ p \in Ahead BY <1>1, <1>2, HeadOfBoth DEF Ahead
<1> HIDE DEF p
<1>4. Append(op.touched, p) \in Seq(Parts) /\ Range(Append(op.touched, p)) = Range(op.touched) \cup {p}
  BY <1>2, <1>3, AppendOne
<1>5. Place(op.dest, p) \in Places BY <1>2, <1>3, PlacesApart
<1>6. /\ op' \in GameOps /\ op'.pc = "rollback" /\ op'.drop = <<>> /\ op'.todo = <<>>
      /\ op'.touched = Append(op.touched, p) /\ op'.cloud = op.cloud
      /\ op'.kind = op.kind /\ op'.dest = op.dest /\ op'.source = op.source /\ op'.from = op.from
      /\ op'.revert = op.revert /\ op'.putInv = op.putInv /\ op'.result = op.result
      /\ op'.disturbed = op.disturbed
  <2>1. <<>> \in Seq(Parts) OBVIOUS
  <2> QED BY <1>0, <1>1, <1>4, <2>1 DEF Touch, GameTypes, GameOps, GamePcs
<1>7. Range(op'.todo) = {} /\ Range(op'.drop) = {} BY <1>6, RangeEmpty
<1> QED BY <1>0, <1>1, <1>3, <1>4, <1>5, <1>6, <1>7, HalfKeeps, TouchKeeps

\* A step that writes no part and keeps the library.
LEMMA ForgetStep == ASSUME GameInv, ForgetInventory PROVE GameInv'
<1>0. GameTypes /\ LibraryAt /\ OpAt /\ RevertAt /\ RollbackAt /\ UndoAt BY DEF GameInv, OpAt
<1>1. /\ op.pc = "write" /\ op.todo = <<>> /\ op.drop = <<>>
      /\ inventory' = IF op.cloud THEN [inventory EXCEPT ![op.dest] = Empty] ELSE inventory
      /\ op' = [op EXCEPT !.pc = "prune"]
      /\ UNCHANGED <<live, library, taken, client, playing, before>>
  BY DEF ForgetInventory
<1>2. op.dest \in Accounts /\ op.result = "none" /\ Ahead = {}
  BY <1>0, <1>1, RangeEmpty DEF OpAt, Idle, Ahead
<1>3. /\ op' \in GameOps /\ op'.pc = "prune"
      /\ op'.kind = op.kind /\ op'.dest = op.dest /\ op'.source = op.source /\ op'.from = op.from
      /\ op'.revert = op.revert /\ op'.putInv = op.putInv /\ op'.result = op.result
      /\ op'.disturbed = op.disturbed
  BY <1>0, <1>1 DEF GameTypes, GameOps, GamePcs
<1>4. inventory' \in [Accounts -> Contents] /\ (op.cloud => inventory'[op.dest] = Empty)
  BY <1>0, <1>1, <1>2, GameConstants DEF GameTypes
<1>5. GameTypes' BY <1>0, <1>1, <1>3, <1>4 DEF GameTypes
<1>6. LibraryAt' BY <1>0, <1>1 DEF LibraryAt, RevertOf
<1>7. RevertAt' /\ RollbackAt'
  BY <1>0, <1>1, <1>2, <1>3 DEF RevertAt, RollbackAt, RolledBackIsAsFound
<1>8. UndoAt'
  <2> SUFFICES ASSUME op.kind = "undo" PROVE UndoAt' BY <1>3 DEF UndoAt
  <2>1. \A p \in DOMAIN before[op.from].files :
            /\ ~op.disturbed => live[Place(op.dest, p)] = before[op.from].files[p]
            /\ PartCloudSynced(p) => op.cloud
    BY <1>0, <1>1, <1>2 DEF UndoAt
  <2>2. AnySynced(DOMAIN before[op.from].files) => op.cloud BY <2>1 DEF AnySynced
  <2> QED BY <1>0, <1>1, <1>2, <1>3, <1>4, <2>1, <2>2 DEF UndoAt, UndoPutsBack, AnySynced
<1>9. OpAt' BY <1>0, <1>1, <1>2, <1>3, <1>7, <1>8 DEF OpAt, Idle
<1> QED BY <1>5, <1>6, <1>9 DEF GameInv

\* Pruning by age leaves the newest revert point, whatever the cap.
LEMMA PruneStep == ASSUME GameInv, PruneAutoSnapshots PROVE GameInv'
<1>0. GameTypes /\ LibraryAt /\ OpAt /\ RevertAt /\ RollbackAt /\ UndoAt BY DEF GameInv, OpAt
<1>1. /\ op.pc = "prune" /\ library' = Pruned /\ op' = [op EXCEPT !.pc = "putInventory"]
      /\ UNCHANGED <<live, inventory, taken, client, playing, before>>
  BY DEF PruneAutoSnapshots
<1>2. library' \in [Ids -> GameSnapshots] /\ \A id \in Ids : library'[id] \in {library[id], NoSnapshot}
  BY <1>0, <1>1, GameConstants DEF Pruned, GameTypes
<1>3. op.revert = taken /\ taken \in Ids /\ library[taken].auto /\ op.dest \in Accounts /\ op.result = "none"
  BY <1>0, <1>1 DEF RevertAt, RollbackAt, OpAt, Idle
<1>4. library'[taken] = library[taken]
  <2>1. \A n \in Autos : n <= taken BY <1>0 DEF Autos, LibraryAt
  <2>2. {n \in Autos : n > taken} = {} BY <1>3, <2>1, GameConstants DEF Autos
  <2>3. ~(Cardinality({n \in Autos : n > taken}) >= MaxAuto)
    BY <2>2, FS_EmptySet, MaxAutoAssumption
  <2> QED BY <1>1, <1>3, <2>3 DEF Pruned
<1>5. /\ op' \in GameOps /\ op'.pc = "putInventory"
      /\ op'.kind = op.kind /\ op'.dest = op.dest /\ op'.source = op.source /\ op'.from = op.from
      /\ op'.revert = op.revert /\ op'.putInv = op.putInv /\ op'.result = op.result
      /\ op'.disturbed = op.disturbed
  BY <1>0, <1>1 DEF GameTypes, GameOps, GamePcs
<1>6. GameTypes' BY <1>0, <1>1, <1>2, <1>5 DEF GameTypes
<1>7. LibraryAt'
  <2> SUFFICES ASSUME NEW id \in Ids, library'[id].auto
               PROVE  id <= taken' /\ RevertOf(library'[id], before'[id])
    BY DEF LibraryAt, RevertOf
  <2>1. library'[id] = library[id] BY <1>2, GameConstants
  <2> QED BY <1>0, <1>1, <2>1 DEF LibraryAt
<1>8. RevertAt' /\ RollbackAt'
  BY <1>1, <1>3, <1>4, <1>5 DEF RevertAt, RollbackAt, RolledBackIsAsFound
<1>9. UndoAt' BY <1>0, <1>1, <1>3, <1>5 DEF UndoAt, UndoPutsBack
<1>10. OpAt' BY <1>0, <1>1, <1>3, <1>5, <1>8, <1>9 DEF OpAt, Idle
<1> QED BY <1>6, <1>7, <1>10 DEF GameInv

\* An operation ends by putting back what Steam kept of the cloud files.
LEMMA PutInventoryStep == ASSUME GameInv, PutInventory PROVE GameInv'
<1>0. GameTypes /\ LibraryAt /\ OpAt /\ RevertAt /\ RollbackAt /\ UndoAt BY DEF GameInv, OpAt
<1>1. /\ op.pc = "putInventory"
      /\ inventory' = IF op.putInv # Empty THEN [inventory EXCEPT ![op.dest] = op.putInv] ELSE inventory
      /\ op' = [op EXCEPT !.pc = "returned", !.result = "done"]
      /\ UNCHANGED <<live, library, taken, client, playing, before>>
  BY DEF PutInventory
<1>2. op.dest \in Accounts /\ op.putInv \in Contents BY <1>0, <1>1 DEF OpAt, Idle, GameTypes, GameOps
<1>3. /\ op' \in GameOps /\ op'.pc = "returned" /\ op'.result = "done"
      /\ op'.kind = op.kind /\ op'.dest = op.dest /\ op'.source = op.source /\ op'.from = op.from
      /\ op'.revert = op.revert /\ op'.putInv = op.putInv /\ op'.disturbed = op.disturbed
  BY <1>0, <1>1 DEF GameTypes, GameOps, GamePcs
<1>4. inventory' \in [Accounts -> Contents]
      /\ inventory'[op.dest] = IF op.putInv # Empty THEN op.putInv ELSE inventory[op.dest]
  BY <1>0, <1>1, <1>2 DEF GameTypes
<1>5. GameTypes' BY <1>0, <1>1, <1>3, <1>4 DEF GameTypes
<1>6. LibraryAt' BY <1>0, <1>1 DEF LibraryAt, RevertOf
<1>7. RevertAt' /\ RollbackAt'
  BY <1>0, <1>1, <1>3 DEF RevertAt, RollbackAt, RolledBackIsAsFound
<1>8. UndoAt' BY <1>0, <1>1, <1>3, <1>4 DEF UndoAt, UndoPutsBack, AnySynced
<1>9. OpAt' BY <1>0, <1>3, <1>7, <1>8 DEF OpAt, Idle
<1> QED BY <1>5, <1>6, <1>9 DEF GameInv

\* A rollback puts each touched part back as it was found, what there was nothing of included.
LEMMA RollBackPartStep == ASSUME GameInv, RollBackPart PROVE GameInv'
<1> DEFINE p == Head(op.touched)
           found == before[op.revert]
           snap == library[op.revert]
           dst == Place(op.dest, p)
<1>0. GameTypes /\ LibraryAt /\ OpAt /\ RevertAt /\ RollbackAt BY DEF GameInv, OpAt
<1>1. /\ op.pc = "rollback" /\ op.touched # <<>> /\ live' = [live EXCEPT ![dst] = RolledBack(p)]
      /\ op' = [op EXCEPT !.touched = Tail(@)]
      /\ UNCHANGED <<inventory, library, taken, client, playing, before>>
  BY DEF RollBackPart
<1>2. /\ op.dest \in Accounts /\ op.touched \in Seq(Parts) /\ op.result = "none"
      /\ op.revert \in Ids /\ RevertOf(snap, found) /\ found.files \in Files
  BY <1>0, <1>1 DEF OpAt, Idle, GameTypes, GameOps, RevertAt, LibraryAt
<1>3. p \in Parts /\ Tail(op.touched) \in Seq(Parts) /\ Range(op.touched) = {p} \cup Range(Tail(op.touched))
  BY <1>1, <1>2, TakeHead
<1>4. /\ Range(op.touched) \cup Ahead \subseteq DOMAIN found.files /\ op.revert = taken
      /\ ~op.disturbed => /\ inventory[op.dest] = found.inv
                          /\ \A q \in DOMAIN found.files \ Range(op.touched) :
                                live[Place(op.dest, q)] = found.files[q]
  BY <1>0, <1>1 DEF RollbackAt
<1>5. RolledBack(p) = found.files[p] BY <1>2, <1>3, <1>4 DEF RolledBack, RevertOf
<1>6. dst \in Places /\ found.files[p] \in Contents BY <1>2, <1>3, <1>4, PlacesApart, FilesAre
<1>7. DOMAIN found.files \subseteq Parts BY <1>2, FilesAre
<1> HIDE DEF p, found, dst
<1>8. /\ live' \in [Places -> Contents] /\ live'[dst] = found.files[p]
      /\ \A pl \in Places \ {dst} : live'[pl] = live[pl]
  BY <1>0, <1>1, <1>5, <1>6 DEF GameTypes
<1>9. /\ op' \in GameOps /\ op'.pc = "rollback" /\ op'.touched = Tail(op.touched)
      /\ op'.todo = op.todo /\ op'.drop = op.drop
      /\ op'.kind = op.kind /\ op'.dest = op.dest /\ op'.source = op.source /\ op'.from = op.from
      /\ op'.revert = op.revert /\ op'.result = op.result /\ op'.disturbed = op.disturbed
  BY <1>0, <1>1, <1>3 DEF GameTypes, GameOps
<1>10. GameTypes' BY <1>0, <1>1, <1>8, <1>9 DEF GameTypes
<1>11. LibraryAt' BY <1>0, <1>1 DEF LibraryAt, RevertOf
<1>12. RevertAt' BY <1>0, <1>1, <1>9 DEF RevertAt
<1>13. ASSUME ~op.disturbed, NEW q \in DOMAIN found.files \ Range(op'.touched)
       PROVE  live'[Place(op.dest, q)] = found.files[q]
  <2>1. CASE q = p BY <1>8, <2>1 DEF dst
  <2>2. CASE q # p
    <3>1. q \in DOMAIN found.files \ Range(op.touched) BY <1>3, <1>9, <1>13, <2>2
    <3>2. Place(op.dest, q) \in Places \ {dst} BY <1>2, <1>3, <1>7, <1>13, <2>2, PlacesApart DEF dst
    <3> QED BY <1>4, <1>8, <1>13, <3>1, <3>2
  <2> QED BY <2>1, <2>2
<1>14. Range(op'.touched) \cup Ahead' \subseteq DOMAIN found.files BY <1>3, <1>4, <1>9 DEF Ahead
<1>15. RollbackAt'
  BY <1>1, <1>2, <1>4, <1>9, <1>13, <1>14 DEF RollbackAt, RolledBackIsAsFound, found
<1>16. UndoAt' BY <1>2, <1>9 DEF UndoAt, UndoPutsBack
<1>17. OpAt' BY <1>0, <1>1, <1>9, <1>12, <1>15, <1>16 DEF OpAt, Idle
<1> QED BY <1>10, <1>11, <1>17 DEF GameInv

\* A rollback fails half way, and says so.
LEMMA RollBackFailsStep == ASSUME GameInv, RollBackFails PROVE GameInv'
<1> DEFINE p == Head(op.touched)
<1>0. GameTypes /\ LibraryAt /\ OpAt /\ RevertAt BY DEF GameInv, OpAt
<1>1. /\ op.pc = "rollback" /\ op.touched # <<>> /\ live' \in Half(Place(op.dest, p))
      /\ op' = [op EXCEPT !.pc = "returned", !.result = "notRolledBack"]
      /\ UNCHANGED <<inventory, library, taken, client, playing, before>>
  BY DEF RollBackFails
<1>2. op.dest \in Accounts /\ op.touched \in Seq(Parts) BY <1>0, <1>1 DEF OpAt, Idle, GameTypes, GameOps
<1>3. p \in Parts BY <1>1, <1>2, TakeHead
<1>4. Place(op.dest, p) \in Places BY <1>2, <1>3, PlacesApart
<1> HIDE DEF p
<1>5. live' \in [Places -> Contents] BY <1>0, <1>1, <1>4, HalfKeeps
<1>6. /\ op' \in GameOps /\ op'.pc = "returned" /\ op'.result = "notRolledBack"
      /\ op'.kind = op.kind /\ op'.source = op.source /\ op'.revert = op.revert
  BY <1>0, <1>1 DEF GameTypes, GameOps, GamePcs
<1>7. GameTypes' BY <1>0, <1>1, <1>5, <1>6 DEF GameTypes
<1>8. LibraryAt' BY <1>0, <1>1 DEF LibraryAt, RevertOf
<1>9. RevertAt' /\ RollbackAt' BY <1>0, <1>1, <1>6 DEF RevertAt, RollbackAt, RolledBackIsAsFound
<1>10. UndoAt' BY <1>6 DEF UndoAt, UndoPutsBack
<1>11. OpAt' BY <1>0, <1>6, <1>9, <1>10 DEF OpAt, Idle
<1> QED BY <1>7, <1>8, <1>11 DEF GameInv

\* A rollback is through with what was touched.
LEMMA RollBackDoneStep == ASSUME GameInv, RollBackDone PROVE GameInv'
<1>0. GameTypes /\ LibraryAt /\ OpAt /\ RevertAt /\ RollbackAt BY DEF GameInv, OpAt
<1>1. /\ op.pc = "rollback" /\ op.touched = <<>>
      /\ op' = [op EXCEPT !.pc = "returned", !.result = "rolledBack"]
      /\ UNCHANGED <<live, inventory, library, taken, client, playing, before>>
  BY DEF RollBackDone
<1>2. /\ op' \in GameOps /\ op'.pc = "returned" /\ op'.result = "rolledBack"
      /\ op'.kind = op.kind /\ op'.source = op.source /\ op'.revert = op.revert /\ op'.dest = op.dest
      /\ op'.disturbed = op.disturbed
  BY <1>0, <1>1 DEF GameTypes, GameOps, GamePcs
<1>3. GameTypes' BY <1>0, <1>1, <1>2 DEF GameTypes
<1>4. LibraryAt' BY <1>0, <1>1 DEF LibraryAt, RevertOf
<1>5. RevertAt' BY <1>0, <1>1, <1>2 DEF RevertAt
<1>6. RollbackAt' BY <1>0, <1>1, <1>2, RangeEmpty DEF RollbackAt, RolledBackIsAsFound
<1>7. UndoAt' BY <1>2 DEF UndoAt, UndoPutsBack
<1>8. OpAt' BY <1>0, <1>2, <1>5, <1>6, <1>7 DEF OpAt, Idle
<1> QED BY <1>3, <1>4, <1>8 DEF GameInv

\* Without a revert point nothing is written.
LEMMA CaptureFailsStep == ASSUME GameInv, CaptureFails PROVE GameInv'
<1>0. GameTypes /\ LibraryAt /\ OpAt BY DEF GameInv
<1>1. /\ op' = [op EXCEPT !.pc = "returned", !.result = "refused"]
      /\ UNCHANGED <<live, inventory, library, taken, client, playing, before>>
  BY DEF CaptureFails
<1>2. /\ op' \in GameOps /\ op'.pc = "returned" /\ op'.result = "refused"
      /\ op'.kind = op.kind /\ op'.source = op.source
  BY <1>0, <1>1 DEF GameTypes, GameOps, GamePcs
<1>3. GameTypes' BY <1>0, <1>1, <1>2 DEF GameTypes
<1>4. LibraryAt' BY <1>0, <1>1 DEF LibraryAt, RevertOf
<1>5. OpAt' BY <1>0, <1>2
  DEF OpAt, Idle, RevertAt, RollbackAt, RolledBackIsAsFound, UndoAt, UndoPutsBack
<1> QED BY <1>3, <1>4, <1>5 DEF GameInv

\* Every step of an operation keeps the invariant.
LEMMA ApplyingStep == ASSUME GameInv, ApplyStep PROVE GameInv'
BY CaptureStep, CaptureFailsStep, WriteStep, RemoveStep, WriteFailsStep, ForgetStep, PruneStep,
   PutInventoryStep, RollBackPartStep, RollBackFailsStep, RollBackDoneStep DEF ApplyStep

\* Saving, naming and deleting a config keep the invariant.
LEMMA LibraryKeeps == ASSUME GameInv, LibraryStep PROVE GameInv'
<1>0. GameTypes /\ LibraryAt /\ NoOp \in GameOps BY GameConstants DEF GameInv
<1>1. ASSUME NEW a \in Accounts, NEW parts \in Selections, SnapshotGameConfig(a, parts) PROVE GameInv'
  <2> DEFINE n == taken + 1
             snap == Capture(a, parts, FALSE)
  <2>1. /\ taken < MaxTaken /\ taken' = n /\ library' = [library EXCEPT ![n] = snap] /\ op' = NoOp
        /\ UNCHANGED <<live, inventory, client, playing, before>>
    BY <1>1 DEF SnapshotGameConfig
  <2>2. n \in Ids /\ n \in 0 .. MaxTaken /\ taken \in Nat BY <1>0, <2>1, GameConstants DEF GameTypes
  <2>3. snap \in GameSnapshots /\ ~snap.auto
    <3>1. parts \in SUBSET Parts BY SelectionsAssumption DEF Parts
    <3> QED BY <1>0, <3>1, Captured
  <2> HIDE DEF snap, n
  <2>4. GameTypes' BY <1>0, <2>1, <2>2, <2>3 DEF GameTypes
  <2>5. LibraryAt'
    <3> SUFFICES ASSUME NEW id \in Ids, library'[id].auto
                 PROVE  id <= taken' /\ RevertOf(library'[id], before'[id])
      BY DEF LibraryAt, RevertOf
    <3>1. id # n /\ library'[id] = library[id] BY <1>0, <2>1, <2>2, <2>3 DEF GameTypes
    <3>2. id <= taken /\ RevertOf(library[id], before[id]) BY <1>0, <3>1 DEF LibraryAt
    <3> QED BY <2>1, <2>2, <3>1, <3>2, GameConstants DEF n
  <2> QED BY <2>1, <2>4, <2>5, NoOpKeeps
<1>2. ASSUME NEW id \in Ids, RenameGameConfigSnapshot(id) \/ DeleteGameConfigSnapshot(id) PROVE GameInv'
  <2>1. op' = NoOp /\ UNCHANGED <<live, inventory, taken, client, playing, before>>
    BY <1>2 DEF RenameGameConfigSnapshot, DeleteGameConfigSnapshot
  <2>2. library' \in [Ids -> GameSnapshots] /\ \A n \in Ids : library'[n].auto => library'[n] = library[n]
    <3>1. CASE RenameGameConfigSnapshot(id)
      BY <1>0, <3>1 DEF RenameGameConfigSnapshot, GameTypes, GameSnapshots
    <3>2. CASE DeleteGameConfigSnapshot(id)
      BY <1>0, <3>2, GameConstants DEF DeleteGameConfigSnapshot, GameTypes
    <3> QED BY <1>2, <3>1, <3>2
  <2>3. GameTypes' BY <1>0, <2>1, <2>2 DEF GameTypes
  <2>4. LibraryAt' BY <1>0, <2>1, <2>2 DEF LibraryAt, RevertOf
  <2> QED BY <2>1, <2>3, <2>4, NoOpKeeps
<1> QED BY <1>1, <1>2 DEF LibraryStep

\* Steam changes what the account signed in has: either that is not the one written to, or the
\* operation is disturbed.
LEMMA ClientWritesStep == ASSUME GameInv, ClientWrites PROVE GameInv'
<1> DEFINE dst == Place(client, "remote")
<1>0. GameTypes /\ LibraryAt /\ OpAt /\ RevertAt /\ RollbackAt /\ UndoAt BY DEF GameInv, OpAt
<1>1. PICK c \in Brought :
        /\ live' = [live EXCEPT ![dst] = c] /\ inventory' = [inventory EXCEPT ![client] = c]
  BY DEF ClientWrites
<1>2. /\ client \in Accounts /\ UNCHANGED <<library, taken, client, playing, before>>
      /\ op' = IF Idle THEN NoOp ELSE [op EXCEPT !.disturbed = @ \/ client = op.dest]
  BY <1>0 DEF ClientWrites, GameTypes
<1>3. c \in Contents BY DEF Contents
<1>4. dst \in Places BY <1>2, PlacesApart DEF Parts
<1>5. live' \in [Places -> Contents] /\ inventory' \in [Accounts -> Contents]
  BY <1>0, <1>1, <1>2, <1>3, <1>4 DEF GameTypes
<1>6. op' \in GameOps
  BY <1>0, <1>2, GameConstants DEF GameTypes, GameOps
<1>7. GameTypes' BY <1>0, <1>2, <1>5, <1>6 DEF GameTypes
<1>8. LibraryAt' BY <1>0, <1>2 DEF LibraryAt, RevertOf
<1>9. CASE Idle BY <1>2, <1>7, <1>8, <1>9, NoOpKeeps
<1>10. CASE ~Idle
  <2>1. /\ op'.disturbed = (op.disturbed \/ client = op.dest) /\ op'.pc = op.pc
        /\ op'.kind = op.kind /\ op'.dest = op.dest /\ op'.source = op.source /\ op'.from = op.from
        /\ op'.todo = op.todo /\ op'.drop = op.drop /\ op'.touched = op.touched /\ op'.cloud = op.cloud
        /\ op'.revert = op.revert /\ op'.putInv = op.putInv /\ op'.result = op.result
    BY <1>0, <1>2, <1>10 DEF GameTypes, GameOps
  <2>2. op.dest \in Accounts /\ op.result = "none" BY <1>0, <1>10 DEF OpAt
  <2>3. ASSUME ~op'.disturbed
        PROVE  /\ ~op.disturbed /\ inventory'[op.dest] = inventory[op.dest]
               /\ \A p \in Parts : live'[Place(op.dest, p)] = live[Place(op.dest, p)]
    <3>1. client # op.dest /\ ~op.disturbed BY <2>1, <2>3
    <3>2. \A p \in Parts : Place(op.dest, p) \in Places \ {dst} BY <1>2, <2>2, <3>1, PlacesApart
    <3> HIDE DEF dst
    <3> QED BY <1>0, <1>1, <1>2, <2>2, <3>1, <3>2 DEF GameTypes
  <2>4. RevertAt' BY <1>0, <1>2, <2>1 DEF RevertAt
  <2>5. Ahead' = Ahead BY <2>1 DEF Ahead
  <2>6. RollbackAt'
    <3>1. op.pc \in {"write", "rollback"} => DOMAIN before[op.revert].files \subseteq Parts
      BY <1>0, FilesAre DEF RevertAt, GameTypes
    <3> QED BY <1>0, <1>2, <2>1, <2>2, <2>3, <2>5, <3>1 DEF RollbackAt, RolledBackIsAsFound
  <2>7. UndoAt'
    <3> SUFFICES ASSUME op.kind = "undo" PROVE UndoAt' BY <2>1 DEF UndoAt
    <3>1. op.pc \in {"capture", "write", "prune", "putInventory"} =>
              DOMAIN before[op.from].files \subseteq Parts
      BY <1>0, FilesAre DEF UndoAt, GameTypes
    <3> QED BY <1>0, <1>2, <2>1, <2>2, <2>3, <2>5, <3>1 DEF UndoAt, UndoPutsBack
  <2>8. OpAt' BY <1>0, <2>1, <2>4, <2>6, <2>7 DEF OpAt, Idle
  <2> QED BY <1>7, <1>8, <2>8 DEF GameInv
<1> QED BY <1>9, <1>10

\* What an operation leaves when the process ends is no longer anything it vouches for.
LEMMA CrashStep == ASSUME GameInv, ConfigCrash PROVE GameInv'
<1>0. GameTypes /\ LibraryAt /\ OpAt BY DEF GameInv
<1>1. /\ op' = NoOp /\ UNCHANGED <<inventory, library, taken, client, playing, before>> /\ ~Idle
  BY DEF ConfigCrash
<1>2. live' \in [Places -> Contents]
  <2>1. CASE UNCHANGED live BY <1>0, <2>1 DEF GameTypes
  <2>2. CASE /\ op.todo \o op.drop # <<>>
             /\ live' \in Half(Place(op.dest, Head(op.todo \o op.drop)))
    <3>1. op.dest \in Accounts /\ op.todo \in Seq(Parts) /\ op.drop \in Seq(Parts)
      BY <1>0, <1>1 DEF OpAt, GameTypes, GameOps
    <3>2. Head(op.todo \o op.drop) \in Parts BY <2>2, <3>1, HeadOfBoth
    <3>3. Place(op.dest, Head(op.todo \o op.drop)) \in Places BY <3>1, <3>2, PlacesApart
    <3> QED BY <1>0, <2>2, <3>3, HalfKeeps
  <2> QED BY <2>1, <2>2 DEF ConfigCrash
<1>3. GameTypes' BY <1>0, <1>1, <1>2, GameConstants DEF GameTypes
<1>4. LibraryAt' BY <1>0, <1>1 DEF LibraryAt, RevertOf
<1> QED BY <1>1, <1>3, <1>4, NoOpKeeps

\* Who is signed in and what runs is only looked at before the first write.
LEMMA UnmovedKeeps ==
    ASSUME GameInv, UNCHANGED <<live, inventory, library, taken, op, before>>,
           client' \in Accounts \cup {NoAccount}
    PROVE  GameInv'
BY DEF GameInv, GameTypes, LibraryAt, RevertOf, OpAt, Idle, RevertAt, RollbackAt, UndoAt, Ahead,
       RolledBackIsAsFound, UndoPutsBack

\* Every step keeps the invariant.
LEMMA ConfigSteps == ASSUME GameInv, [ConfigNext]_configVars PROVE GameInv'
<1>1. CASE Around
  <2>1. ASSUME NEW a \in Accounts, StartClient(a) PROVE GameInv'
    BY <2>1, UnmovedKeeps DEF StartClient
  <2>2. CASE StopClient BY <2>2, UnmovedKeeps DEF StopClient
  <2>3. CASE StartGame \/ StopGame
    BY <2>3, UnmovedKeeps DEF StartGame, StopGame, GameInv, GameTypes
  <2> QED BY <1>1, <2>1, <2>2, <2>3, ClientWritesStep, CrashStep DEF Around
<1>2. CASE UNCHANGED configVars
  BY <1>2, UnmovedKeeps DEF configVars, GameInv, GameTypes
<1> QED
  BY <1>1, <1>2, CopyStep, ApplySavedStep, UndoStep, ApplyingStep, LibraryKeeps DEF ConfigNext

\* The invariant holds throughout.
LEMMA GameAlways == ConfigSpec => []GameInv
BY ConfigInitially, ConfigSteps, PTL DEF ConfigSpec

-----------------------------------------------------------------------------
(* The theorems about the manual tool.                                     *)

\* Whichever part fails to be written, a copy that reports that it was
\* rolled back left the destination and Steam's inventory as it found them,
\* what it had created removed.
THEOREM RollbacksAreComplete == ConfigSpec => []RolledBackIsAsFound
<1>1. GameInv => RolledBackIsAsFound BY DEF GameInv, OpAt, RollbackAt
<1> QED BY <1>1, GameAlways, PTL

\* An undo that reports success put back what its revert point was taken of,
\* even where the revert point it took itself has pruned that one.
THEOREM UndosPutBack == ConfigSpec => []UndoPutsBack
<1>1. GameInv => UndoPutsBack
  BY DEF GameInv, OpAt, UndoAt, UndoPutsBack
<1> QED BY <1>1, GameAlways, PTL

\* Whatever the cap, the pruning at the end of an operation spares the
\* revert point that the operation offers for its undo.
THEOREM OfferedUndosExist == ConfigSpec => []OfferedUndoExists
<1>1. GameInv => OfferedUndoExists
  BY GameConstants DEF GameInv, OpAt, RevertAt, OfferedUndoExists, Exists
<1> QED BY <1>1, GameAlways, PTL

\* What has been saved was saved under a number that is taken.
SavedBefore == \A id \in Ids : Exists(id) => id <= taken

\* An operation in progress adds what has no number yet, and takes revert points only.
LEMMA LibraryChanges ==
    ASSUME GameTypes, SavedBefore, [ConfigNext]_configVars
    PROVE  /\ SavedBefore'
           /\ \A id \in Ids : Exists(id) /\ ~library[id].auto /\ library'[id] # library[id] => Idle
<1>0. /\ library \in [Ids -> GameSnapshots] /\ taken \in 0 .. MaxTaken /\ Ids \subseteq Nat
      /\ taken \in Nat /\ taken + 1 \in Nat
  BY GameConstants DEF GameTypes, Ids
<1>1. CASE library' = library /\ taken' = taken BY <1>1 DEF SavedBefore, Exists
<1>2. ASSUME NEW s, taken' = taken + 1, library' = [library EXCEPT ![taken + 1] = s]
      PROVE  /\ SavedBefore'
             /\ \A id \in Ids : Exists(id) => library'[id] = library[id]
  <2>1. \A id \in Ids : id # taken + 1 => library'[id] = library[id] BY <1>0, <1>2
  <2>2. \A id \in Ids : Exists(id) => id # taken + 1 BY <1>0 DEF SavedBefore
  <2>3. SavedBefore'
    <3> SUFFICES ASSUME NEW id \in Ids, library'[id] # NoSnapshot PROVE id <= taken'
      BY DEF SavedBefore, Exists
    <3>1. CASE id = taken + 1 BY <1>0, <1>2, <3>1
    <3>2. CASE id # taken + 1
      <4>1. id <= taken BY <2>1, <3>2 DEF SavedBefore, Exists
      <4> QED BY <1>0, <1>2, <4>1
    <3> QED BY <3>1, <3>2
  <2> QED BY <2>1, <2>2, <2>3
<1>3. ASSUME taken' = taken, \A id \in Ids : library'[id] # library[id] => library'[id] = NoSnapshot \/ Exists(id)
      PROVE  SavedBefore'
  BY <1>3 DEF SavedBefore, Exists
<1>4. CASE CaptureRevertPoint
  <2>1. \E s : library' = [library EXCEPT ![taken + 1] = s] BY <1>4 DEF CaptureRevertPoint
  <2> QED BY <1>2, <1>4, <2>1 DEF CaptureRevertPoint
<1>5. CASE PruneAutoSnapshots
  <2>1. \A id \in Ids : library'[id] # library[id] => library'[id] = NoSnapshot /\ library[id].auto
    BY <1>5 DEF PruneAutoSnapshots, Pruned, Autos
  <2> QED BY <1>3, <1>5, <2>1 DEF PruneAutoSnapshots
<1>6. ASSUME NEW a \in Accounts, NEW parts \in Selections, SnapshotGameConfig(a, parts)
      PROVE  SavedBefore' /\ Idle
  <2>1. \E s : library' = [library EXCEPT ![taken + 1] = s] BY <1>6 DEF SnapshotGameConfig
  <2> QED BY <1>2, <1>6, <2>1 DEF SnapshotGameConfig
<1>7. ASSUME NEW id \in Ids, RenameGameConfigSnapshot(id) \/ DeleteGameConfigSnapshot(id)
      PROVE  SavedBefore' /\ Idle
  <2>1. \A n \in Ids : n # id => library'[n] = library[n]
    BY <1>0, <1>7 DEF RenameGameConfigSnapshot, DeleteGameConfigSnapshot
  <2> QED BY <1>3, <1>7, <2>1 DEF RenameGameConfigSnapshot, DeleteGameConfigSnapshot
<1>8. CASE \/ CaptureFails \/ WritePart \/ RemovePart \/ WriteFails \/ ForgetInventory \/ PutInventory
           \/ RollBackPart \/ RollBackFails \/ RollBackDone \/ Around \/ UNCHANGED configVars
  BY <1>1, <1>8
  DEF CaptureFails, WritePart, RemovePart, WriteFails, ForgetInventory, PutInventory, RollBackPart,
      RollBackFails, RollBackDone, Around, StartClient, StopClient, StartGame, StopGame, ClientWrites,
      ConfigCrash, configVars
<1>9. ASSUME NEW o, NEW writes, NEW removes, Begin(o, writes, removes) PROVE library' = library /\ taken' = taken
  BY <1>9 DEF Begin
<1>10. CASE \/ \E src, dst \in Accounts, parts \in Selections : CopyGameConfigBetween(src, dst, parts)
            \/ \E id \in Ids, dst \in Accounts, parts \in Selections : ApplyGameConfigSnapshot(id, dst, parts)
            \/ \E id \in Ids : UndoGameConfigCopy(id)
  <2>1. library' = library /\ taken' = taken
    BY <1>9, <1>10 DEF CopyGameConfigBetween, ApplyGameConfigSnapshot, UndoGameConfigCopy
  <2> QED BY <1>1, <2>1
<1> QED BY <1>4, <1>5, <1>6, <1>7, <1>8, <1>10 DEF ConfigNext, ApplyStep, LibraryStep

\* A saved config, also one that was a revert point until the user named it,
\* goes only when it is deleted: pruning takes revert points and a new
\* snapshot has a number of its own.
THEOREM SavedConfigsStay == ConfigSpec => SavedConfigStays
<1>1. ConfigInit => SavedBefore BY DEF ConfigInit, SavedBefore, Exists
<1>2. GameInv /\ SavedBefore /\ [ConfigNext]_configVars => SavedBefore'
  BY LibraryChanges DEF GameInv
<1>3. GameInv /\ SavedBefore /\ [ConfigNext]_configVars
        => [\A id \in Ids :
               Exists(id) /\ ~library[id].auto /\ library'[id] # library[id] => Idle]_configVars
  BY LibraryChanges DEF GameInv
<1> QED BY <1>1, <1>2, <1>3, GameAlways, PTL DEF ConfigSpec, SavedConfigStays
=============================================================================
