------------------------------ MODULE MCAppParts ------------------------------
(***************************************************************************)
(* The parts of the app that share no state with one another, side by side *)
(* in one run: a behaviour takes one part through its steps and leaves the *)
(* others where they start.                                                *)
(***************************************************************************)
EXTENDS CloseSequence, SignInWatch, AppSettings, UserData,
        Commands, LoginFiles, ProfileRefresh, SteamSettings, TrayRecent, BackupArchives,
        AccountTags

CONSTANT Parts

VARIABLE part

appVars == <<closeVars, watchVars, settingsVars, dataVars, commandVars, loginVars, refreshVars,
             steamSettingsVars, trayVars, backupVars, tagVars>>

\* A part that is left alone has one initial state.  The accounts of the watch and the folders
\* are alike, so one of each to start with stands for all.
AppInit ==
    /\ part \in Parts
    /\ CloseInit /\ WatchInit /\ SettingsInit /\ UserDataInit
    /\ CommandsInit /\ LoginInit /\ RefreshInit /\ SteamSettingsInit /\ TrayInit /\ BackupInit
    /\ TagsInit
    /\ part # "login" => oneFile /\ registry.user = NoOne /\ file = UsersFile([a \in LoginIds |-> Signed("0", {"auto"})])
    /\ part # "game" => stored = Defaults
    /\ part # "tray" => ~gateShut /\ recent = AsSaved(<<>>)
    /\ part # "backup" => ~clientUp
    /\ selected = CHOOSE u \in Users : TRUE
    /\ root = CHOOSE d \in Folders : TRUE

AppNext ==
    /\ UNCHANGED part
    /\ IF part = "close" THEN CloseNext ELSE UNCHANGED closeVars
    /\ IF part = "watch" THEN WatchNext ELSE UNCHANGED watchVars
    /\ IF part = "settings" THEN SettingsNext ELSE UNCHANGED settingsVars
    /\ IF part = "userdata" THEN UserDataNext ELSE UNCHANGED dataVars
    /\ IF part = "commands" THEN CommandsNext ELSE UNCHANGED commandVars
    /\ IF part = "login" THEN LoginNext ELSE UNCHANGED loginVars
    /\ IF part = "refresh" THEN RefreshNext ELSE UNCHANGED refreshVars
    /\ IF part = "game" THEN SteamSettingsNext ELSE UNCHANGED steamSettingsVars
    /\ IF part = "tray" THEN TrayNext ELSE UNCHANGED trayVars
    /\ IF part = "backup" THEN BackupNext ELSE UNCHANGED backupVars
    /\ IF part = "tags" THEN TagsNext ELSE UNCHANGED tagVars

AppSpec == AppInit /\ [][AppNext]_<<part, appVars>>
=============================================================================
