------------------------------ MODULE TrayRecent ------------------------------
(***************************************************************************)
(* The recent accounts in the tray menu (tray/mru.go, tray/tray.go and     *)
(* steam/tray_recent.go).  Tray_Users.json is read and written in two      *)
(* separate sections of trayUsersMu; what is done with it between belongs  *)
(* to the caller.  The menu is rebuilt on the main thread, from the file   *)
(* and from the app lock as they are then.                                 *)
(*                                                                         *)
(* Labels and pictures are left out: a row is the account its "+s:"        *)
(* argument names.                                                         *)
(***************************************************************************)
EXTENDS Naturals, Sequences

CONSTANTS
    TrayCallers,   \* goroutines that switch, rename, lock or unlock
    TrayIds,       \* accounts
    MaxRecent,     \* TrayAccNumber
    MaxTrayCalls   \* bound: calls begun

NoCaller == "nobody"

ASSUME TrayAssumption == MaxRecent \in Nat \ {0} /\ TrayCallers # {} /\ NoCaller \notin TrayCallers

VARIABLES
    recent,      \* Tray_Users.json
    usersMu,     \* who holds trayUsersMu between two steps
    known,       \* the accounts loginusers.vdf lists
    gateShut,    \* security.AppLocked
    menu,        \* what the tray shows
    mainThread,  \* whose rebuild the main thread runs
    tray,        \* tray[c]: the call c is in
    trayCalls    \* calls begun

trayVars == <<recent, usersMu, known, gateShut, menu, mainThread, tray, trayCalls>>

TrayIdle == [kind |-> "none", at |-> "idle", id |-> {}, rows |-> <<>>, valid |-> {}, again |-> FALSE]

\* A file is as saved; or it does not parse, and something or nothing of it is recovered.
RecentFiles == [form : {"saved"}, rows : Seq(TrayIds)] \cup [form : {"spoilt", "garbage"}, rows : {<<>>}]
AsSaved(rows) == [form |-> "saved", rows |-> rows]

Listed(rows) == {rows[i] : i \in DOMAIN rows}
UpTo(rows, n) == SubSeq(rows, 1, IF Len(rows) < n THEN Len(rows) ELSE n)

\* AddUser: the account goes to the front.
Added(rows, id) ==
    LET others(a) == a # id IN UpTo(<<id>> \o SelectSeq(rows, others), MaxRecent)

\* SyncPlatformUsers: accounts the file does not know go; it adds none.
Synced(rows, valid) ==
    LET stays(a) == a \in valid IN UpTo(SelectSeq(rows, stays), MaxRecent)

TrayTypeOK ==
    /\ recent \in RecentFiles /\ usersMu \in TrayCallers \cup {NoCaller}
    /\ known \subseteq TrayIds /\ gateShut \in BOOLEAN
    /\ menu \in [gate : BOOLEAN, rows : Seq(TrayIds)]
    /\ mainThread \in TrayCallers \cup {NoCaller}
    /\ \A c \in TrayCallers : tray[c].at \in {"idle", "load", "repair", "save", "refresh", "list", "set"}

\* gui.Run: the accounts are brought up to date if the app opens unlocked, then the menu is built.
TrayInit ==
    /\ recent \in {AsSaved(<<>>), [form |-> "spoilt", rows |-> <<>>], [form |-> "garbage", rows |-> <<>>]}
                  \cup {AsSaved(<<a>>) : a \in TrayIds}
    /\ known = TrayIds /\ gateShut \in BOOLEAN
    /\ menu = [gate |-> TRUE, rows |-> <<>>]
    /\ usersMu = NoCaller /\ mainThread = NoCaller /\ trayCalls = 0
    /\ LET first == CHOOSE c \in TrayCallers : TRUE
       IN  tray = [c \in TrayCallers |->
                    IF c # first THEN TrayIdle
                    ELSE [TrayIdle EXCEPT !.kind = "start", !.at = IF gateShut THEN "refresh" ELSE "load",
                                          !.valid = known]]
-----------------------------------------------------------------------------
(* Calls begin.                                                            *)

TrayCall(c, call) ==
    /\ tray[c].at = "idle" /\ trayCalls < MaxTrayCalls
    /\ \A d \in TrayCallers : tray[d].kind # "start"
    /\ trayCalls' = trayCalls + 1
    /\ tray' = [tray EXCEPT ![c] = call]
    /\ UNCHANGED <<recent, usersMu, known, menu, mainThread>>

\* A swap, which ends with RecordTrayRecentAfterSwap, and SetAccountLabel are inside
\* SteamService.mu to their end: one at a time.
ServiceTaken == \E c \in TrayCallers : tray[c].kind \in {"swap", "label"}

Swapped(c, id) ==
    /\ ~gateShut /\ ~ServiceTaken /\ id \in known
    /\ TrayCall(c, [TrayIdle EXCEPT !.kind = "swap", !.at = "load", !.id = {id}])
    /\ UNCHANGED gateShut

\* A row is clicked: refused if the app has been locked since the menu was built.  The swap may
\* be refused too; the menu is rebuilt in any case.
RowClicked(c, id) ==
    /\ ~menu.gate /\ id \in Listed(menu.rows)
    /\ \/ /\ ~gateShut /\ ~ServiceTaken
          /\ TrayCall(c, [TrayIdle EXCEPT !.kind = "swap", !.at = "load", !.id = {id}, !.again = TRUE])
       \/ TrayCall(c, [TrayIdle EXCEPT !.kind = "look", !.at = "refresh"])
    /\ UNCHANGED gateShut

\* SetAccountLabel: the sync keeps the accounts known now.
Renames(c) ==
    /\ ~gateShut /\ ~ServiceTaken
    /\ TrayCall(c, [TrayIdle EXCEPT !.kind = "label", !.at = "load", !.valid = known])
    /\ UNCHANGED gateShut

\* The hook main.go gives to security: what changed is looked at again when the menu is built.
AppIsLocked(c) ==
    /\ ~gateShut /\ gateShut' = TRUE
    /\ TrayCall(c, [TrayIdle EXCEPT !.kind = "lock", !.at = "refresh"])

AppIsUnlocked(c) ==
    /\ gateShut /\ gateShut' = FALSE
    /\ TrayCall(c, [TrayIdle EXCEPT !.kind = "sync", !.at = "load", !.valid = known])

\* Steam or the app adds a row to loginusers.vdf or drops one; the tray is not told.
KnownChange ==
    /\ \E a \in TrayIds : known' = (known \ {a}) \cup ({a} \ known)
    /\ trayCalls < MaxTrayCalls /\ trayCalls' = trayCalls + 1
    /\ UNCHANGED <<recent, usersMu, gateShut, menu, mainThread, tray>>
-----------------------------------------------------------------------------
(* Steps of a call.                                                        *)

\* LoadUsers.  Of a file that does not parse it saves what it recovered: saveUsers takes the
\* mutex LoadUsers holds, and there is no step from "repair".
LoadsUsers(c, then) ==
    /\ usersMu = NoCaller
    /\ IF recent.form = "spoilt"
       THEN usersMu' = c /\ tray' = [tray EXCEPT ![c].at = "repair"]
       ELSE usersMu' = NoCaller /\ tray' = [tray EXCEPT ![c] = then]

WithRows(c) ==
    LET call == tray[c] IN
    IF call.kind = "swap"
    THEN [call EXCEPT !.at = "save", !.rows = Added(recent.rows, CHOOSE a \in call.id : TRUE)]
    ELSE IF recent.rows = <<>> THEN [call EXCEPT !.at = "refresh"]
    ELSE [call EXCEPT !.at = "save", !.rows = Synced(recent.rows, call.valid)]

CallLoads(c) ==
    /\ tray[c].at = "load"
    /\ LoadsUsers(c, WithRows(c))
    /\ UNCHANGED <<recent, known, gateShut, menu, mainThread, trayCalls>>

CallSaves(c) ==
    /\ tray[c].at = "save" /\ usersMu = NoCaller
    /\ recent' = AsSaved(tray[c].rows)
    /\ tray' = [tray EXCEPT ![c].at = "refresh", ![c].rows = <<>>]
    /\ UNCHANGED <<usersMu, known, gateShut, menu, mainThread, trayCalls>>

\* InvokeSync: the main thread runs one rebuild to its end.
OffTheMainThread(c) == mainThread \in TrayCallers \cup {NoCaller}    \* mutant
MainIsFree(c) == mainThread = NoCaller

AfterMenu(c) ==
    IF tray[c].again THEN [TrayIdle EXCEPT !.kind = "look", !.at = "refresh"] ELSE TrayIdle

\* rebuildMenuLocked: a locked app has the two entries that open and close it.
RebuildBegins(c) ==
    /\ tray[c].at = "refresh" /\ MainIsFree(c)
    /\ IF gateShut
       THEN /\ menu' = [gate |-> TRUE, rows |-> <<>>]
            /\ tray' = [tray EXCEPT ![c] = AfterMenu(c)]
            /\ UNCHANGED mainThread
       ELSE /\ mainThread' = c
            /\ tray' = [tray EXCEPT ![c].at = "list"]
            /\ UNCHANGED menu
    /\ UNCHANGED <<recent, usersMu, known, gateShut, trayCalls>>

RebuildLists(c) ==
    /\ tray[c].at = "list"
    /\ LoadsUsers(c, [tray[c] EXCEPT !.at = "set", !.rows = recent.rows])
    /\ UNCHANGED <<recent, known, gateShut, menu, mainThread, trayCalls>>

RebuildSets(c) ==
    /\ tray[c].at = "set"
    /\ menu' = [gate |-> FALSE, rows |-> tray[c].rows]
    /\ mainThread' = NoCaller
    /\ tray' = [tray EXCEPT ![c] = AfterMenu(c)]
    /\ UNCHANGED <<recent, usersMu, known, gateShut, trayCalls>>

TrayStep(c) == CallLoads(c) \/ CallSaves(c) \/ RebuildBegins(c) \/ RebuildLists(c) \/ RebuildSets(c)

TrayNext ==
    \/ \E c \in TrayCallers :
        \/ \E id \in TrayIds : Swapped(c, id) \/ RowClicked(c, id)
        \/ Renames(c) \/ AppIsLocked(c) \/ AppIsUnlocked(c)
        \/ TrayStep(c)
    \/ KnownChange

TraySpec == TrayInit /\ [][TrayNext]_trayVars /\ \A c \in TrayCallers : WF_trayVars(TrayStep(c))
-----------------------------------------------------------------------------
(* Properties.                                                             *)

\* Once the refreshes asked for have run, a locked app's tray names no account; once every call
\* is over, it shows what the lock and the file say, whatever changed while a menu was built.
MenuFollows ==
    /\ gateShut /\ mainThread = NoCaller /\ (\A c \in TrayCallers : tray[c].at # "refresh") => menu.gate
    /\ (\A c \in TrayCallers : tray[c].at = "idle") => menu.gate = gateShut /\ (gateShut \/ menu.rows = recent.rows)

\* "LoadUsers reads Tray_Users.json into a map [...] (may be empty)": a call that records an
\* account or rebuilds the menu comes to an end, whatever the file holds.
TrayCallsEnd == \A c \in TrayCallers : tray[c].at # "idle" ~> tray[c].at = "idle"

\* "It does not add accounts that are not already present", and drops only what the login file
\* does not know: a sync leaves what a switch recorded beside it.
SyncKeepsRecent ==
    [][\A c \in TrayCallers :
        tray[c].kind \in {"start", "label", "sync"} /\ tray[c].at = "save" /\ recent' # recent
        => \A a \in Listed(recent.rows) \cap tray[c].valid : a \in Listed(recent'.rows)]_trayVars
=============================================================================
