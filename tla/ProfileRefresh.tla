---------------------------- MODULE ProfileRefresh ----------------------------
(***************************************************************************)
(* Fetching profiles, pictures and bans of the accounts from the Steam     *)
(* community (internal/steam/service.go, refresh_schedule.go,              *)
(* profile_refresh_retry.go).  A refresh is asked for by the account page, *)
(* by what changes an account and by a schedule.  Requests within half a   *)
(* second become one round; a request during a round becomes one more      *)
(* after it.  In a round every account has a goroutine that tells the      *)
(* window how far it got; the window shows what is still to come.          *)
(***************************************************************************)
EXTENDS Naturals, FiniteSets

CONSTANTS Profiles,     \* the accounts
          MaxAttempts,  \* how often a profile is asked for
          MaxAsked,     \* bound: requests in a behaviour
          MaxLocksHere  \* bound: locks of the app, and rounds that are skipped

ASSUME RefreshAssumption ==
    IsFiniteSet(Profiles) /\ MaxAttempts \in Nat \ {0} /\ {MaxAsked, MaxLocksHere} \subseteq Nat

VARIABLES timer,    \* refreshTimer is set
          firing,   \* timers that went off and have not looked at refreshRunning
          round,    \* the round in progress: its step, and how far each account is
          queued,   \* refreshQueued
          again,    \* a round is over and has not yet asked for the one that was queued
          tile,     \* what the window shows as still to come
          list,     \* an account page that is loading: what it was told
          cached,   \* accounts with a row in the cache of bans
          asked,    \* requests so far
          read,     \* the requests a round has seen when it read the accounts
          locked,
          excused   \* how often the app was locked or a round skipped (history)

refreshVars == <<timer, firing, round, queued, again, tile, list, cached, asked, read, locked, excused>>

NoRound == [step |-> "none", at |-> [p \in Profiles |-> "done"], tries |-> [p \in Profiles |-> 0], bans |-> {}]
Settled == [meta |-> FALSE, picture |-> FALSE]
NoList == [step |-> "none", meta |-> {}, picture |-> {}]

RefreshInit ==
    /\ timer = FALSE /\ firing = 0 /\ round = NoRound /\ queued = FALSE /\ again = FALSE
    /\ tile = [p \in Profiles |-> Settled] /\ list = NoList /\ cached = {}
    /\ asked = 0 /\ read = 0 /\ locked = FALSE /\ excused = 0

RefreshTypeOK ==
    /\ {timer, queued, again, locked} \subseteq BOOLEAN /\ firing \in 0..MaxAsked + 1
    /\ round.step \in {"none", "starting", "fetching"}
    /\ \A p \in Profiles : round.at[p] \in {"profile", "image", "done"} /\ round.tries[p] \in 0..MaxAttempts
    /\ {cached, round.bans} \subseteq SUBSET Profiles

Running == round.step # "none"
Excuses == excused' = excused + 1 /\ excused < MaxLocksHere

----------------------------------------------------------------------------
(* Asking.                                                                 *)

\* StartSteamProfileRefresh: the timer is set anew.
StartsRefresh == timer' = IF locked THEN timer ELSE TRUE

Asks ==
    /\ ~locked /\ asked < MaxAsked
    /\ asked' = asked + 1 /\ StartsRefresh

ClearVACProfileCaches == cached' = {}

\* RefreshVACStatus and RefreshAllSteamImages: what is cached is thrown away.
ClearCaches ==
    /\ Asks /\ ClearVACProfileCaches
    /\ UNCHANGED <<firing, round, queued, again, tile, list, read, locked, excused>>

\* The schedule, a preset, an account that was forgotten or got another picture: the caches stay.
AskAnyway ==
    /\ Asks
    /\ UNCHANGED <<firing, round, queued, again, tile, list, cached, read, locked, excused>>

\* LoadVacCache: rows that are too old are left out, which is as if they had been cleared.
LoadVacCache == cached

\* steamAvatarPending: by what pictures there are on the disk.
AvatarsPending == SUBSET Profiles

\* GetSteamAccountsEnrichment: a ban that is not cached is to come; a picture may be.
LoadList ==
    /\ ~locked /\ list.step = "none" /\ asked < MaxAsked
    /\ \E pictures \in AvatarsPending :
          list' = [step |-> "told", meta |-> Profiles \ LoadVacCache, picture |-> pictures]
    /\ UNCHANGED <<timer, firing, round, queued, again, tile, cached, asked, read, locked, excused>>

\* loadAccounts: the page shows it, and only then asks for a refresh.
ShowList ==
    /\ list.step = "told" /\ Asks
    /\ tile' = [p \in Profiles |-> [meta |-> p \in list.meta, picture |-> p \in list.picture]]
    /\ list' = NoList
    /\ UNCHANGED <<firing, round, queued, again, cached, read, locked, excused>>

----------------------------------------------------------------------------
(* A round.                                                                *)

TimerFires ==
    /\ timer
    /\ timer' = FALSE /\ firing' = firing + 1
    /\ UNCHANGED <<round, queued, again, tile, list, cached, asked, read, locked, excused>>

\* runProfileRefresh, to the lock of refreshMu.
RunOrQueue ==
    /\ firing > 0 /\ firing' = firing - 1
    /\ IF locked THEN UNCHANGED <<round, queued>>
       ELSE IF Running THEN queued' = TRUE /\ UNCHANGED round
       ELSE round' = [NoRound EXCEPT !.step = "starting"] /\ UNCHANGED queued
    /\ UNCHANGED <<timer, again, tile, list, cached, asked, read, locked, excused>>

\* Settings, accounts and the cache of bans are read.
ReadAccounts ==
    /\ round.step = "starting"
    /\ round' = [step |-> "fetching", at |-> [p \in Profiles |-> "profile"],
                 tries |-> [p \in Profiles |-> 1], bans |-> LoadVacCache]
    /\ read' = asked
    /\ UNCHANGED <<timer, firing, queued, again, tile, list, cached, asked, locked, excused>>

\* A mutant: what came in during the round is forgotten.
ForgetsQueue == /\ again' = FALSE /\ queued' = FALSE
\* The deferred end of a round.
TakesQueue == /\ again' = (again \/ queued) /\ queued' = FALSE

\* Nothing is collected, the app is offline, or a file cannot be read.
SkipRound ==
    /\ round.step = "starting" /\ Excuses
    /\ round' = NoRound /\ TakesQueue
    /\ UNCHANGED <<timer, firing, tile, list, cached, asked, read, locked>>

Shows(p, meta, picture) == tile' = [tile EXCEPT ![p] = [meta |-> meta, picture |-> picture]]
Within == round.step = "fetching" /\ UNCHANGED <<timer, firing, queued, again, list, cached, asked, read, locked, excused>>

\* isTransientProfileRefreshError: said to be still coming, and asked for once more.
Retry(p) ==
    /\ round.at[p] = "profile" /\ round.tries[p] < MaxAttempts
    /\ Shows(p, TRUE, FALSE)
    /\ round' = [round EXCEPT !.tries[p] = @ + 1]
    /\ Within

\* For good, after the last attempt, or it is private: nothing more comes.
RefusedForGood(p) ==
    /\ round.at[p] = "profile"
    /\ Shows(p, FALSE, FALSE)
    /\ round' = [round EXCEPT !.at[p] = "done"]
    /\ Within

\* The profile is there; its picture is cached, one's own or missing, or is fetched now.
Profile(p, fetched) ==
    /\ round.at[p] = "profile"
    /\ Shows(p, FALSE, fetched)
    /\ round' = [round EXCEPT !.at[p] = IF fetched THEN "image" ELSE "done", !.bans = @ \cup {p}]
    /\ Within

\* downloadSteamAccountAvatars, whether it worked or not.
Picture(p) ==
    /\ round.at[p] = "image"
    /\ Shows(p, FALSE, FALSE)
    /\ round' = [round EXCEPT !.at[p] = "done"]
    /\ Within

SaveVacCache(rows) == cached' = rows

\* After all goroutines.
EndRound ==
    /\ round.step = "fetching" /\ \A p \in Profiles : round.at[p] = "done"
    /\ SaveVacCache(round.bans)
    /\ round' = NoRound /\ TakesQueue
    /\ UNCHANGED <<timer, firing, tile, list, asked, read, locked, excused>>

AskAgain ==
    /\ again /\ again' = FALSE
    /\ StartsRefresh
    /\ UNCHANGED <<firing, round, queued, tile, list, cached, asked, read, locked, excused>>

\* A round that is under way is not stopped by it.
LockApp ==
    /\ ~locked /\ Excuses /\ locked' = TRUE
    /\ UNCHANGED <<timer, firing, round, queued, again, tile, list, cached, asked, read>>

UnlockApp ==
    /\ locked /\ locked' = FALSE
    /\ UNCHANGED <<timer, firing, round, queued, again, tile, list, cached, asked, read, excused>>

RefreshNext ==
    \/ ClearCaches \/ AskAnyway \/ LoadList \/ ShowList
    \/ TimerFires \/ RunOrQueue \/ ReadAccounts \/ SkipRound \/ EndRound \/ AskAgain
    \/ \E p \in Profiles : Retry(p) \/ RefusedForGood(p) \/ Picture(p) \/ \E fetched \in BOOLEAN : Profile(p, fetched)
    \/ LockApp \/ UnlockApp

RefreshSpec == RefreshInit /\ [][RefreshNext]_refreshVars

----------------------------------------------------------------------------
\* When nothing is going on any more, every request has been seen by a round that read the accounts
\* after it, and no tile says that something is still to come: whatever is asked for during a round,
\* while a timer goes off, or between a page's two answers.  A lock and a skipped round excuse it:
\* the requests they turn away are not made again by themselves (service.go:479-518,
\* Accounts.svelte:316-329, :402).
QuietMeansDone ==
    (excused = 0 /\ ~timer /\ firing = 0 /\ ~Running /\ ~again) =>
        read = asked /\ \A p \in Profiles : tile[p] = Settled
=============================================================================
