------------------------------- MODULE SignInWatch -------------------------------
(***************************************************************************)
(* Whether Steam really signed in (internal/steam/signin_watch.go,         *)
(* stored_login.go).  Every launch starts a watch that polls Steam's own   *)
(* evidence: the last logon result of the connection log since the launch, *)
(* ActiveUser, and the token's entry in local.vdf.  A newer launch         *)
(* replaces the watch, whose goroutine may still be in the middle of a     *)
(* poll; the verdict is stored under a lock and its event sent after it.   *)
(*                                                                         *)
(* Steam is external: it answers when it likes, restarts, is killed and    *)
(* leaves ActiveUser behind.  The log is kept as the last line about each  *)
(* account, which is all lastLogonEvent looks for; lines of network        *)
(* trouble are left out, as the code leaves them out.                      *)
(***************************************************************************)
EXTENDS Integers, FiniteSets

CONSTANTS Users,          \* the accounts of loginusers.vdf
          NoUser,
          MaxLaunches,
          MaxSeconds,     \* bound: the clock of a behaviour
          MaxTurns,       \* bound: how often Steam starts, answers or stops
          AnswerTimeout, StartupGrace, ExitSettle, WatchLimit,
          EarlyActive     \* Steam may hold an account in ActiveUser while its sign-in is pending

ASSUME WatchAssumption ==
    /\ NoUser \notin Users
    /\ {MaxLaunches, MaxSeconds, MaxTurns, AnswerTimeout, StartupGrace, ExitSettle, WatchLimit} \subseteq Nat
    /\ EarlyActive \in BOOLEAN

VARIABLES second,         \* the wall clock
          selected,       \* the account loginusers.vdf selects
          steamUp, steamUser,
          activeUser,     \* ActiveUser in the registry
          token,          \* the accounts with an entry in ConnectCache
          logged,         \* the last line of the connection log about each account
          generation,     \* signInTracker.generation
          status,         \* signInTracker.status
          watch,          \* the watches, by generation
          looked,        \* what a watch has decided and not stored yet
          turns,
          came            \* the accounts that signed in since the last launch (history)

watchVars == <<second, selected, steamUp, steamUser, activeUser, token, logged,
               generation, status, watch, looked, turns, came>>

Verdict(s, u) == [state |-> s, user |-> u]
NoVerdict == Verdict("none", NoUser)
States == {"none", "waiting", "confirmed", "needsSignIn", "unconfirmed", "steamExited"}
Silent == [at |-> -1, ok |-> FALSE]
Generations == 1..MaxLaunches

NoWatch == [on |-> FALSE]

WatchInit ==
    /\ second = 0 /\ selected \in Users
    /\ steamUp = FALSE /\ steamUser = NoUser /\ activeUser = NoUser
    /\ token = Users
    /\ logged = [u \in Users |-> Silent]
    /\ generation = 0 /\ status = NoVerdict
    /\ watch = [g \in Generations |-> NoWatch]
    /\ looked = [g \in Generations |-> NoVerdict]
    /\ turns = 0 /\ came = {}

WatchTypeOK ==
    /\ second \in 0..MaxSeconds /\ turns \in 0..MaxTurns
    /\ {selected} \cup token \cup came \subseteq Users
    /\ {steamUser, activeUser} \subseteq Users \cup {NoUser}
    /\ logged \in [Users -> [at : -1..MaxSeconds, ok : BOOLEAN]]
    /\ generation \in 0..MaxLaunches
    /\ status \in [state : States, user : Users \cup {NoUser}]
    /\ looked \in [Generations -> [state : States, user : Users \cup {NoUser}]]

----------------------------------------------------------------------------
(* Steam and the user.                                                     *)

Ours == <<generation, status, watch, looked>>

Turn == turns < MaxTurns /\ turns' = turns + 1

SecondPasses ==
    /\ second < MaxSeconds
    /\ second' = second + 1
    /\ UNCHANGED <<selected, steamUp, steamUser, activeUser, token, logged, turns, came, generation, status, watch, looked>>

\* A starting client has nobody, until it accepts or rejects an account.
Accepts(u) ==
    /\ Turn
    /\ steamUp /\ steamUser = NoUser
    /\ steamUser' = u /\ activeUser' = u
    /\ token' = token \cup {u}
    /\ \/ logged' = [logged EXCEPT ![u] = [at |-> second, ok |-> TRUE]]
       \/ UNCHANGED logged                    \* a success line this code does not recognise
    /\ came' = came \cup {u}
    /\ UNCHANGED <<second, selected, steamUp>> /\ UNCHANGED Ours

\* A rejection drops the token, and its line may carry no account.
Rejects(u) ==
    /\ Turn
    /\ steamUp /\ steamUser = NoUser /\ u = selected
    /\ token' = token \ {u}
    /\ activeUser' = NoUser
    /\ logged' = [v \in Users |-> [at |-> second, ok |-> FALSE]]
    /\ UNCHANGED <<second, selected, steamUp, steamUser, came>> /\ UNCHANGED Ours

\* It closes, or is killed and leaves ActiveUser behind.
Stops(killed) ==
    /\ Turn
    /\ steamUp
    /\ steamUp' = FALSE /\ steamUser' = NoUser
    /\ activeUser' = IF killed THEN activeUser ELSE NoUser
    /\ UNCHANGED <<second, selected, token, logged, came>> /\ UNCHANGED Ours

\* Steam restarts itself to apply an update; the launched client appears.
SteamStarts ==
    /\ Turn
    /\ ~steamUp /\ generation > 0
    /\ steamUp' = TRUE
    /\ activeUser' \in {NoUser} \cup IF EarlyActive THEN {selected} ELSE {}
    /\ UNCHANGED <<second, selected, steamUser, token, logged, came>> /\ UNCHANGED Ours

----------------------------------------------------------------------------
(* The watch.                                                              *)

\* A mutant: a replaced watch stores its verdict too.
StoredByAny(g, st) == st.state # "none"

\* setSignInStatus: only the current generation stores its verdict.
Stored(g, st) == g = generation

\* accountsWithoutStoredLogin: no answer when no key of the block matches any account.
StoredLoginMissing(u) == u \notin token /\ token # {}

\* Whether ActiveUser starts out on somebody else.
Moved(u) == activeUser # u

\* newSignInWatch for the account u, which must run before Steam starts.
NewWatch(u, readable) ==
    [on |-> TRUE, user |-> u, startedAt |-> second,
     noStoredLogin |-> readable /\ StoredLoginMissing(u),
     hadToken |-> readable /\ u \in token,
     sawClient |-> FALSE, goneSince |-> -1,
     activeMoved |-> Moved(u), rejectionSeen |-> FALSE]

\* launchAndWatchSignIn after a switch to u.  Steam is not running: a switch closes it first.
Launch(u) ==
    /\ generation < MaxLaunches /\ ~steamUp
    /\ selected' = u
    /\ generation' = generation + 1
    /\ came' = {}
    /\ \/ \E readable \in BOOLEAN :             \* Launch succeeds
             /\ watch' = [watch EXCEPT ![generation + 1] = NewWatch(u, readable)]
             /\ status' = Verdict("waiting", u)
       \/ UNCHANGED watch /\ status' = NoVerdict      \* nothing to watch, or the launch fails
    /\ UNCHANGED <<second, steamUp, steamUser, activeUser, token, logged, looked, turns>>

\* LaunchSteam with AutoStart off: clearSignInWatch.
ClearWatch ==
    /\ generation < MaxLaunches /\ ~steamUp
    /\ generation' = generation + 1 /\ status' = NoVerdict /\ came' = {}
    /\ UNCHANGED <<second, selected, steamUp, steamUser, activeUser, token, logged, watch, looked, turns>>

\* lastLogonEvent: strictly later than the second of the launch.
Heard(w) == logged[w.user].at > w.startedAt

\* check: the fields it updates on the watch ...
Looked(w) ==
    LET gone == IF steamUp THEN -1 ELSE IF w.goneSince = -1 THEN second ELSE w.goneSince
        fresh == Heard(w) /\ ~logged[w.user].ok /\ ~w.rejectionSeen
        moved == IF fresh THEN FALSE ELSE w.activeMoved
    IN [w EXCEPT !.sawClient = @ \/ steamUp, !.goneSince = gone,
                 !.rejectionSeen = @ \/ fresh,
                 !.activeMoved = moved \/ (steamUp /\ activeUser # w.user)]

\* ... and its verdict, strongest evidence first.  w is the watch as Looked leaves it.
Decided(w) ==
    IF Heard(w) /\ logged[w.user].ok THEN "confirmed"
    ELSE IF steamUp /\ activeUser = w.user /\ w.activeMoved THEN "confirmed"
    ELSE IF ~steamUp /\ IF w.sawClient THEN second - w.goneSince >= ExitSettle
                                       ELSE second - w.startedAt >= StartupGrace
         THEN "steamExited"
    ELSE IF Heard(w) \/ w.noStoredLogin \/ (w.hadToken /\ w.user \notin token) THEN "needsSignIn"
    ELSE IF second - w.startedAt >= AnswerTimeout THEN "unconfirmed"
    ELSE "waiting"

\* A poll reads the evidence without the tracker's lock ...
CheckAgain(g) ==
    /\ watch[g].on /\ looked[g] = NoVerdict
    /\ LET w == IF Heard(watch[g]) /\ logged[watch[g].user].ok
                THEN [watch[g] EXCEPT !.sawClient = @ \/ steamUp]
                ELSE Looked(watch[g])
       IN /\ watch' = [watch EXCEPT ![g] = w]
          /\ looked' = [looked EXCEPT ![g] = Verdict(Decided(w), w.user)]
    /\ UNCHANGED <<second, selected, steamUp, steamUser, activeUser, token, logged, generation, status, turns, came>>

\* ... and stores what it decided; a final answer or a newer launch ends the goroutine.
Final(w, st) == st.state = "confirmed"
                \/ (st.state = "steamExited" /\ second - w.startedAt >= WatchLimit)

Store(g) ==
    /\ watch[g].on /\ looked[g] # NoVerdict
    /\ status' = IF Stored(g, looked[g]) THEN looked[g] ELSE status
    /\ watch' = IF Final(watch[g], looked[g]) \/ g # generation
                THEN [watch EXCEPT ![g] = NoWatch] ELSE watch
    /\ looked' = [looked EXCEPT ![g] = NoVerdict]
    /\ UNCHANGED <<second, selected, steamUp, steamUser, activeUser, token, logged, generation, turns, came>>

WatchNext ==
    \/ SecondPasses \/ SteamStarts \/ ClearWatch
    \/ \E u \in Users : Accepts(u) \/ Rejects(u) \/ Launch(u)
    \/ \E killed \in BOOLEAN : Stops(killed)
    \/ \E g \in Generations : CheckAgain(g) \/ Store(g)

WatchSpec == WatchInit /\ [][WatchNext]_watchVars

----------------------------------------------------------------------------
\* "Signed in" is only claimed of an account that has signed in since the last launch
\* (signin_watch.go:35-38): not because of what a killed client left in ActiveUser, nor of a line
\* of the session before, nor of a replaced watch in the middle of its poll.
NeverFalselySignedIn == status.state = "confirmed" => status.user \in came
=============================================================================
