------------------------------- MODULE KitGuard -------------------------------
(***************************************************************************)
(* Who may touch Steam's login and configuration at once.  Account tiles   *)
(* go through the Session Kit engine; the tray, shortcuts, links and the   *)
(* command line swap without it, the configuration tools write beside it,  *)
(* and a backup can be restored over everything.  Three mutexes and one    *)
(* gate (internal/steam/sessionkit_guard.go, RunUnjournaledSwap and        *)
(* RunWhileSettled in sessionkit/engine.go) keep them apart:               *)
(*                                                                         *)
(*    Engine.mu, held across a whole switch, bare swap or restore;         *)
(*    SteamService.mu, held by every method of the service, and taken      *)
(*       BEFORE the engine's by the methods that swap;                     *)
(*    dotaWriteMu, held while a configuration tree is replaced.            *)
(*                                                                         *)
(* What a transaction does step by step is SessionKit; here it is the      *)
(* steps another caller could get in between.                              *)
(***************************************************************************)
EXTENDS Naturals, FiniteSets

CONSTANTS
    Callers,   \* goroutines: the window's, the tray's, the command line's
    Accounts,
    Nobody     \* no account, or no caller

ASSUME NobodyAssumption == Nobody \notin Callers \cup Accounts

VARIABLES
    owner,     \* who holds each mutex
    proc,      \* each caller: its operation, its next step, its target
    kit,       \* what the journal says, as Status reports it
    login,     \* the account loginusers.vdf signs in to
    engine,    \* whether the engine could be built at startup
    overwrote  \* history: a forgotten account's rewrite undid somebody's swap

guardVars == <<owner, proc, kit, login, engine, overwrote>>

Mutexes == {"engine", "service", "config"}

Engined  == {"enter", "leave", "resolve"}   \* SessionKitService
Games    == {"swapAndPlay", "play"}         \* LoginAndLaunchGame, as it goes
Serviced == {"swap", "game", "forget"}      \* what SteamService.mu is held for
Swaps    == {"tray", "swap", "swapAndPlay"} \* through SwapToAccount
Begun    == Engined \cup Serviced \cup {"tray", "restore", "tool", "library", "status"}

Steps == {"idle", "wantService", "wantEngine", "close", "wantConfig",
          "write", "login", "settle", "release", "play", "hand", "rewrite"}

KitStates == {"none", "active", "kept", "interrupted", "external"}

-----------------------------------------------------------------------------
At(c, step)    == proc[c].at = step
Op(c)          == proc[c].op
Free(m)        == owner[m] = Nobody
Holds(c, m)    == owner[m] = c
Moved(c, step) == proc' = [proc EXCEPT ![c].at = step]

Settled     == kit.state = "none"
PointerExists == ~Settled
Live        == kit.state \in {"active", "kept"}
OnTarget(c) == Live /\ kit.on = proc[c].to

GuardTypeOK ==
    /\ owner \in [Mutexes -> Callers \cup {Nobody}]
    /\ proc \in [Callers -> [op : Begun \cup Games, at : Steps, to : Accounts,
                             writes : BOOLEAN, saw : Accounts]]
    /\ kit \in [state : KitStates, on : Accounts]
    /\ login \in Accounts
    /\ engine \in BOOLEAN /\ overwrote \in BOOLEAN
    /\ \A c \in Callers : At(c, "idle") => \A m \in Mutexes : owner[m] # c

\* MUTANT: a live kit may be left by anyone.
StaysOnAny(c) == Settled \/ Live

\* kitBlocksEntry: not leaving the account a kit is on.
StaysOn(c) == Settled \/ OnTarget(c)

\* What each entry point asks of the status it reads under Engine.mu.
Permitted(c) ==
    CASE Op(c) \in Swaps \cup {"play", "enter"} -> StaysOn(c)
      [] Op(c) = "leave"                         -> Live
      [] Op(c) = "resolve"                       -> ~Settled
      [] OTHER                                   -> Settled

-----------------------------------------------------------------------------
Unspecified == CHOOSE a \in Accounts : TRUE

Resting == [op |-> "status", at |-> "idle", writes |-> FALSE,
            to |-> Unspecified, saw |-> Unspecified]

\* A journal for nothing is no journal.
Kit(state, on) == [state |-> state, on |-> IF state = "none" THEN Unspecified ELSE on]

GuardInit ==
    /\ owner = [m \in Mutexes |-> Nobody]
    /\ login \in Accounts
    /\ kit \in {Kit(state, login) : state \in {"none", "active", "interrupted"}}
    /\ proc = [c \in Callers |-> Resting]
    /\ engine \in BOOLEAN
    /\ overwrote = FALSE

\* The first step of what was asked for; tools and the dialog only look.
FirstStep(op, writes) ==
    CASE op = "resolve"                -> IF writes THEN "close" ELSE "settle"
      [] op \in {"enter", "leave"}     -> "close"
      [] op \in Swaps                  -> "close"
      [] op = "play"                   -> "play"
      [] op = "restore"                -> "write"
      [] OTHER                         -> "release"

Gated(op) == engine

\* engineOrSafeWithout: without an engine all that is known is whether the
\* pointer file exists.  The tools' guard does not even ask that.
GateStep(op) ==
    IF Gated(op) THEN "wantEngine"
    ELSE CASE op = "tool"   -> "wantConfig"
           [] op = "status" -> "hand"
           [] OTHER         -> IF PointerExists THEN "hand" ELSE FirstStep(op, FALSE)

\* `writes`: the switch carries a kit, or the way out puts a setup back.
Begin(c, op, to, writes) ==
    /\ At(c, "idle")
    /\ (op \in Engined => engine)                    \* ErrKitNotReady
    /\ (writes => op \in Engined)
    /\ (op \in {"status", "tool", "library", "restore", "forget"} => to = Unspecified)
    /\ proc' = [proc EXCEPT ![c].op = op, ![c].to = to, ![c].writes = writes,
            ![c].at = IF op \in Serviced THEN "wantService"
                      ELSE IF op = "library" THEN "wantConfig" ELSE GateStep(op)]
    /\ UNCHANGED <<owner, kit, login, engine, overwrote>>

\* LoginAndLaunchGame decides by what it reads before any gate.
Branch(c) ==
    IF Op(c) # "game" THEN Op(c)
    ELSE IF login = proc[c].to THEN "play" ELSE "swapAndPlay"

TakeService(c) ==
    /\ At(c, "wantService") /\ Free("service")
    /\ owner' = [owner EXCEPT !["service"] = c]
    /\ proc' = [proc EXCEPT ![c].op = Branch(c),
                            ![c].saw = IF Op(c) = "forget" THEN login ELSE @,
                            ![c].at = IF Op(c) = "forget" THEN "rewrite" ELSE GateStep(Branch(c))]
    /\ UNCHANGED <<kit, login, engine, overwrote>>

\* A swap that was refused or failed returns before its game.
Dropped(c) == IF Op(c) = "swapAndPlay" THEN "swap" ELSE Op(c)

\* The status is read as soon as the engine is held.  A tool remembers the
\* answer and lets go; entering the account the kit is on is only a sign-in.
TakeEngine(c) ==
    /\ At(c, "wantEngine") /\ Free("engine")
    /\ owner' = [owner EXCEPT !["engine"] = c]
    /\ proc' = [proc EXCEPT
           ![c].op = IF Permitted(c) THEN @ ELSE Dropped(c),
           ![c].writes = CASE Op(c) = "tool"  -> Permitted(c)
                           [] Op(c) = "enter" -> proc[c].writes /\ Settled
                           [] OTHER           -> proc[c].writes,
           ![c].at = IF Permitted(c) THEN FirstStep(Op(c), proc[c].writes) ELSE "release"]
    /\ UNCHANGED <<kit, login, engine, overwrote>>

\* Whether this transaction has a journal to keep.
Journaled(c) == Op(c) \in Engined /\ (proc[c].writes \/ Op(c) = "leave")

\* Steam closes, and the journal's first phases are written: every phase in
\* the middle of a transaction reads as interrupted.
Close(c) ==
    /\ At(c, "close")
    /\ kit' = IF Journaled(c)
              THEN Kit("interrupted", IF Op(c) = "enter" THEN proc[c].to ELSE kit.on)
              ELSE kit
    /\ Moved(c, IF Journaled(c) /\ proc[c].writes THEN "wantConfig" ELSE "login")
    /\ UNCHANGED <<owner, login, engine, overwrote>>

\* restoreTheirSetup: the tree is no longer what was applied.
FindsExternal(c) ==
    /\ At(c, "wantConfig") /\ Op(c) = "leave"
    /\ kit' = [kit EXCEPT !.state = "external"]
    /\ Moved(c, "release")
    /\ UNCHANGED <<owner, login, engine, overwrote>>

\* MUTANTS: the engine's part writer takes no lock; or the service's too.
MayWriteAnyway(c) == Free("config") \/ Op(c) \in Engined
MayTakeBoth(c) == Free("config") /\ (Op(c) \in Engined => Free("service"))

MayTakeConfig(c) == Free("config")

TakeConfig(c) ==
    /\ At(c, "wantConfig") /\ MayTakeConfig(c)
    /\ owner' = [owner EXCEPT !["config"] = c]
    /\ Moved(c, IF Op(c) = "library" THEN "hand" ELSE "write")
    /\ UNCHANGED <<kit, login, engine, overwrote>>

Freed(c, ms) == [m \in Mutexes |-> IF m \in ms /\ Holds(c, m) THEN Nobody ELSE owner[m]]

\* A restored backup brings its own loginusers.vdf.
Write(c) ==
    /\ At(c, "write")
    /\ owner' = Freed(c, {"config"})
    /\ Moved(c, IF Op(c) \in Engined THEN "login"
                ELSE IF Holds(c, "engine") THEN "release" ELSE "hand")
    /\ (Op(c) # "restore" => login' = login) /\ login' \in Accounts
    /\ UNCHANGED <<kit, engine, overwrote>>

Login(c) ==
    /\ At(c, "login")
    /\ login' = proc[c].to
    /\ Moved(c, "settle")
    /\ UNCHANGED <<owner, kit, engine, overwrote>>

\* How the journal may end for what was asked for.
Endings(c) ==
    CASE Op(c) = "enter" /\ proc[c].writes -> {"active"}
      [] Op(c) = "leave"                   -> IF proc[c].writes THEN {"none"} ELSE {"kept"}
      [] Op(c) = "resolve"                 -> IF proc[c].writes THEN {"none"}
                                              ELSE {"kept", "none"}
      [] OTHER                             -> {kit.state}

AfterGate(c) ==
    CASE Op(c) = "tool" /\ proc[c].writes -> "wantConfig"
      [] Op(c) = "swapAndPlay"            -> "play"
      [] OTHER                            -> "hand"

\* Steam is started and the last phase written.
Settle(c) ==
    /\ At(c, "settle")
    /\ \E s \in Endings(c) : kit' = Kit(s, kit.on)
    /\ Moved(c, IF Holds(c, "engine") THEN "release" ELSE AfterGate(c))
    /\ UNCHANGED <<owner, login, engine, overwrote>>

Release(c) ==
    /\ At(c, "release")
    /\ owner' = Freed(c, {"engine"})
    /\ Moved(c, AfterGate(c))
    /\ UNCHANGED <<kit, login, engine, overwrote>>

Play(c) ==
    /\ At(c, "play")
    /\ Moved(c, IF Holds(c, "engine") THEN "release" ELSE "hand")
    /\ UNCHANGED <<owner, kit, login, engine, overwrote>>

Hand(c) ==
    /\ At(c, "hand")
    /\ owner' = Freed(c, {"service", "config"})
    /\ proc' = [proc EXCEPT ![c] = Resting]
    /\ UNCHANGED <<kit, login, engine, overwrote>>

\* RemoveSteamAccountFromVDF writes back the tree it read.
Rewrite(c) ==
    /\ At(c, "rewrite")
    /\ login' = proc[c].saw
    /\ overwrote' = (overwrote \/ login # proc[c].saw)
    /\ Moved(c, "hand")
    /\ UNCHANGED <<owner, kit, engine>>

\* Steam does not close, a file is not written, Steam does not start.
Fail(c) ==
    /\ proc[c].at \in {"close", "write", "login", "settle"}
    /\ owner' = Freed(c, {"config"})
    /\ proc' = [proc EXCEPT ![c].op = Dropped(c),
                            ![c].at = IF Holds(c, "engine") THEN "release" ELSE "hand"]
    /\ UNCHANGED <<kit, login, engine, overwrote>>

\* The process ends; what is on disk is what the next one starts from.
Restart ==
    /\ \E c \in Callers : ~At(c, "idle")
    /\ owner' = [m \in Mutexes |-> Nobody]
    /\ proc' = [c \in Callers |-> Resting]
    /\ engine' \in BOOLEAN
    /\ UNCHANGED <<kit, login, overwrote>>

Take(c) ==
    \/ TakeService(c)
    \/ TakeEngine(c)
    \/ TakeConfig(c)

Step(c) ==
    \/ Close(c)
    \/ FindsExternal(c)
    \/ Write(c)
    \/ Login(c)
    \/ Settle(c)
    \/ Release(c)
    \/ Play(c)
    \/ Hand(c)
    \/ Rewrite(c)
    \/ Fail(c)

GuardNext ==
    \/ \E c \in Callers, op \in Begun, to \in Accounts, writes \in BOOLEAN :
          Begin(c, op, to, writes)
    \/ \E c \in Callers : Take(c) \/ Step(c)
    \/ Restart

\* A goroutine that is running goes on; sync.Mutex hands itself to a waiter
\* that has starved, so one that keeps finding it free gets it.
GuardFairness ==
    \A c \in Callers : WF_guardVars(Step(c)) /\ SF_guardVars(Take(c))

GuardSpec == GuardInit /\ [][GuardNext]_guardVars /\ GuardFairness

-----------------------------------------------------------------------------
Changing(c) ==
    Op(c) # "tool" /\ proc[c].at \in {"close", "write", "login", "settle"}

\* However it was started, only one switch, bare swap or restore is ever part
\* of the way through: a link clicked while a tile switches waits or is
\* refused (sessionkit_guard.go:21, engine.go:140).
OneSwapAtATime ==
    engine => \A c, d \in Callers :
        Changing(c) /\ Changing(d) => c = d

\* A kit's files are never being replaced while a tool or a restore replaces
\* them too, although a tool writes without the engine's lock and a restore
\* without dotaWriteMu (sessionkit_dota.go:341).
KitWritesAlone ==
    \A c, d \in Callers :
        At(c, "write") /\ At(d, "write") /\ Op(c) \in Engined => c = d

\* While a kit is live its account is the one Steam signs in to, whichever
\* way somebody tried to switch away (engine.go:120-172).  Forgetting an
\* account can undo a swap (KitLoginKept) and is set aside here.
LoginFollowsKit == kit.state = "active" /\ ~overwrote => login = kit.on

\* A game asked for on the account already signed in starts only while the
\* kit allows it: no transaction begins between the check and the launch
\* (sessionkit_guard.go:145-152).
PlayedInsideTheGate ==
    \A c \in Callers : At(c, "play") /\ Op(c) = "play" => Settled \/ OnTarget(c)

WaitsFor(c, m) ==
    \/ m = "service" /\ At(c, "wantService")
    \/ m = "engine" /\ At(c, "wantEngine")
    \/ m = "config" /\ At(c, "wantConfig")

\* Whatever locks are held, somebody who is in the middle of a call can go
\* on: three mutexes taken in two orders close no cycle
\* (sessionkit_service.go:20-42).
SomebodyCanGo ==
    (\E c \in Callers : ~At(c, "idle")) =>
        \E c \in Callers :
            ~At(c, "idle") /\ \A m \in Mutexes : WaitsFor(c, m) => Free(m)

\* Nobody waits for ever: every refusal and every failure lets go of what it
\* held, and a caller that waits is let in in the end.
EveryCallReturns == \A c \in Callers : ~At(c, "idle") ~> At(c, "idle")

-----------------------------------------------------------------------------
\* Stated by comments of the code and not kept: each has a counterexample, which the README tells.

\* sessionkit_service.go:248-251: a manual tool writes only while no kit is
\* live.  The tool asks before it waits for dotaWriteMu.
ToolsSpareKits ==
    \A c \in Callers : At(c, "write") /\ Op(c) = "tool" => Settled

\* engine.go:128-132: the login is never rewritten beside a journaled swap.
\* ForgetSteamAccount holds SteamService.mu only.
KitLoginKept == kit.state = "active" => login = kit.on

\* service.go:937: the game is launched inside the gate.  After a swap it is
\* launched outside.
SwappedGamesToo ==
    \A c \in Callers : At(c, "play") => Settled \/ OnTarget(c)
=============================================================================
