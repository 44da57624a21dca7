------------------------------- MODULE Commands -------------------------------
(***************************************************************************)
(* What a command line asks for and which process carries it out           *)
(* (internal/cli/args.go, main.go, internal/app/dispatch.go and gui.go,    *)
(* internal/ipc, internal/winutil), as built for Windows.                  *)
(*                                                                         *)
(* Every process parses its own arguments.  Help, lists and sealing a      *)
(* roster are answered at once.  For the rest one process at a time is the *)
(* app: the one that created a named mutex.  A later one sends its         *)
(* arguments through a pipe to the app's window and exits; the window      *)
(* parses them again.  The window may also start its own successor, to     *)
(* move the user data: it lets the mutex go first, and exits when it sees  *)
(* that somebody has it.                                                   *)
(***************************************************************************)
EXTENDS Naturals, Sequences, FiniteSets, SequencesExt

CONSTANTS Procs,       \* the processes that are ever started
          MaxArgs      \* bound: arguments in a command line

NoProc == "nobody"

ASSUME CommandsAssumption == IsFiniteSet(Procs) /\ NoProc \notin Procs /\ MaxArgs \in Nat

VARIABLES proc,      \* each process: its status and what it was asked
          holder,    \* the process that has SteamSwitch-Singleton, or nobody
          pipe,      \* the process that listens on the pipe, or nobody
          sent,      \* command lines written to the pipe and not yet carried out
          carried,   \* what has been carried out, and whether a link asked for it (history)
          gaveUp     \* a restart was given up after the mutex was let go (history)

commandVars == <<proc, holder, pipe, sent, carried, gaveUp>>

----------------------------------------------------------------------------
(* Parse.                                                                  *)

\* Arguments by what Parse tells apart: a link that may be asked for and any other, the commands,
\* the options that need a command, and the flags that go with anything.
Commands == {"swap", "logout", "platforms", "accounts", "seal", "page"}
Tokens == Commands \cup {"link", "badLink", "badSwap", "appid", "file", "json", "help", "level", "badLevel", "flag", "word"}

Nothing == [ok |-> TRUE, kind |-> "none", help |-> FALSE, link |-> FALSE,
            appid |-> FALSE, file |-> FALSE, json |-> FALSE, level |-> FALSE]
Refused == [Nothing EXCEPT !.ok = FALSE]

\* mergePrimary: two commands of one kind are one, the later.
MergePrimary(p, kind) ==
    IF p.kind \in {"none", kind} THEN [p EXCEPT !.kind = kind] ELSE Refused

\* parsePlusToken and parseSteamSwap: a switch, or a prefix, an alias or a state nobody knows.
PlusToken(p, t) == IF t = "badSwap" THEN Refused ELSE MergePrimary(p, "swap")

\* parseLogLevelArg.
LogLevel(p, t) == IF t = "badLevel" \/ p.level THEN Refused ELSE [p EXCEPT !.level = TRUE]

\* One argument.
ReadToken(p, t) ==
    CASE ~p.ok -> p
      [] p.ok /\ t = "help" -> [p EXCEPT !.help = TRUE, !.kind = "help"]
      [] p.ok /\ t \in {"link", "swap", "badSwap"} -> PlusToken(p, t)
      [] p.ok /\ t \in Commands \ {"swap"} -> MergePrimary(p, t)
      [] p.ok /\ t \in {"level", "badLevel"} -> LogLevel(p, t)
      [] p.ok /\ t = "json" -> [p EXCEPT !.json = TRUE]
      [] p.ok /\ t = "appid" -> IF p.appid THEN Refused ELSE [p EXCEPT !.appid = TRUE]
      [] p.ok /\ t = "file" -> IF p.file THEN Refused ELSE [p EXCEPT !.file = TRUE]
      [] p.ok /\ t = "badLink" -> Refused
      [] p.ok /\ t \in {"flag", "word"} -> p

Links(argv) == {i \in DOMAIN argv : argv[i] \in {"link", "badLink"}}

\* A mutant: what comes with a link is parsed as well.
LinkWithAnything(argv) == FALSE

\* A quote in a link makes the shell split it, so a link must stand alone.
LinkNotAlone(argv) == Links(argv) # {} /\ Len(argv) > 1

\* The options that need a command of a kind.
Fits(p) ==
    /\ p.appid \/ p.file => p.kind = "swap"
    /\ ~(p.appid /\ p.file)
    /\ p.json => p.kind \in {"platforms", "accounts"}

Parse(argv) ==
    LET p == FoldLeft(ReadToken, Nothing, argv)
    IN  IF LinkNotAlone(argv) \/ ~p.ok \/ ~Fits(p) THEN Refused
        ELSE [Nothing EXCEPT !.kind = p.kind, !.help = p.help, !.link = Links(argv) # {},
                             !.appid = p.appid, !.file = p.file, !.json = p.json]

CommandLines == UNION {[1..n -> Tokens] : n \in 0..MaxArgs}
Requests == {Parse(argv) : argv \in CommandLines}

NeedsHeadlessMutex(p) == p.kind \in {"swap", "logout"}
\* IsListCommand, IsStdioCommand, and help: answered before the mutex.
IsAnsweredAtOnce(p) == p.help \/ p.kind \in {"platforms", "accounts", "seal"}

----------------------------------------------------------------------------
(* The processes.                                                          *)

CommandsInit ==
    /\ proc = [p \in Procs |-> [status |-> "unborn", asked |-> Nothing]]
    /\ holder = NoProc /\ pipe = NoProc /\ sent = {}
    /\ carried = {} /\ gaveUp = FALSE

CommandsTypeOK ==
    /\ \A p \in Procs : proc[p].status \in {"unborn", "born", "headless", "opening", "window", "forwarding",
                                            "restarting", "gone", "failed"}
    /\ {holder, pipe} \subseteq Procs \cup {NoProc}
    /\ sent \subseteq Requests

Is(p, status) == proc[p].status = status
Becomes(p, status) == proc' = [proc EXCEPT ![p].status = status]
Leaves(p, status) == proc' = [proc EXCEPT ![p] = [status |-> status, asked |-> Nothing]]

\* What a request carries out, and what it does after a swap.
Effects(r) ==
    {[what |-> r.kind, link |-> r.link]}
        \cup (IF r.kind = "swap" /\ r.appid THEN {[what |-> "game", link |-> r.link]} ELSE {})
        \cup (IF r.kind = "swap" /\ r.file THEN {[what |-> "shortcut", link |-> r.link]} ELSE {})

\* main, to Parse.
StartProcess(p) ==
    /\ Is(p, "unborn")
    /\ \E r \in Requests :
          proc' = [proc EXCEPT ![p] = IF r.ok THEN [status |-> "born", asked |-> r]
                                      ELSE [status |-> "failed", asked |-> Nothing]]
    /\ UNCHANGED <<holder, pipe, sent, carried, gaveUp>>

\* Help, RunList and RunSealRoster: nothing the app owns is changed.
AnswerAtOnce(p) ==
    /\ Is(p, "born") /\ IsAnsweredAtOnce(proc[p].asked)
    /\ Leaves(p, "gone")
    /\ UNCHANGED <<holder, pipe, sent, carried, gaveUp>>

\* A mutant: a second process that finds the mutex goes on.
TakesItAnyway(p) == TRUE

\* TryAcquireSingleton.
MayBecomeApp(p) == holder = NoProc

Acquire(p) ==
    /\ Is(p, "born") /\ ~IsAnsweredAtOnce(proc[p].asked)
    /\ IF MayBecomeApp(p)
       THEN holder' = p /\ Becomes(p, IF NeedsHeadlessMutex(proc[p].asked) THEN "headless" ELSE "opening")
       ELSE Becomes(p, "forwarding") /\ UNCHANGED holder
    /\ UNCHANGED <<pipe, sent, carried, gaveUp>>

\* RunHeadless: refused while the app is locked; LaunchAfterSwap when the swap was made.
RunHeadless(p, ok) ==
    /\ Is(p, "headless")
    /\ carried' = IF ok THEN carried \cup Effects(proc[p].asked) ELSE carried
    /\ holder' = IF holder = p THEN NoProc ELSE holder
    /\ Leaves(p, IF ok THEN "gone" ELSE "failed")
    /\ UNCHANGED <<pipe, sent, gaveUp>>

\* ForwardArgs: without a listener, as under a headless process or a window that is opening, it fails.
ForwardArgs(p) ==
    /\ Is(p, "forwarding")
    /\ IF pipe # NoProc
       THEN sent' = sent \cup {proc[p].asked} /\ Leaves(p, "gone")
       ELSE Leaves(p, "failed") /\ UNCHANGED sent
    /\ UNCHANGED <<holder, pipe, carried, gaveUp>>

\* StartGUIServer: while somebody else listens, this window never does.
OpenWindow(p) ==
    /\ Is(p, "opening")
    /\ pipe' = IF pipe = NoProc THEN p ELSE pipe
    /\ Becomes(p, "window")
    /\ UNCHANGED <<holder, sent, carried, gaveUp>>

\* handleForwardedCLI and dispatchCLIInGUI: a swap, a logout, or the window is shown.
DispatchInGUI(r, ok) ==
    /\ r \in sent /\ pipe # NoProc
    /\ Is(pipe, "window") \/ Is(pipe, "restarting")
    /\ sent' = sent \ {r}
    /\ carried' = IF ok THEN carried \cup Effects(r) ELSE carried
    /\ UNCHANGED <<proc, holder, pipe, gaveUp>>

\* A process is over: what it had is free, and what was written to its pipe is lost.
Over(p) ==
    /\ holder' = IF holder = p THEN NoProc ELSE holder
    /\ pipe' = IF pipe = p THEN NoProc ELSE pipe
    /\ sent' = IF pipe = p THEN {} ELSE sent

Quit(p) ==
    /\ Is(p, "window")
    /\ Over(p) /\ Leaves(p, "gone")
    /\ UNCHANGED <<carried, gaveUp>>

\* RestartSelf and RestartElevated: the mutex is let go, and a successor started that opens a window.
RestartWindow(p, q) ==
    /\ Is(p, "window") /\ Is(q, "unborn")
    /\ holder' = IF holder = p THEN NoProc ELSE holder
    /\ proc' = [proc EXCEPT ![p].status = "restarting", ![q] = [status |-> "born", asked |-> Nothing]]
    /\ UNCHANGED <<pipe, sent, carried, gaveUp>>

\* Somebody has the mutex; that it is the successor is not asked.
HandOver(p) ==
    /\ Is(p, "restarting") /\ holder # NoProc
    /\ Over(p) /\ Leaves(p, "gone")
    /\ UNCHANGED <<carried, gaveUp>>

\* Nobody has it after three seconds, or the successor was not started: the window goes on without.
GiveUpRestart(p) ==
    /\ Is(p, "restarting") /\ holder = NoProc
    /\ Becomes(p, "window")
    /\ gaveUp' = TRUE
    /\ UNCHANGED <<holder, pipe, sent, carried>>

CommandsNext ==
    \/ \E p \in Procs :
          \/ StartProcess(p) \/ AnswerAtOnce(p) \/ Acquire(p) \/ ForwardArgs(p) \/ OpenWindow(p)
          \/ Quit(p) \/ HandOver(p) \/ GiveUpRestart(p)
          \/ \E ok \in BOOLEAN : RunHeadless(p, ok)
          \/ \E q \in Procs : RestartWindow(p, q)
    \/ \E r \in sent, ok \in BOOLEAN : DispatchInGUI(r, ok)

CommandsSpec == CommandsInit /\ [][CommandsNext]_commandVars

----------------------------------------------------------------------------
(* What the rest of the app relies on.                                     *)

\* A link switches to a Steam account and does nothing else, whatever arguments reach the app
\* beside it and whichever process carries it out (args.go:78-83, :126-127).
LinksOnlySwitch == \A c \in carried : c.link => c.what = "swap"

Acting(p) == proc[p].status \in {"headless", "opening", "window"}

\* The locks of the kit and of the Steam service are those of one process: two processes never
\* switch, or stand open to, at once, unless a restart was given up half way (main.go:168-181).
\* A window that waits for its successor is left out: it still carries out what it is sent.
OneAppActs == ~gaveUp => \A p, q \in Procs : Acting(p) /\ Acting(q) => p = q

\* A restart leaves a window behind.  It need not: a command that comes between the two has the
\* mutex, the old window takes it for its successor, and the successor has nobody to send its
\* arguments to.
RestartsComeBack ==
    [][\A p \in Procs : HandOver(p) => \E q \in Procs : proc[q].status \in {"born", "opening", "window"}]_commandVars
=============================================================================
