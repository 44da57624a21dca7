------------------------------ MODULE CloseSequence ------------------------------
(***************************************************************************)
(* How a running Steam is closed before its files are rewritten            *)
(* (internal/steam/close_sequence.go, os_backend_darwin.go,                *)
(* os_backend_windows.go), and the bare swap that follows the close        *)
(* (switcher.go).  The client is asked to exit by a command of its own, on *)
(* its own goroutine; then it is signalled; then it is killed.  The ask is *)
(* dangerous by itself: delivered when no client runs, it starts Steam.    *)
(*                                                                         *)
(* Time is counted in polls of the process table (250 ms).  `client' and   *)
(* `helpers' are the processes, which leave when they like once they have  *)
(* been asked or signalled, and the client may also quit by itself.        *)
(***************************************************************************)
EXTENDS Integers

CONSTANTS ExitGrace,      \* darwinExitGrace, windowsExitGrace
          GameExitGrace,  \* gameExitGrace: the client closes the game first
          AskTimeout,     \* darwinAskTimeout: the command is killed then
          HelperGrace,    \* darwinHelperGrace, windowsHelperGrace
          TermGrace       \* darwinTermGrace; 0 on Windows

ASSUME CloseAssumption ==
    /\ {ExitGrace, GameExitGrace, AskTimeout, HelperGrace} \subseteq Nat \ {0}
    /\ TermGrace \in Nat
    /\ AskTimeout < ExitGrace

VARIABLES client, helpers,    \* what runs
          closing,            \* where the sequence stands
          outcome,            \* closeOutcome once it has returned
          ask,                \* the command that asks: none, inFlight, delivered, failed
          now,                \* polls since the close began
          grace,              \* what the client gets in this close
          goneAt,             \* clientGoneAt; -1 while the client has not been seen gone
          restarted,          \* the ask came through after the sequence had returned
          loginWritten        \* Steam still ran when the bare swap wrote its files

closeVars == <<client, helpers, closing, outcome, ask, now, grace, goneAt, restarted, loginWritten>>

CloseTypeOK ==
    /\ {client, helpers, restarted} \subseteq BOOLEAN
    /\ closing \in {"idle", "asking", "settling", "signalled", "killed", "returned", "swapped"}
    /\ outcome \in {"none", "nothing-running", "steam-exit", "sigterm", "sigkill"}
    /\ ask \in {"none", "inFlight", "delivered", "failed"}
    /\ now \in 0..(GameExitGrace + ExitGrace + TermGrace + 1)
    /\ grace \in {ExitGrace, GameExitGrace}
    /\ goneAt \in -1..(GameExitGrace + ExitGrace)
    /\ loginWritten \in {"no", "closed", "running"}

AnyRunning == client \/ helpers

CloseInit ==
    /\ client = TRUE /\ helpers = TRUE
    /\ closing = "idle" /\ outcome = "none" /\ ask = "none"
    /\ now = 0 /\ grace = ExitGrace /\ goneAt = -1
    /\ restarted = FALSE /\ loginWritten = "no"

----------------------------------------------------------------------------
(* The processes and the command, outside the sequence.                    *)

\* The client quits: because it was asked or signalled, or by itself.
ClientQuits ==
    /\ client
    /\ client' = FALSE
    /\ UNCHANGED <<helpers, closing, outcome, ask, now, grace, goneAt, restarted, loginWritten>>

\* Helpers follow the client, and may linger.
HelpersQuit ==
    /\ helpers /\ ~client
    /\ helpers' = FALSE
    /\ UNCHANGED <<client, closing, outcome, ask, now, grace, goneAt, restarted, loginWritten>>

\* The command reaches a client, or reaches none and starts Steam.
AskDelivered ==
    /\ ask = "inFlight"
    /\ ask' = "delivered"
    /\ client' = TRUE
    /\ helpers' = (helpers \/ ~client)
    /\ restarted' = (restarted \/ (~client /\ closing \in {"returned", "swapped"}))
    /\ UNCHANGED <<closing, outcome, now, grace, goneAt, loginWritten>>

\* It cannot be run, or its context expires and kills it.
AskFails ==
    /\ ask = "inFlight"
    /\ ask' = "failed"
    /\ UNCHANGED <<client, helpers, closing, outcome, now, grace, goneAt, restarted, loginWritten>>

----------------------------------------------------------------------------
(* run                                                                     *)

CloseReturns(o) == closing' = "returned" /\ outcome' = o

\* Only a running client is asked; leftover helpers go straight to the signals.
AskToClose(game) ==
    /\ closing = "idle"
    /\ grace' = IF game /\ GameExitGrace > ExitGrace THEN GameExitGrace ELSE ExitGrace
    /\ IF ~AnyRunning
       THEN CloseReturns("nothing-running") /\ UNCHANGED ask
       ELSE /\ closing' = IF client THEN "asking" ELSE "signalled"
            /\ ask' = IF client THEN "inFlight" ELSE "none"
            /\ UNCHANGED outcome
    /\ UNCHANGED <<client, helpers, now, goneAt, restarted, loginWritten>>

\* When the wait for the requested exit gives up, and the signals begin.
Overstaying == ~client /\ goneAt # -1 /\ now - goneAt >= HelperGrace

\* A poll of waitForRequestedExit, then a sleep.
PollExit ==
    /\ closing = "asking"
    /\ IF ask = "failed" \/ now >= grace
       THEN /\ closing' = IF AnyRunning THEN "signalled"
                          ELSE IF ask = "inFlight" THEN "settling" ELSE "returned"
            /\ outcome' = IF closing' = "returned" THEN "steam-exit" ELSE outcome
            /\ UNCHANGED <<now, goneAt>>
       ELSE IF ~AnyRunning
       THEN closing' = "settling" /\ UNCHANGED <<outcome, now, goneAt>>
       ELSE IF Overstaying
       THEN closing' = "signalled" /\ UNCHANGED <<outcome, now, goneAt>>
       ELSE /\ goneAt' = IF ~client /\ goneAt = -1 THEN now ELSE goneAt
            /\ now' = now + 1
            /\ UNCHANGED <<closing, outcome>>
    /\ ~(ask = "inFlight" /\ now' > AskTimeout)
    /\ UNCHANGED <<client, helpers, ask, grace, restarted, loginWritten>>

\* A mutant: nothing waits for the command.
MayReport == closing = "settling"

\* "closed" waits for the command, and asks the process table again.  askSettle equals the
\* command's own timeout, so the command has ended by then.
MaySettle == ask # "inFlight"

Settle ==
    /\ closing = "settling"
    /\ MaySettle
    /\ IF AnyRunning THEN closing' = "signalled" /\ UNCHANGED outcome
       ELSE CloseReturns("steam-exit")
    /\ UNCHANGED <<client, helpers, ask, now, grace, goneAt, restarted, loginWritten>>

\* Counted from the start, not from the signal.
KillDue == now >= grace + TermGrace

PollSignalled ==
    /\ closing = "signalled"
    /\ IF ~AnyRunning THEN CloseReturns("sigterm") /\ UNCHANGED now
       ELSE IF KillDue THEN closing' = "killed" /\ UNCHANGED <<outcome, now>>
       ELSE now' = now + 1 /\ UNCHANGED <<closing, outcome>>
    /\ ~(ask = "inFlight" /\ now' > AskTimeout)
    /\ UNCHANGED <<client, helpers, ask, grace, goneAt, restarted, loginWritten>>

\* The kill, a moment for the kernel to reap, and an honest report: a process may survive.
Kill ==
    /\ closing = "killed"
    /\ CloseReturns("sigkill")
    /\ \E survives \in BOOLEAN :
          /\ client' = (survives /\ client)
          /\ helpers' = (survives /\ helpers)
    /\ UNCHANGED <<ask, now, grace, goneAt, restarted, loginWritten>>

\* swapToAccountLocked: an error of the close is logged, and the login files are written.
WriteLogin ==
    /\ closing = "returned"
    /\ closing' = "swapped"
    /\ loginWritten' = IF AnyRunning THEN "running" ELSE "closed"
    /\ UNCHANGED <<client, helpers, outcome, ask, now, grace, goneAt, restarted>>

CloseNext ==
    \/ ClientQuits \/ HelpersQuit \/ AskDelivered \/ AskFails
    \/ \E game \in BOOLEAN : AskToClose(game)
    \/ PollExit \/ Settle \/ PollSignalled \/ Kill \/ WriteLogin

CloseSpec == CloseInit /\ [][CloseNext]_closeVars

----------------------------------------------------------------------------
(* What a close promises.                                                  *)

\* A close by request or by force never leaves a command behind that starts Steam again once it
\* has been reported (close_sequence.go:31-33, os_backend_darwin.go:142-144).
NothingStartsAgain == outcome \in {"steam-exit", "sigkill"} => ~restarted

\* The same of every close.  A close by signal after helpers outstayed the client breaks it: the
\* command that asked is still in flight.
NoCloseStartsAgain == ~restarted

\* The login files are written only while Steam is closed.  The bare swap breaks it: the close
\* is best effort there, and nothing looks again.
LoginWrittenWhenClosed == loginWritten # "running"
=============================================================================
