------------------------------- MODULE GuardCodes -------------------------------
(***************************************************************************)
(* Steam Guard codes for one account out of its inbox                      *)
(* (internal/vault/codes.go, mail/code.go, mail/imap.go).  A code is good  *)
(* for one sign-in.  A switch, and a sign-in the user does by hand, warm   *)
(* one up in the background; a request takes it, or else cancels the       *)
(* warming and reads the inbox itself.  A fetch is judged by an anchor:    *)
(* the start of the sign-in declared by BeginLoginAssist, or now.          *)
(*                                                                         *)
(* A cancelled fetch ends only between two polls of the inbox: the poll it *)
(* is in runs to its end, and with PurgeConsumed deletes what it found.    *)
(* An account with an authenticator never gets here; its codes are         *)
(* computed.                                                               *)
(***************************************************************************)
EXTENDS Integers, FiniteSets, FiniteSetsExt

CONSTANTS Mails,            \* the mails Steam sends, in order: 1..n
          Warmings,         \* the pre-warms a behaviour can start: 1..n
          Purge,            \* PurgeConsumed is set, and the deletion succeeds
          MaxMinutes,       \* bound: the clock of a behaviour
          StaleSkew, LoginWindow, PrewarmLifetime

ASSUME CodesAssumption ==
    /\ Purge \in BOOLEAN
    /\ {MaxMinutes, StaleSkew, LoginWindow, PrewarmLifetime} \subseteq Nat
    /\ Mails \subseteq Nat \ {0} /\ Warmings \subseteq Nat \ {0}

VARIABLES minute,
          sentAt,           \* when Steam sent each mail; -1 before
          inbox,
          assist,           \* the anchor of the declared sign-in; -1 for none
          slot,             \* prewarms[id]: the pre-warm it holds; 0 for none
          warm,             \* every pre-warm's goroutine and slot
          request,          \* the GuardCode call in progress
          handed            \* how often each mail's code was handed over

codesVars == <<minute, sentAt, inbox, assist, slot, warm, request, handed>>

NotStarted == [pc |-> "none", mail |-> 0, notBefore |-> 0, startAt |-> 0, done |-> FALSE, code |-> 0]
NoRequest == [pc |-> "none", mail |-> 0, notBefore |-> 0]

CodesInit ==
    /\ minute = 0 /\ inbox = {} /\ assist = -1 /\ slot = 0
    /\ sentAt = [m \in Mails |-> -1]
    /\ warm = [p \in Warmings |-> NotStarted]
    /\ request = NoRequest
    /\ handed = [m \in Mails |-> 0]

CodesTypeOK ==
    /\ minute \in 0..MaxMinutes
    /\ sentAt \in [Mails -> -1..MaxMinutes] /\ inbox \subseteq Mails
    /\ assist \in -1..MaxMinutes /\ slot \in Warmings \cup {0}
    /\ \A p \in Warmings : warm[p].pc \in {"none", "polling", "found", "ended"}
    /\ request.pc \in {"none", "cancelling", "polling", "found"}
    /\ handed \in [Mails -> Nat]

----------------------------------------------------------------------------
MinutePasses ==
    /\ minute < MaxMinutes
    /\ minute' = minute + 1
    /\ UNCHANGED <<sentAt, inbox, assist, slot, warm, request, handed>>

SteamSends(m) ==
    /\ sentAt[m] = -1 /\ \A k \in Mails : k < m => sentAt[k] # -1
    /\ sentAt' = [sentAt EXCEPT ![m] = minute]
    /\ inbox' = inbox \cup {m}
    /\ UNCHANGED <<minute, assist, slot, warm, request, handed>>

\* FreshEnough, and the newest of those that are.
Fresh(notBefore) == {m \in inbox : sentAt[m] >= notBefore - StaleSkew}
Newest(notBefore) == Max(Fresh(notBefore))

\* codeAnchor: an assist that has outlived its window is dropped.
Open(a) == a # -1 /\ minute - a <= LoginWindow
Anchor(a) == IF Open(a) THEN a ELSE minute
AssistKept(a) == IF Open(a) THEN a ELSE -1

----------------------------------------------------------------------------
(* Pre-warming.                                                            *)

\* A mutant: a replaced pre-warm stores its code in whatever slot there is.
PublishesAnyway(p) == slot # 0

\* Only into the slot it was started for.
Publishes(p) == slot = p

\* Prewarm replaces the slot and cancels its goroutine: WarmEnds is open to every goroutine, so a
\* cancelled one needs no mark.
Prewarmed(p, a) ==
    /\ warm[p].pc = "none" /\ \A q \in Warmings : q < p => warm[q].pc # "none"
    /\ warm' = [warm EXCEPT ![p] = [NotStarted EXCEPT !.pc = "polling", !.startAt = minute,
                                                     !.notBefore = Anchor(a)]]
    /\ slot' = p

\* A switch begins; a failed one cancels.
SwitchBegins(p) ==
    /\ Prewarmed(p, assist)
    /\ assist' = AssistKept(assist)
    /\ UNCHANGED <<minute, sentAt, inbox, request, handed>>

SwitchFails ==
    /\ slot # 0 /\ slot' = 0
    /\ UNCHANGED <<minute, sentAt, inbox, assist, warm, request, handed>>

\* BeginLoginAssist: an assist still inside its window wins.
BeginAssist(p) ==
    /\ ~Open(assist)
    /\ assist' = minute
    /\ Prewarmed(p, minute)
    /\ UNCHANGED <<minute, sentAt, inbox, request, handed>>

\* EndLoginAssist cancels only what an assist is responsible for.
EndAssist ==
    /\ assist # -1
    /\ assist' = -1 /\ slot' = 0
    /\ UNCHANGED <<minute, sentAt, inbox, warm, request, handed>>

\* scanForCode, the first half of a poll ...
Finds(p) ==
    /\ warm[p].pc = "polling" /\ Fresh(warm[p].notBefore) # {}
    /\ warm' = [warm EXCEPT ![p].pc = "found", ![p].mail = Newest(warm[p].notBefore)]
    /\ UNCHANGED <<minute, sentAt, inbox, assist, slot, request, handed>>

\* ... then deleteConsumed, and the goroutine publishes what it found.
Warmed(p) ==
    /\ warm[p].pc = "found"
    /\ inbox' = IF Purge THEN inbox \ {warm[p].mail} ELSE inbox
    /\ warm' = [q \in Warmings |->
                   LET w == IF q = p THEN [warm[p] EXCEPT !.pc = "ended"] ELSE warm[q]
                   IN IF Publishes(p) /\ q = slot
                      THEN [w EXCEPT !.done = TRUE, !.code = warm[p].mail] ELSE w]
    /\ UNCHANGED <<minute, sentAt, assist, slot, request, handed>>

\* It is cancelled, runs out of its budget or fails.
WarmEnds(p) ==
    /\ warm[p].pc = "polling"
    /\ warm' = [warm EXCEPT ![p].pc = "ended", ![p].done = (slot = p)]
    /\ UNCHANGED <<minute, sentAt, inbox, assist, slot, request, handed>>

----------------------------------------------------------------------------
(* GuardCode                                                               *)

Hand(m) == handed' = [handed EXCEPT ![m] = @ + 1]

WarmReady == slot # 0 /\ warm[slot].done /\ warm[slot].code # 0

\* takePrewarmed consumes the slot, and hands its code over unless it has grown too old ...
Ask ==
    /\ request.pc = "none"
    /\ IF ~WarmReady
       THEN request' = [request EXCEPT !.pc = "cancelling"] /\ UNCHANGED <<slot, handed>>
       ELSE /\ slot' = 0
            /\ IF minute - warm[slot].startAt > PrewarmLifetime
               THEN request' = [request EXCEPT !.pc = "cancelling"] /\ UNCHANGED handed
               ELSE Hand(warm[slot].code) /\ UNCHANGED request
    /\ UNCHANGED <<minute, sentAt, inbox, assist, warm>>

\* ... and without one the pre-warm is cancelled and the inbox read directly.
Direct ==
    /\ request.pc = "cancelling"
    /\ slot' = 0
    /\ request' = [pc |-> "polling", mail |-> 0, notBefore |-> Anchor(assist)]
    /\ assist' = AssistKept(assist)
    /\ UNCHANGED <<minute, sentAt, inbox, warm, handed>>

DirectFinds ==
    /\ request.pc = "polling" /\ Fresh(request.notBefore) # {}
    /\ request' = [request EXCEPT !.pc = "found", !.mail = Newest(request.notBefore)]
    /\ UNCHANGED <<minute, sentAt, inbox, assist, slot, warm, handed>>

DirectReturns ==
    /\ request.pc = "found"
    /\ inbox' = IF Purge THEN inbox \ {request.mail} ELSE inbox
    /\ Hand(request.mail)
    /\ request' = NoRequest
    /\ UNCHANGED <<minute, sentAt, assist, slot, warm>>

DirectEnds ==
    /\ request.pc = "polling"
    /\ request' = NoRequest
    /\ UNCHANGED <<minute, sentAt, inbox, assist, slot, warm, handed>>

CodesNext ==
    \/ MinutePasses \/ SwitchFails \/ EndAssist
    \/ \E m \in Mails : SteamSends(m)
    \/ \E p \in Warmings : SwitchBegins(p) \/ BeginAssist(p) \/ Finds(p) \/ Warmed(p) \/ WarmEnds(p)
    \/ Ask \/ Direct \/ DirectFinds \/ DirectReturns \/ DirectEnds

CodesSpec == CodesInit /\ [][CodesNext]_codesVars

----------------------------------------------------------------------------
\* A warmed code handed over during a declared sign-in belongs to it (codes.go:103-116, 253-254):
\* it was not sent before the sign-in began, whichever pre-warms were replaced, cancelled or late.
WarmedForThisSignIn ==
    [][\A m \in Mails : handed'[m] > handed[m] /\ request.pc = "none" /\ Open(assist)
                        => sentAt[m] >= assist - StaleSkew]_codesVars

\* A code is handed over once (codes.go:87-91, 283-285).  A switch that begins while a request
\* reads the inbox breaks it: its pre-warm finds the same mail before the request deletes it.
NoCodeTwice == \A m \in Mails : handed[m] <= 1

\* A code taken out of the inbox is handed over or still there to be taken.  A poll that is
\* cancelled after it found the mail breaks it: it deletes the mail, and drops the code.
NoCodeLost ==
    \A m \in Mails : sentAt[m] # -1 /\ m \notin inbox
                     => handed[m] > 0 \/ (WarmReady /\ warm[slot].code = m) \/ request.mail = m
=============================================================================
