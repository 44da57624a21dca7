------------------------------- MODULE VaultSignIn -------------------------------
(***************************************************************************)
(* The credential login of a full check (internal/vault/verify.go,         *)
(* steamauth/auth.go) and the code a person types for it (manualcode.go,   *)
(* VaultGuardCodePrompt.svelte).  Logins are one at a time (deepMu).  What *)
(* a reply of Steam means is decided in several steps, by its HTTP status, *)
(* its x-eresult header and its body, and ends in a verdict the user acts  *)
(* on: "fail" says the account is broken, "unknown" that nobody could      *)
(* tell.                                                                   *)
(*                                                                         *)
(* Steam is external and truthful: it starts a session only for the right  *)
(* password, and gives a reason only where it applies; but any request may *)
(* be lost, meet a rate limit or a service that is down.  Where the reason *)
(* stands is HeaderOnOK: with TRUE also on a reply with status 200, as the *)
(* comments of auth.go say it does.                                        *)
(***************************************************************************)
EXTENDS Integers, FiniteSets

CONSTANTS MaxLogins,        \* bound: the logins of a behaviour
          MaxPolls,         \* maxPollAttempts
          HeaderOnOK

ASSUME SignInAssumption ==
    MaxLogins \in Nat /\ MaxPolls \in Nat /\ HeaderOnOK \in BOOLEAN

VARIABLES truth,            \* what is so of the account whose login runs
          login,            \* where the login stands
          guard,            \* Session.Guard
          polls, lastErr,   \* WaitForResult
          verdict,          \* the password signal of the last login
          latched,          \* markRateLimited has been called
          seq,              \* manualSeq; each login asks at most once
          pending,          \* the request of manualPending; 0 for none
          channel,          \* the request the typed code was meant for; 0 while empty
          raised,           \* events of the hook on their way to the frontend
          prompt,           \* the request the prompt is shown for; 0 while hidden
          submitting        \* the requests quoted by submits on their way

signVars == <<truth, login, guard, polls, lastErr, verdict, latched, seq, pending, channel,
              raised, prompt, submitting>>

Errors == {"badCredentials", "noSuchAccount", "rateLimited", "suspended", "accessDenied",
           "guardRequired", "guardRejected", "serviceDown", "requestFailed", "unexpected", "timedOut"}
Truths == {"right", "wrong", "noSuch", "suspended"}
LoginSteps == {"idle", "key", "begin", "guard", "asked", "submit", "poll"}

SignInit ==
    /\ truth = "right" /\ login = "idle" /\ guard = "none"
    /\ polls = 0 /\ lastErr = "none"
    /\ verdict = "none" /\ latched = FALSE
    /\ seq = 0 /\ pending = 0 /\ channel = 0
    /\ raised = {} /\ prompt = 0 /\ submitting = {}

SignTypeOK ==
    /\ truth \in Truths /\ login \in LoginSteps
    /\ guard \in {"none", "email", "device", "confirmation"}
    /\ polls \in 0..MaxPolls /\ lastErr \in Errors \cup {"none"}
    /\ verdict \in {"none", "ok", "warn", "fail", "unknown"} /\ latched \in BOOLEAN
    /\ {seq, pending, channel, prompt} \subseteq 0..MaxLogins
    /\ raised \cup submitting \subseteq 1..MaxLogins

----------------------------------------------------------------------------
(* Steam's replies (external), and what post makes of them.                *)

\* The reasons Steam may give for refusing a step of this account's login.
Reasons(step) ==
    {"rateLimited", "serviceDown"} \cup
    CASE step = "begin"  -> IF truth = "wrong" THEN {"badCredentials"}
                            ELSE IF truth = "noSuch" THEN {"noSuchAccount"}
                            ELSE IF truth = "suspended" THEN {"suspended", "accessDenied"} ELSE {}
      [] step = "submit" -> {"guardRejected"}
      [] step = "poll"   -> {}
      [] step = "key"    -> {}

\* A reply: lost on the way, a status and a header, and a body that holds what was asked for,
\* holds nothing, or does not parse.
Replies(step) ==
    {[status |-> "lost", eresult |-> "none", body |-> "none"],
     [status |-> "tooMany", eresult |-> "none", body |-> "none"],
     [status |-> "ok", eresult |-> "none", body |-> "garbled"]}
    \cup [status : {"error"}, eresult : Reasons(step) \cup {"none"}, body : {"none"}]
    \cup IF HeaderOnOK THEN [status : {"ok"}, eresult : Reasons(step), body : {"none"}] ELSE {}

\* A mutant: an error the header says nothing about is taken for a refusal.
NothingSaid(e) == IF e = "none" THEN "badCredentials" ELSE e

\* An HTTP error is read by its header, and else says nothing of the account.
HTTPError(e) == IF e = "none" THEN "requestFailed" ELSE e

\* post: "none" when the reply is handed to the caller, whatever its header says.
Posted(r) ==
    CASE r.status = "lost"    -> "requestFailed"
      [] r.status = "tooMany" -> "rateLimited"
      [] r.status = "error"   -> HTTPError(r.eresult)
      [] r.status = "ok"      -> IF r.body # "garbled" THEN "none"
                                 ELSE IF r.eresult = "none" THEN "unexpected" ELSE r.eresult

\* classifyLoginError
Classified(e) ==
    CASE e \in {"badCredentials", "noSuchAccount", "suspended", "accessDenied"} -> "fail"
      [] e = "guardRejected" -> "warn"
      [] e = "guardRequired" -> "ok"
      [] e \in {"rateLimited", "serviceDown", "requestFailed", "unexpected", "timedOut"} -> "unknown"

Prompts == <<seq, pending, channel, raised, prompt, submitting>>

LoginEnds(v) ==
    /\ login' = "idle" /\ verdict' = v /\ guard' = "none"
    /\ polls' = 0 /\ lastErr' = "none"

Fails(e) ==
    /\ LoginEnds(Classified(e))
    /\ latched' = (latched \/ e = "rateLimited")
    /\ UNCHANGED <<truth, Prompts>>

GoesOn(step) == login' = step /\ UNCHANGED <<truth, latched, verdict, Prompts>>

----------------------------------------------------------------------------
(* runCredentialLogin                                                      *)

LoginStarts(t) ==
    /\ login = "idle" /\ seq < MaxLogins /\ ~latched
    /\ truth' = t /\ login' = "key" /\ verdict' = "none"
    /\ UNCHANGED <<guard, polls, lastErr, latched, Prompts>>

\* fetchRSAKey: an unknown account gets an empty reply.
FetchKey ==
    /\ login = "key"
    /\ \/ truth # "noSuch" /\ GoesOn("begin") /\ UNCHANGED <<guard, polls, lastErr>>
       \/ truth = "noSuch" /\ Fails("noSuchAccount")
       \/ \E r \in Replies("key") :
             Fails(CASE r.status = "tooMany" -> "rateLimited"
                     [] r.status \in {"lost", "error"} -> "requestFailed"
                     [] r.status = "ok" -> IF r.body = "garbled" THEN "unexpected" ELSE "noSuchAccount")

\* BeginAuth: a reply with no session in it, and no error, is a refusal.
BeginAuth ==
    /\ login = "begin"
    /\ \/ truth = "right" /\ \E g \in {"none", "email", "device", "confirmation"} :
             /\ guard' = g
             /\ GoesOn(IF g = "none" THEN "poll" ELSE "guard")
             /\ UNCHANGED <<polls, lastErr>>
       \/ truth # "right" /\ Fails("badCredentials")
       \/ \E r \in Replies("begin") :
             Fails(IF Posted(r) # "none" THEN Posted(r) ELSE "badCredentials")

\* guardCodeForLogin: from the seed, from the inbox, or nowhere.  No code is a pass with a
\* caveat: Steam asked for one, so the password was right.
FindCode ==
    /\ login = "guard"
    /\ \/ guard \in {"email", "device"} /\ GoesOn("submit") /\ UNCHANGED <<guard, polls, lastErr>>
       \/ LoginEnds("ok") /\ UNCHANGED <<truth, latched, Prompts>>

\* requestManualCode
AskPerson ==
    /\ login = "guard" /\ guard = "email"
    /\ seq' = seq + 1 /\ pending' = seq + 1 /\ channel' = 0
    /\ raised' = raised \cup {seq + 1}
    /\ login' = "asked"
    /\ UNCHANGED <<truth, guard, polls, lastErr, verdict, latched, prompt, submitting>>

PersonAnswered ==
    /\ login = "asked" /\ channel # 0
    /\ login' = "submit"
    /\ UNCHANGED <<truth, guard, polls, lastErr, verdict, latched, Prompts>>

PersonTimesOut ==
    /\ login = "asked"
    /\ LoginEnds("ok")
    /\ pending' = IF pending = seq THEN 0 ELSE pending
    /\ UNCHANGED <<truth, latched, seq, channel, raised, prompt, submitting>>

SubmitCode ==
    /\ login = "submit"
    /\ \/ GoesOn("poll") /\ UNCHANGED <<guard, polls, lastErr>>
       \/ \E r \in Replies("submit") :
             IF r.status # "ok" THEN Fails(Posted(r))
             ELSE GoesOn("poll") /\ UNCHANGED <<guard, polls, lastErr>>

Terminal(e) == e \in {"rateLimited", "badCredentials", "noSuchAccount", "suspended",
                      "accessDenied", "guardRejected", "timedOut"}

\* Poll and WaitForResult.
Polled ==
    /\ login = "poll" /\ polls < MaxPolls
    /\ \/ LoginEnds("ok") /\ UNCHANGED <<truth, latched, Prompts>>
       \/ /\ polls' = polls + 1                       \* still pending
          /\ GoesOn("poll") /\ UNCHANGED <<guard, lastErr>>
       \/ \E r \in Replies("poll") :
             IF Terminal(Posted(r)) THEN Fails(Posted(r))
             ELSE /\ polls' = polls + 1
                  /\ lastErr' = IF Posted(r) = "none" THEN lastErr ELSE Posted(r)
                  /\ GoesOn("poll") /\ UNCHANGED guard

GivesUp ==
    /\ login = "poll" /\ polls = MaxPolls
    /\ Fails(IF lastErr # "none" THEN lastErr ELSE "guardRequired")

\* The check's deadline passes during a request.
TimesOut ==
    /\ login \in {"key", "begin", "submit", "poll"}
    /\ Fails("timedOut")

----------------------------------------------------------------------------
(* The prompt, and SubmitManualGuardCode.                                  *)

Login == <<truth, login, guard, polls, lastErr, verdict, latched>>

\* The event arrives: whatever was shown is replaced, and what was typed is cleared.
ShowPrompt(q) ==
    /\ q \in raised
    /\ raised' = raised \ {q}
    /\ prompt' = q
    /\ UNCHANGED <<seq, pending, channel, submitting, Login>>

\* The code typed is for the request the prompt is shown for.  A prompt submits one code at a
\* time; one that replaces it may submit while that is on its way.
SubmitPrompt ==
    /\ prompt # 0 /\ prompt \notin submitting
    /\ submitting' = submitting \cup {prompt}
    /\ UNCHANGED <<seq, pending, channel, raised, prompt, Login>>

\* A mutant: any request that waits takes the code.
WaitingAtAll(q) == pending # 0

\* The request is the one the submit quotes.
Waiting(q) == pending # 0 /\ pending = q

\* The answer to the submit hides the prompt, whatever it is shown for by now.
Delivered(q) ==
    /\ q \in submitting
    /\ IF Waiting(q)
       THEN channel' = q /\ pending' = 0 /\ prompt' = 0
       ELSE UNCHANGED <<channel, pending, prompt>>
    /\ submitting' = submitting \ {q}
    /\ UNCHANGED <<seq, raised, Login>>

PromptCancelled ==
    /\ prompt # 0
    /\ prompt' = 0
    /\ UNCHANGED <<seq, pending, channel, raised, submitting, Login>>

SignNext ==
    \/ \E t \in Truths : LoginStarts(t)
    \/ FetchKey \/ BeginAuth \/ FindCode \/ AskPerson \/ PersonAnswered \/ PersonTimesOut
    \/ SubmitCode \/ Polled \/ GivesUp \/ TimesOut
    \/ \E q \in 1..MaxLogins : ShowPrompt(q) \/ Delivered(q)
    \/ SubmitPrompt \/ PromptCancelled

SignSpec == SignInit /\ [][SignNext]_signVars

----------------------------------------------------------------------------
\* A verdict is a fact about the account (verify.go:406-409): "fail" is never what a lost request,
\* a rate limit or a service that is down came to, and "ok" is never said of a wrong password.
VerdictIsAFact ==
    /\ verdict = "fail" => truth # "right"
    /\ verdict = "ok" => truth = "right"

\* A code a person typed for one request never answers another (manualcode.go:10-13), however
\* late it is submitted and whichever prompt replaced the one it was typed into.
TypedForThisRequest == login = "asked" /\ channel # 0 => channel = seq
=============================================================================
