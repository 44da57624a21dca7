-------------------------- MODULE VaultPartsProofs --------------------------
(***************************************************************************)
(* What is proved of a credential login of the vault, of the prompt for    *)
(* the code it asks for, of the codes out of the mailbox and of the        *)
(* vault's document.  Each section has the inductive invariant of its      *)
(* part, the lemmas it needs, and the theorem.                             *)
(***************************************************************************)
EXTENDS VaultDocument, VaultSignIn, GuardCodes, TLAPS

-----------------------------------------------------------------------------
(* The credential login and the prompt for a code.                         *)

\* What says nothing about the account.
Silence == {"requestFailed", "rateLimited", "unexpected", "serviceDown", "timedOut"}

\* A login gets past the password only when it is right, and no error kept for later tells of the
\* account.
SignInv ==
    /\ truth \in Truths
    /\ login \in {"guard", "asked", "submit", "poll"} => truth = "right"
    /\ lastErr \in Silence \cup {"none"}
    /\ VerdictIsAFact

\* Where a reason never comes with a good status, a reply without what was asked for is an error
\* that says nothing, or one of the reasons.
LEMMA RepliesSay ==
    ASSUME ~HeaderOnOK, NEW step, NEW r \in Replies(step)
    PROVE  /\ Posted(r) \in {"requestFailed", "rateLimited", "unexpected"} \cup Reasons(step)
           /\ r.status \in {"lost", "tooMany", "error", "ok"}
           /\ r.status = "ok" => r.body = "garbled" /\ Posted(r) = "unexpected"
<1>1. CASE r \in [status : {"error"}, eresult : Reasons(step) \cup {"none"}, body : {"none"}]
  BY <1>1 DEF Posted, HTTPError
<1>2. CASE r \in {[status |-> "lost", eresult |-> "none", body |-> "none"],
                  [status |-> "tooMany", eresult |-> "none", body |-> "none"],
                  [status |-> "ok", eresult |-> "none", body |-> "garbled"]}
  BY <1>2 DEF Posted
<1> QED BY <1>1, <1>2 DEF Replies

\* The reasons are true of the account.
LEMMA ReasonsAreTrue ==
    /\ Reasons("poll") = {"rateLimited", "serviceDown"}
    /\ Reasons("submit") = {"rateLimited", "serviceDown", "guardRejected"}
    /\ truth = "right" => Reasons("begin") = {"rateLimited", "serviceDown"}
    /\ Reasons("begin") \subseteq Errors
BY DEF Reasons, Errors

\* What a failed login is taken for.
LEMMA ClassifiedAs ==
    /\ \A e \in Silence : Classified(e) = "unknown"
    /\ Classified("guardRejected") = "warn"
    /\ \A e \in Errors \ {"guardRequired"} : Classified(e) # "ok"
BY DEF Classified, Silence, Errors

\* A login that fails while the password is right is not called broken.
LEMMA FailureIsAFact ==
    ASSUME SignInv, NEW e \in Errors, Fails(e),
           truth = "right" => e \in Silence \cup {"guardRejected", "guardRequired"},
           e = "guardRequired" => truth = "right"
    PROVE  SignInv'
<1>1. /\ truth' = truth /\ lastErr' = "none" /\ login' = "idle" /\ verdict' = Classified(e)
  BY DEF Fails, LoginEnds, Prompts
<1>2. Classified(e) = "fail" => truth # "right"
  BY ClassifiedAs DEF Classified, Silence
<1>3. Classified(e) = "ok" => truth = "right"
  BY ClassifiedAs
<1> QED BY <1>1, <1>2, <1>3 DEF SignInv, VerdictIsAFact

\* Every step keeps the invariant.
LEMMA SignStep == ~HeaderOnOK /\ SignInv /\ [SignNext]_signVars => SignInv'
<1> SUFFICES ASSUME ~HeaderOnOK, SignInv, [SignNext]_signVars PROVE SignInv' OBVIOUS
<1>0. Silence \subseteq Errors BY DEF Silence, Errors
<1>1. ASSUME NEW t \in Truths, LoginStarts(t) PROVE SignInv'
  BY <1>1 DEF LoginStarts, SignInv, VerdictIsAFact, Prompts
<1>2. CASE FetchKey
  <2>1. CASE truth # "noSuch" /\ GoesOn("begin") /\ UNCHANGED <<guard, polls, lastErr>>
    BY <2>1 DEF GoesOn, SignInv, VerdictIsAFact, Prompts
  <2>2. CASE truth = "noSuch" /\ Fails("noSuchAccount")
    BY <2>2, FailureIsAFact DEF Errors
  <2>3. ASSUME NEW r \in Replies("key"),
               Fails(CASE r.status = "tooMany" -> "rateLimited"
                       [] r.status \in {"lost", "error"} -> "requestFailed"
                       [] r.status = "ok" -> IF r.body = "garbled" THEN "unexpected" ELSE "noSuchAccount")
        PROVE SignInv'
    <3> DEFINE e == CASE r.status = "tooMany" -> "rateLimited"
                      [] r.status \in {"lost", "error"} -> "requestFailed"
                      [] r.status = "ok" -> IF r.body = "garbled" THEN "unexpected" ELSE "noSuchAccount"
    <3>1. e \in {"rateLimited", "requestFailed", "unexpected"} BY RepliesSay
    <3>2. Fails(e) BY <2>3
    <3> HIDE DEF e
    <3>3. e \in Errors /\ e \in Silence /\ e # "guardRequired" BY <3>1 DEF Errors, Silence
    <3> QED BY <3>2, <3>3, FailureIsAFact
  <2> QED BY <1>2, <2>1, <2>2, <2>3 DEF FetchKey
<1>3. CASE BeginAuth
  <2>1. ASSUME truth = "right", NEW g \in {"none", "email", "device", "confirmation"},
               GoesOn(IF g = "none" THEN "poll" ELSE "guard"), UNCHANGED <<polls, lastErr>>
        PROVE SignInv'
    BY <2>1 DEF GoesOn, SignInv, VerdictIsAFact, Prompts
  <2>2. CASE truth # "right" /\ Fails("badCredentials")
    BY <2>2, FailureIsAFact DEF Errors
  <2>3. ASSUME NEW r \in Replies("begin"), Fails(IF Posted(r) # "none" THEN Posted(r) ELSE "badCredentials")
        PROVE SignInv'
    <3> DEFINE e == Posted(r)
    <3>1. e \in {"requestFailed", "rateLimited", "unexpected"} \cup Reasons("begin") BY <2>3, RepliesSay
    <3>2. e \in Errors /\ e # "none" /\ e # "guardRequired"
      BY <3>1, ReasonsAreTrue DEF Errors, Reasons
    <3>3. Fails(e) BY <2>3, <3>2
    <3>4. truth = "right" => e \in Silence BY <3>1, ReasonsAreTrue DEF Silence
    <3> HIDE DEF e
    <3> QED BY <3>2, <3>3, <3>4, FailureIsAFact
  <2> QED BY <1>3, <2>1, <2>2, <2>3 DEF BeginAuth
<1>4. CASE FindCode
  BY <1>4 DEF FindCode, GoesOn, LoginEnds, SignInv, VerdictIsAFact, Prompts
<1>5. CASE AskPerson
  BY <1>5 DEF AskPerson, SignInv, VerdictIsAFact
<1>6. CASE PersonAnswered
  BY <1>6 DEF PersonAnswered, SignInv, VerdictIsAFact, Prompts
<1>7. CASE PersonTimesOut
  BY <1>7 DEF PersonTimesOut, LoginEnds, SignInv, VerdictIsAFact
<1>8. CASE SubmitCode
  <2>0. truth = "right" BY <1>8 DEF SubmitCode, SignInv
  <2>1. CASE GoesOn("poll") /\ UNCHANGED <<guard, polls, lastErr>>
    BY <2>0, <2>1 DEF GoesOn, SignInv, VerdictIsAFact, Prompts
  <2>2. ASSUME NEW r \in Replies("submit"), Fails(Posted(r)) PROVE SignInv'
    <3> DEFINE e == Posted(r)
    <3>1. e \in {"requestFailed", "rateLimited", "unexpected"} \cup Reasons("submit") BY <2>2, RepliesSay
    <3>2. e \in Silence \cup {"guardRejected"} /\ e \in Errors /\ e # "guardRequired"
      BY <3>1, ReasonsAreTrue DEF Silence, Errors
    <3> HIDE DEF e
    <3>3. Fails(e) BY <2>2 DEF e
    <3> QED BY <3>2, <3>3, FailureIsAFact
  <2> QED BY <1>8, <2>1, <2>2 DEF SubmitCode
<1>9. CASE Polled
  <2>0. truth = "right" BY <1>9 DEF Polled, SignInv
  <2>1. CASE LoginEnds("ok") /\ UNCHANGED <<truth, latched, Prompts>>
    BY <2>0, <2>1 DEF LoginEnds, SignInv, VerdictIsAFact, Prompts
  <2>2. CASE GoesOn("poll") /\ UNCHANGED <<guard, lastErr>>
    BY <2>0, <2>2 DEF GoesOn, SignInv, VerdictIsAFact, Prompts
  <2>3. ASSUME NEW r \in Replies("poll"),
               IF Terminal(Posted(r)) THEN Fails(Posted(r))
               ELSE /\ polls' = polls + 1
                    /\ lastErr' = IF Posted(r) = "none" THEN lastErr ELSE Posted(r)
                    /\ GoesOn("poll") /\ UNCHANGED guard
        PROVE SignInv'
    <3> DEFINE e == Posted(r)
    <3>1. e \in {"requestFailed", "rateLimited", "unexpected"} \cup Reasons("poll") BY <2>3, RepliesSay
    <3>2. e \in Silence /\ e \in Errors /\ e # "guardRequired"
      BY <3>1, ReasonsAreTrue DEF Silence, Errors
    <3>3. CASE Terminal(e)
      <4>1. Fails(e) BY <2>3, <3>3
      <4> HIDE DEF e
      <4> QED BY <3>2, <4>1, FailureIsAFact
    <3>4. CASE ~Terminal(e)
      <4>1. lastErr' \in {lastErr, e} /\ GoesOn("poll") BY <2>3, <3>4
      <4> HIDE DEF e
      <4> QED BY <2>0, <3>2, <4>1 DEF GoesOn, SignInv, VerdictIsAFact, Prompts
    <3> QED BY <3>3, <3>4
  <2> QED BY <1>9, <2>1, <2>2, <2>3 DEF Polled
<1>10. CASE GivesUp
  <2>1. truth = "right" BY <1>10 DEF GivesUp, SignInv
  <2>2. ASSUME lastErr # "none" PROVE SignInv'
    <3>1. lastErr \in Silence /\ lastErr \in Errors /\ Fails(lastErr)
      BY <1>0, <1>10, <2>2 DEF GivesUp, SignInv
    <3> QED BY <2>1, <3>1, FailureIsAFact
  <2>3. ASSUME lastErr = "none" PROVE SignInv'
    <3>1. Fails("guardRequired") /\ "guardRequired" \in Errors
      BY <1>10, <2>3 DEF GivesUp, Errors
    <3> QED BY <2>1, <3>1, FailureIsAFact
  <2> QED BY <2>2, <2>3
<1>11. CASE TimesOut
  BY <1>11, FailureIsAFact DEF TimesOut, Errors, Silence
<1>12. ASSUME NEW q \in 1..MaxLogins, ShowPrompt(q) PROVE SignInv'
  BY <1>12 DEF ShowPrompt, SignInv, VerdictIsAFact, Login
<1>13. ASSUME NEW q \in 1..MaxLogins, Delivered(q) PROVE SignInv'
  BY <1>13 DEF Delivered, Waiting, SignInv, VerdictIsAFact, Login
<1>14. CASE SubmitPrompt
  BY <1>14 DEF SubmitPrompt, SignInv, VerdictIsAFact, Login
<1>15. CASE PromptCancelled
  BY <1>15 DEF PromptCancelled, SignInv, VerdictIsAFact, Login
<1>16. CASE UNCHANGED signVars
  BY <1>16 DEF signVars, SignInv, VerdictIsAFact
<1> QED
  BY <1>1, <1>2, <1>3, <1>4, <1>5, <1>6, <1>7, <1>8, <1>9, <1>10, <1>11, <1>12, <1>13, <1>14, <1>15, <1>16
     DEF SignNext

\* No login runs in the beginning.
LEMMA SignInitially == SignInit => SignInv
BY DEF SignInit, SignInv, Truths, VerdictIsAFact

\* However many logins and polls, and whatever is lost or refused on the way, an account is called broken
\* only when its login is, and fine only when its password is right; given that Steam puts no
\* reason on a reply with status 200.
THEOREM VerdictsAreFacts == ~HeaderOnOK => (SignSpec => []VerdictIsAFact)
<1> SUFFICES ASSUME ~HeaderOnOK PROVE SignSpec => []VerdictIsAFact OBVIOUS
<1>1. SignInv => VerdictIsAFact BY DEF SignInv
<1>2. SignInv /\ [SignNext]_signVars => SignInv' BY SignStep
<1> QED BY <1>1, <1>2, SignInitially, PTL DEF SignSpec

\* Nobody but the login that waits has a request, and the code on its way was typed for that.
AskedInv == login = "asked" => pending \in {0, seq} /\ channel \in {0, seq}

\* Every step keeps this.
LEMMA AskedStep == AskedInv /\ [SignNext]_signVars => AskedInv'
<1> SUFFICES ASSUME AskedInv, [SignNext]_signVars PROVE AskedInv' OBVIOUS
<1> USE DEF AskedInv, GoesOn, Prompts
<1>1. \A e : Fails(e) => AskedInv' BY DEF Fails, LoginEnds
<1>2. LoginEnds("ok") => AskedInv' BY DEF LoginEnds
<1>3. ASSUME NEW t \in Truths, LoginStarts(t) PROVE AskedInv' BY <1>3 DEF LoginStarts
<1>4. CASE FetchKey BY <1>1, <1>4 DEF FetchKey
<1>5. CASE BeginAuth BY <1>1, <1>5 DEF BeginAuth
<1>6. CASE FindCode BY <1>2, <1>6 DEF FindCode
<1>7. CASE AskPerson BY <1>7 DEF AskPerson
<1>8. CASE PersonAnswered BY <1>8 DEF PersonAnswered
<1>9. CASE PersonTimesOut BY <1>2, <1>9 DEF PersonTimesOut
<1>10. CASE SubmitCode BY <1>1, <1>10 DEF SubmitCode
<1>11. CASE Polled BY <1>1, <1>2, <1>11 DEF Polled
<1>12. CASE GivesUp BY <1>1, <1>12 DEF GivesUp
<1>13. CASE TimesOut BY <1>1, <1>13 DEF TimesOut
<1>14. ASSUME NEW q \in 1..MaxLogins, ShowPrompt(q) PROVE AskedInv' BY <1>14 DEF ShowPrompt, Login
<1>15. ASSUME NEW q \in 1..MaxLogins, Delivered(q) PROVE AskedInv' BY <1>15 DEF Delivered, Waiting, Login
<1>16. CASE SubmitPrompt BY <1>16 DEF SubmitPrompt, Login
<1>17. CASE PromptCancelled BY <1>17 DEF PromptCancelled, Login
<1>18. CASE UNCHANGED signVars BY <1>18 DEF signVars
<1> QED
  BY <1>3, <1>4, <1>5, <1>6, <1>7, <1>8, <1>9, <1>10, <1>11, <1>12, <1>13, <1>14, <1>15, <1>16, <1>17, <1>18
     DEF SignNext

\* However late a code is submitted and whichever prompt replaced the one it was typed into, it answers
\* the request it was typed for.
THEOREM CodesAnswerTheirRequest == SignSpec => []TypedForThisRequest
<1>1. SignInit => AskedInv BY DEF SignInit, AskedInv
<1>2. AskedInv => TypedForThisRequest BY DEF AskedInv, TypedForThisRequest
<1> QED BY <1>1, <1>2, AskedStep, PTL DEF SignSpec

-----------------------------------------------------------------------------
(* The codes out of the mailbox.  The pre-warm in the slot was started for  *)
(* the sign-in that is declared, and a mail it found is no older than its   *)
(* anchor allows.                                                           *)

PreWarms == [pc : {"none", "polling", "found", "ended"}, mail : Mails \cup {0}, notBefore : Int,
             startAt : Int, done : BOOLEAN, code : Mails \cup {0}]

CodesShape ==
    /\ minute \in Nat /\ assist \in Int /\ slot \in Warmings \cup {0}
    /\ sentAt \in [Mails -> Int] /\ inbox \subseteq Mails
    /\ warm \in [Warmings -> PreWarms] /\ handed \in [Mails -> Nat]

\* What is in the inbox has a newest, and so has every part of it.
NewestIn(mails) ==
    \A S \in SUBSET mails : S # {} => \E m \in S : \A k \in S : m >= k

\* The mail m is one the anchor lets through.
LetThrough(m, notBefore, sent) == m \in Mails /\ sent[m] >= notBefore - StaleSkew

\* What a pre-warm has found, and what it has published.
FoundFresh(w, sent) ==
    /\ w.pc = "found" => LetThrough(w.mail, w.notBefore, sent)
    /\ w.code # 0 => LetThrough(w.code, w.notBefore, sent)

CodesInv ==
    /\ CodesShape /\ NewestIn(inbox)
    /\ \A p \in Warmings : FoundFresh(warm[p], sentAt)
    /\ slot # 0 /\ assist # -1 => warm[slot].notBefore >= assist

\* Nothing has been sent or warmed in the beginning.
LEMMA CodesInitially == CodesInit => CodesInv
<1> SUFFICES ASSUME CodesInit PROVE CodesInv OBVIOUS
<1>1. NotStarted \in PreWarms /\ NotStarted.pc = "none" /\ NotStarted.code = 0
  BY DEF NotStarted, PreWarms
<1>2. CodesShape BY <1>1 DEF CodesInit, CodesShape
<1>3. NewestIn(inbox) BY DEF CodesInit, NewestIn
<1>4. \A p \in Warmings : FoundFresh(warm[p], sentAt) BY <1>1 DEF CodesInit, FoundFresh
<1> QED BY <1>2, <1>3, <1>4 DEF CodesInit, CodesInv

\* One mail more leaves a newest, whichever it is.
LEMMA OneMailMore ==
    ASSUME NEW mails \in SUBSET Mails, NEW m \in Mails, NewestIn(mails)
    PROVE  NewestIn(mails \cup {m})
<1> SUFFICES ASSUME NEW S \in SUBSET (mails \cup {m}), S # {}
             PROVE  \E x \in S : \A k \in S : x >= k
  BY DEF NewestIn
<1> Mails \subseteq Nat BY CodesAssumption
<1>1. CASE m \notin S BY <1>1 DEF NewestIn
<1>2. CASE S = {m} BY <1>2
<1>3. CASE m \in S /\ S # {m}
  <2>1. S \ {m} \in SUBSET mails /\ S \ {m} # {} BY <1>3
  <2>2. PICK x \in S \ {m} : \A k \in S \ {m} : x >= k BY <2>1 DEF NewestIn
  <2>3. CASE x >= m BY <2>2, <2>3
  <2>4. CASE m >= x
    <3>1. \A k \in S : m >= k BY <2>2, <2>4
    <3> QED BY <3>1, <1>3
  <2> QED BY <2>3, <2>4
<1> QED BY <1>1, <1>2, <1>3

\* The newest of those that are fresh is one of them.
LEMMA NewestIsFresh ==
    ASSUME CodesInv, NEW notBefore \in Int, Fresh(notBefore) # {}
    PROVE  LetThrough(Newest(notBefore), notBefore, sentAt)
<1>1. Fresh(notBefore) \in SUBSET inbox BY DEF Fresh
<1>2. \E m \in Fresh(notBefore) : \A k \in Fresh(notBefore) : m >= k
  BY <1>1 DEF CodesInv, NewestIn
<1>3. Newest(notBefore) \in Fresh(notBefore) BY <1>2 DEF Newest, Max
<1> QED BY <1>3 DEF LetThrough, Fresh, CodesInv, CodesShape

\* A pre-warm begins with nothing found, not before the sign-in it is for.
LEMMA PrewarmedDoes ==
    ASSUME CodesInv, NEW p \in Warmings, NEW a \in Int, Prewarmed(p, a)
    PROVE  /\ warm' \in [Warmings -> PreWarms] /\ slot' = p /\ p # 0
           /\ \A q \in Warmings : FoundFresh(warm'[q], sentAt)
           /\ warm'[p].notBefore = Anchor(a)
<1>1. Anchor(a) \in Int /\ minute \in Int BY DEF Anchor, CodesInv, CodesShape
<1>2. PICK n \in Int, k \in Int : n = Anchor(a) /\ k = minute BY <1>1
<1> DEFINE w == [NotStarted EXCEPT !.pc = "polling", !.startAt = k, !.notBefore = n]
<1>3. w \in PreWarms /\ w.pc = "polling" /\ w.code = 0 /\ w.notBefore = n
  BY DEF NotStarted, PreWarms
<1>4. warm' = [warm EXCEPT ![p] = w] /\ slot' = p BY <1>2 DEF Prewarmed
<1>5. p # 0 BY CodesAssumption
<1> HIDE DEF w
<1>6. warm' \in [Warmings -> PreWarms] /\ warm'[p] = w /\ \A q \in Warmings : q # p => warm'[q] = warm[q]
  BY <1>3, <1>4 DEF CodesInv, CodesShape
<1>7. FoundFresh(w, sentAt) BY <1>3 DEF FoundFresh
<1> QED BY <1>2, <1>3, <1>5, <1>6, <1>7, <1>4 DEF CodesInv

\* Handing over a code counts it.
LEMMA HandedStays ==
    ASSUME handed \in [Mails -> Nat], NEW m, Hand(m) PROVE handed' \in [Mails -> Nat]
<1>1. CASE m \in Mails BY <1>1 DEF Hand
<1>2. CASE m \notin Mails
  <2>1. handed' = handed BY <1>2 DEF Hand
  <2> QED BY <2>1
<1> QED BY <1>1, <1>2

\* Every step of Steam, the switches, the pre-warms and the requests keeps the invariant.
LEMMA CodesStep == CodesInv /\ [CodesNext]_codesVars => CodesInv'
<1> SUFFICES ASSUME CodesInv, [CodesNext]_codesVars PROVE CodesInv' OBVIOUS
<1>0. /\ CodesShape /\ NewestIn(inbox) /\ (\A p \in Warmings : FoundFresh(warm[p], sentAt))
      /\ (slot # 0 /\ assist # -1 => warm[slot].notBefore >= assist)
      /\ StaleSkew \in Nat /\ LoginWindow \in Nat
  BY CodesAssumption DEF CodesInv
<1>1. ASSUME UNCHANGED <<sentAt, warm>>, CodesShape', inbox' \subseteq inbox,
             \/ slot' = 0 \/ assist' = -1 \/ (slot' = slot /\ assist' = assist)
      PROVE  CodesInv'
  <2>1. NewestIn(inbox') BY <1>0, <1>1 DEF NewestIn
  <2> QED BY <1>0, <1>1, <2>1 DEF CodesInv
<1>2. CASE MinutePasses
  <2>1. CodesShape' BY <1>0, <1>2 DEF MinutePasses, CodesShape
  <2> QED BY <1>1, <1>2, <2>1 DEF MinutePasses
<1>3. CASE SwitchFails
  <2>1. CodesShape' BY <1>0, <1>3 DEF SwitchFails, CodesShape
  <2> QED BY <1>1, <1>3, <2>1 DEF SwitchFails
<1>4. CASE EndAssist
  <2>1. CodesShape' BY <1>0, <1>4 DEF EndAssist, CodesShape
  <2> QED BY <1>1, <1>4, <2>1 DEF EndAssist
<1>5. ASSUME NEW m \in Mails, SteamSends(m) PROVE CodesInv'
  <2>1. CodesShape' BY <1>0, <1>5 DEF SteamSends, CodesShape
  <2>2. NewestIn(inbox') BY <1>0, <1>5, OneMailMore DEF SteamSends, CodesShape
  <2>3. \A k \in Mails : sentAt'[k] >= sentAt[k] BY <1>0, <1>5 DEF SteamSends, CodesShape
  <2>4. ASSUME NEW p \in Warmings PROVE FoundFresh(warm'[p], sentAt')
    <3>1. warm'[p] = warm[p] /\ warm[p] \in PreWarms BY <1>0, <1>5 DEF SteamSends, CodesShape
    <3>2. \A k \in Mails : sentAt[k] \in Int /\ sentAt'[k] \in Int BY <1>0, <2>1 DEF CodesShape
    <3>3. warm[p].notBefore \in Int BY <3>1 DEF PreWarms
    <3> QED BY <1>0, <2>3, <3>1, <3>2, <3>3 DEF FoundFresh, LetThrough
  <2> QED BY <1>0, <1>5, <2>1, <2>2, <2>4 DEF CodesInv, SteamSends
<1>6. ASSUME NEW p \in Warmings, SwitchBegins(p) PROVE CodesInv'
  <2>1. /\ warm' \in [Warmings -> PreWarms] /\ slot' = p
        /\ \A q \in Warmings : FoundFresh(warm'[q], sentAt)
        /\ warm'[p].notBefore = Anchor(assist)
    BY <1>0, <1>6, PrewarmedDoes DEF SwitchBegins, CodesShape
  <2>2. assist' \in Int /\ (assist' # -1 => Anchor(assist) = assist')
    BY <1>0, <1>6 DEF SwitchBegins, AssistKept, Anchor, CodesShape
  <2>3. CodesShape' BY <1>0, <1>6, <2>1, <2>2 DEF SwitchBegins, CodesShape
  <2> QED BY <1>0, <1>6, <2>1, <2>2, <2>3 DEF CodesInv, SwitchBegins
<1>7. ASSUME NEW p \in Warmings, BeginAssist(p) PROVE CodesInv'
  <2>1. /\ warm' \in [Warmings -> PreWarms] /\ slot' = p
        /\ \A q \in Warmings : FoundFresh(warm'[q], sentAt)
        /\ warm'[p].notBefore = Anchor(minute)
    BY <1>0, <1>7, PrewarmedDoes DEF BeginAssist, CodesShape
  <2>2. Anchor(minute) = minute /\ assist' = minute /\ minute \in Int
    BY <1>0, <1>7 DEF BeginAssist, Anchor, CodesShape
  <2>3. CodesShape' BY <1>0, <1>7, <2>1, <2>2 DEF BeginAssist, CodesShape
  <2> QED BY <1>0, <1>7, <2>1, <2>2, <2>3 DEF CodesInv, BeginAssist
<1>8. ASSUME NEW p \in Warmings, Finds(p) PROVE CodesInv'
  <2> DEFINE m == Newest(warm[p].notBefore)
             w == [warm[p] EXCEPT !.pc = "found", !.mail = m]
  <2>1. warm[p] \in PreWarms /\ warm[p].notBefore \in Int BY <1>0 DEF CodesShape, PreWarms
  <2>2. LetThrough(m, warm[p].notBefore, sentAt) BY <1>8, <2>1, NewestIsFresh DEF Finds
  <2>3. warm' = [warm EXCEPT ![p] = w]
    BY <1>0, <1>8 DEF Finds, CodesShape
  <2> HIDE DEF m
  <2>4. m \in Mails BY <2>2 DEF LetThrough
  <2>5. w \in PreWarms /\ w.mail = m /\ w.code = warm[p].code /\ w.notBefore = warm[p].notBefore
    BY <2>1, <2>4 DEF PreWarms
  <2> HIDE DEF w
  <2>6. /\ warm' \in [Warmings -> PreWarms] /\ warm'[p] = w
        /\ \A q \in Warmings : q # p => warm'[q] = warm[q]
    BY <1>0, <2>3, <2>5 DEF CodesShape
  <2>7. FoundFresh(w, sentAt) BY <1>0, <2>2, <2>5 DEF FoundFresh
  <2>8. \A q \in Warmings : FoundFresh(warm'[q], sentAt) /\ warm'[q].notBefore = warm[q].notBefore
    BY <1>0, <2>5, <2>6, <2>7
  <2>9. CodesShape' BY <1>0, <1>8, <2>6 DEF Finds, CodesShape
  <2> QED BY <1>0, <1>8, <2>8, <2>9 DEF CodesInv, CodesShape, Finds
<1>9. ASSUME NEW p \in Warmings, Warmed(p) PROVE CodesInv'
  <2>1. warm[p] \in PreWarms /\ warm[p].pc = "found" /\ LetThrough(warm[p].mail, warm[p].notBefore, sentAt)
    BY <1>0, <1>9 DEF Warmed, FoundFresh, CodesShape
  <2>2. ASSUME NEW q \in Warmings
        PROVE  /\ warm'[q] \in PreWarms /\ FoundFresh(warm'[q], sentAt)
               /\ warm'[q].notBefore = warm[q].notBefore
    <3> DEFINE w == IF q = p THEN [warm[p] EXCEPT !.pc = "ended"] ELSE warm[q]
    <3>1. warm[q] \in PreWarms BY <1>0 DEF CodesShape
    <3>2. /\ w \in PreWarms /\ w.notBefore = warm[q].notBefore /\ w.code = warm[q].code
          /\ w.mail = warm[q].mail /\ (w.pc = "found" => warm[q].pc = "found")
      BY <2>1, <3>1 DEF PreWarms
    <3>3. warm'[q] = IF Publishes(p) /\ q = slot THEN [w EXCEPT !.done = TRUE, !.code = warm[p].mail] ELSE w
      BY <1>9 DEF Warmed
    <3> HIDE DEF w
    <3>4. FoundFresh(w, sentAt) BY <1>0, <3>2 DEF FoundFresh
    <3>5. CASE Publishes(p) /\ q = slot
      <4>1. q = p BY <3>5 DEF Publishes
      <4>2. warm[p].mail \in Mails BY <2>1 DEF LetThrough
      <4>3. /\ warm'[q] \in PreWarms /\ warm'[q].notBefore = w.notBefore /\ warm'[q].code = warm[p].mail
            /\ warm'[q].pc = w.pc /\ warm'[q].mail = w.mail
        BY <3>2, <3>3, <3>5, <4>2 DEF PreWarms
      <4> QED BY <2>1, <3>2, <3>4, <4>1, <4>3 DEF FoundFresh
    <3>6. CASE ~(Publishes(p) /\ q = slot) BY <3>2, <3>3, <3>4, <3>6
    <3> QED BY <3>5, <3>6
  <2>3. warm' \in [Warmings -> PreWarms]
    <3>1. warm' = [q \in Warmings |-> warm'[q]] BY <1>9 DEF Warmed
    <3> QED BY <2>2, <3>1
  <2>4. inbox' \subseteq inbox BY <1>9 DEF Warmed
  <2>5. CodesShape' BY <1>0, <1>9, <2>3, <2>4 DEF Warmed, CodesShape
  <2>6. NewestIn(inbox') BY <1>0, <2>4 DEF NewestIn
  <2> QED BY <1>0, <1>9, <2>2, <2>5, <2>6 DEF CodesInv, CodesShape, Warmed
<1>10. ASSUME NEW p \in Warmings, WarmEnds(p) PROVE CodesInv'
  <2> DEFINE w == [warm[p] EXCEPT !.pc = "ended", !.done = (slot = p)]
  <2>1. warm[p] \in PreWarms BY <1>0 DEF CodesShape
  <2>2. w \in PreWarms /\ w.pc = "ended" /\ w.code = warm[p].code /\ w.notBefore = warm[p].notBefore
    BY <2>1 DEF PreWarms
  <2>3. warm' = [warm EXCEPT ![p] = w]
    BY <1>0, <1>10 DEF WarmEnds, CodesShape
  <2> HIDE DEF w
  <2>4. /\ warm' \in [Warmings -> PreWarms] /\ warm'[p] = w
        /\ \A q \in Warmings : q # p => warm'[q] = warm[q]
    BY <1>0, <2>2, <2>3 DEF CodesShape
  <2>5. FoundFresh(w, sentAt) BY <1>0, <2>2 DEF FoundFresh
  <2>6. \A q \in Warmings : FoundFresh(warm'[q], sentAt) /\ warm'[q].notBefore = warm[q].notBefore
    BY <1>0, <2>2, <2>4, <2>5
  <2>7. CodesShape' BY <1>0, <1>10, <2>4 DEF WarmEnds, CodesShape
  <2> QED BY <1>0, <1>10, <2>6, <2>7 DEF CodesInv, CodesShape, WarmEnds
<1>11. CASE Ask
  <2>1. handed' \in [Mails -> Nat] BY <1>0, <1>11, HandedStays DEF Ask, CodesShape
  <2>2. CodesShape' BY <1>0, <1>11, <2>1 DEF Ask, CodesShape
  <2> QED BY <1>1, <1>11, <2>2 DEF Ask
<1>12. CASE Direct
  <2>1. assist' \in Int BY <1>0, <1>12 DEF Direct, AssistKept, CodesShape
  <2>2. CodesShape' BY <1>0, <1>12, <2>1 DEF Direct, CodesShape
  <2> QED BY <1>1, <1>12, <2>2 DEF Direct
<1>13. CASE DirectReturns
  <2>1. handed' \in [Mails -> Nat] BY <1>0, <1>13, HandedStays DEF DirectReturns, CodesShape
  <2>2. CodesShape' BY <1>0, <1>13, <2>1 DEF DirectReturns, CodesShape
  <2> QED BY <1>1, <1>13, <2>2 DEF DirectReturns
<1>14. CASE DirectFinds \/ DirectEnds \/ UNCHANGED codesVars
  <2>1. CodesShape' /\ UNCHANGED <<sentAt, warm, inbox, slot, assist>>
    BY <1>0, <1>14 DEF DirectFinds, DirectEnds, codesVars, CodesShape
  <2> QED BY <1>1, <2>1
<1> QED BY <1>2, <1>3, <1>4, <1>5, <1>6, <1>7, <1>8, <1>9, <1>10, <1>11, <1>12, <1>13, <1>14 DEF CodesNext

\* A code that was warmed up and is handed over in a declared sign-in is of
\* that sign-in, whichever pre-warms were replaced, cancelled or late: the slot
\* is emptied when a sign-in ends, and only a pre-warm of the slot publishes.
THEOREM WarmedIsForThisSignIn == CodesSpec => WarmedForThisSignIn
<1>1. ASSUME CodesInv, [CodesNext]_codesVars, NEW m \in Mails,
             handed'[m] > handed[m], request.pc = "none", Open(assist)
      PROVE  sentAt[m] >= assist - StaleSkew
  <2>0. CodesShape /\ StaleSkew \in Nat BY <1>1, CodesAssumption DEF CodesInv
  <2>1. handed[m] \in Nat BY <2>0 DEF CodesShape
  <2>2. handed' # handed BY <1>1, <2>1
  <2>3. Ask
    BY <1>1, <2>2 DEF CodesNext, codesVars, MinutePasses, SwitchFails, EndAssist, SteamSends, SwitchBegins,
       BeginAssist, Finds, Warmed, WarmEnds, Direct, DirectFinds, DirectReturns, DirectEnds
  <2>4. WarmReady /\ Hand(warm[slot].code) BY <2>2, <2>3 DEF Ask
  <2>5. m = warm[slot].code BY <1>1, <2>0, <2>1, <2>4 DEF Hand, CodesShape
  <2>6. slot \in Warmings /\ slot # 0 /\ warm[slot].code # 0 BY <2>0, <2>4 DEF WarmReady, CodesShape
  <2>7. LetThrough(m, warm[slot].notBefore, sentAt) BY <1>1, <2>5, <2>6 DEF CodesInv, FoundFresh
  <2>8. warm[slot].notBefore >= assist BY <1>1, <2>6 DEF CodesInv, Open
  <2>9. sentAt[m] \in Int /\ assist \in Int /\ warm[slot].notBefore \in Int
    BY <2>0, <2>6 DEF CodesShape, PreWarms
  <2> QED BY <2>0, <2>7, <2>8, <2>9 DEF LetThrough
<1>2. CodesInv /\ [CodesNext]_codesVars
        => [\A m \in Mails : handed'[m] > handed[m] /\ request.pc = "none" /\ Open(assist)
                        => sentAt[m] >= assist - StaleSkew]_codesVars
  BY <1>1
<1> QED BY <1>2, CodesInitially, CodesStep, PTL DEF CodesSpec, WarmedForThisSignIn

-----------------------------------------------------------------------------
(* The vault's document.  A call that saves has read the document under     *)
(* writeMu and nobody else has saved since; so each save is one change of   *)
(* the file.  That holds while a document once read stays in memory until   *)
(* the app locks for good: a reader that found it gone may put back what it *)
(* read before a save (Relocks).                                            *)

\* The calls that save.
Writes == {"new", "put", "delete", "link", "record", "import", "accept", "export"}

\* A call with its parameters.
Calls == [op    : Writes \cup {"none", "list", "plan"},
          on    : Ids \cup Inbound \cup Outbound \cup Rosters \cup {NoOne},
          value : Value,
          modes : [Accounts -> {"default", "overwrite", "skip"}],
          to    : Accounts \cup {NoOne}]

\* What each call is about.
SoundCall(call) ==
    /\ call \in Calls
    /\ call.op = "new" => call.on \in minted
    /\ call.op \in {"put", "delete", "record"} => call.on \in Ids
    /\ call.op = "link" => call.on \in StandIns /\ call.to \in Accounts
    /\ call.op = "accept" => call.on \in Inbound
    /\ call.op = "export" => call.on \in Outbound

Steps == {"idle", "put", "enter", "read", "change", "save", "cache", "bundle", "done"}

\* Where a call may be, and what it then has in hand.
CallAt(c) ==
    /\ SoundCall(doing[c])
    /\ at[c] \in {"change", "save", "cache"} => writer = c
    /\ writer = c => at[c] \in {"read", "change", "save", "cache"}
    /\ at[c] = "enter" \/ writer = c => doing[c].op \in Writes
    /\ at[c] = "put" => doing[c].op = "plan"
    /\ at[c] = "bundle" => doing[c].op = "export"
    /\ at[c] \in {"change", "cache"} => own[c] = file
    /\ at[c] = "save" => ~Refused(doing[c], file) /\ own[c] = Changed(doing[c], file)

\* The document in memory is the one on disk, unless a save is between the two.
CacheAt ==
    /\ unlocked => cached # NoDoc
    /\ cached # NoDoc => cached = file \/ \E c \in Callers : at[c] = "cache"

\* The types the argument needs.
DocumentTypes ==
    /\ file \in Document /\ cached \in Document \cup {NoDoc}
    /\ at \in [Callers -> Steps] /\ doing \in [Callers -> Calls]
    /\ own \in [Callers -> Document \cup {NoDoc}]
    /\ writer \in Callers \cup {NoOne}
    /\ rosters \in [Rosters -> Value]
    /\ contents \in [Inbound -> Bundles]
    /\ minted \subseteq StandIns
    /\ accepted \in [Inbound -> {"no", "once", "again"}]

\* An accepted bundle is in the ledger, and one for single use was let in once.
LedgerAt ==
    \A b \in Inbound :
        /\ accepted[b] = "no" \/ b \in file.ledger
        /\ contents[b].single => accepted[b] # "again"

DocumentInv == DocumentTypes /\ (\A c \in Callers : CallAt(c)) /\ CacheAt /\ LedgerAt

-----------------------------------------------------------------------------
(* What a call does to a document.                                         *)

\* A copy of every field is the document.
LEMMA CopyIsWhole ==
    ASSUME NEW doc \in Document PROVE Copied(doc) = doc
BY DEF Copied, Document

\* An entry is read as it is stored, or as a blank one.
LEMMA EntryThere ==
    ASSUME NEW doc \in Document, NEW i \in Ids
    PROVE  /\ Stored(doc, i) \in Entry
           /\ ~Absent(doc, i) => doc.entries[i] \in Entry /\ Stored(doc, i) = doc.entries[i]
           /\ Absent(doc, i) => Stored(doc, i) = Blank
BY DEF Document, Stored, Absent, Entry, Blank, Value

\* One entry is replaced and the rest stays.
LEMMA WithEntry ==
    ASSUME NEW doc \in Document, NEW i \in Ids, NEW e \in Entry \cup {NoEntry}
    PROVE  /\ With(doc, i, e) \in Document
           /\ With(doc, i, e).entries[i] = e
           /\ \A k \in Ids \ {i} : With(doc, i, e).entries[k] = doc.entries[k]
           /\ With(doc, i, e).log = doc.log /\ With(doc, i, e).ledger = doc.ledger
BY DEF Document, With

\* The log has a bundle's record at its end.
LEMMA LogType ==
    ASSUME NEW doc \in Document, NEW b \in Outbound
    PROVE  /\ Logged(b, doc) \in Document
           /\ Logged(b, doc).entries = doc.entries /\ Logged(b, doc).ledger = doc.ledger
<1> DEFINE log == Append(doc.log, b)
<1>1. doc.log \in Seq(Outbound) /\ log \in Seq(Outbound) BY DEF Document
<1>2. MaxRecords \in Nat \ {0} BY DocumentAssumption
<1>3. ASSUME Len(log) > MaxRecords
      PROVE  SubSeq(log, Len(log) - MaxRecords + 1, Len(log)) \in Seq(Outbound)
  <2> HIDE DEF log
  <2> DEFINE first == Len(log) - MaxRecords + 1
  <2>1. Len(log) \in Nat BY <1>1
  <2>2. first \in 1 .. Len(log) BY <1>2, <1>3, <2>1
  <2> QED BY <1>1, <2>1, <2>2
<1>4. Logged(b, doc) = [doc EXCEPT !.log = IF Len(log) > MaxRecords
                            THEN SubSeq(log, Len(log) - MaxRecords + 1, Len(log)) ELSE log]
  BY DEF Logged
<1> HIDE DEF log
<1> QED BY <1>1, <1>3, <1>4 DEF Document

\* An import touches the entries whose rows are not skipped; one on its default keeps a password.
LEMMA ImportEntries ==
    ASSUME NEW doc \in Document, NEW call \in Calls
    PROVE  /\ Imported(call, doc) \in Document
           /\ \A i \in Ids : ~(i \in Accounts /\ call.modes[i] # "skip")
                 => Imported(call, doc).entries[i] = doc.entries[i]
           /\ \A a \in Accounts : call.modes[a] = "default" =>
                 /\ Imported(call, doc).entries[a] \in Entry
                 /\ Stored(doc, a).password # NoValue
                      => Imported(call, doc).entries[a].password = Stored(doc, a).password
           /\ Imported(call, doc).log = doc.log /\ Imported(call, doc).ledger = doc.ledger
<1>1. ASSUME NEW i \in Ids, NEW mode
      PROVE  /\ Merged(Stored(doc, i), call.value, mode) \in Entry
             /\ Stored(doc, i).password # NoValue /\ mode # "overwrite"
                   => Merged(Stored(doc, i), call.value, mode).password = Stored(doc, i).password
  BY EntryThere DEF Merged, Entry, Calls
<1>2. \A i \in Ids : Imported(call, doc).entries[i] =
          IF i \in Accounts /\ call.modes[i] # "skip"
          THEN Merged(Stored(doc, i), call.value, call.modes[i]) ELSE doc.entries[i]
  BY DEF Imported, Document
<1>3. Imported(call, doc) \in Document
  BY <1>1 DEF Imported, Document
<1>4. Imported(call, doc).log = doc.log /\ Imported(call, doc).ledger = doc.ledger
  BY DEF Imported, Document
<1> QED BY <1>1, <1>2, <1>3, <1>4 DEF Ids

\* A bundle accepted changes the entry of its account and enters the ledger.
LEMMA AcceptedEntries ==
    ASSUME NEW doc \in Document, NEW b \in Inbound, contents[b] \in Bundles
    PROVE  /\ Accepted(b, doc) \in Document
           /\ \A i \in Ids \ {contents[b].account} : Accepted(b, doc).entries[i] = doc.entries[i]
           /\ Accepted(b, doc).ledger = doc.ledger \cup {b} /\ Accepted(b, doc).log = doc.log
<1> DEFINE a == contents[b].account
           e == IF contents[b].mode = "transfer"
                THEN [password |-> contents[b].password, token |-> contents[b].token]
                ELSE [Stored(doc, a) EXCEPT !.token = TRUE]
           d == With(doc, a, e)
<1>1. a \in Ids /\ contents[b].password \in Value /\ contents[b].token \in BOOLEAN
  BY DEF Bundles, Ids, Value
<1>2. e \in Entry
  <2>1. CASE contents[b].mode = "transfer"
    <3>1. e = [password |-> contents[b].password, token |-> contents[b].token] BY <2>1
    <3> HIDE DEF e
    <3> QED BY <1>1, <3>1 DEF Entry
  <2>2. CASE contents[b].mode # "transfer"
    <3>1. Stored(doc, a) \in Entry BY <1>1, EntryThere
    <3>2. e = [Stored(doc, a) EXCEPT !.token = TRUE] BY <2>2
    <3> HIDE DEF e
    <3> QED BY <3>1, <3>2 DEF Entry
  <2> QED BY <2>1, <2>2
<1>3. Accepted(b, doc) = [d EXCEPT !.ledger = @ \cup {b}] BY DEF Accepted
<1> HIDE DEF e, a
<1>4. /\ d \in Document /\ d.log = doc.log /\ d.ledger = doc.ledger
      /\ \A k \in Ids \ {a} : d.entries[k] = doc.entries[k]
  BY <1>1, <1>2, WithEntry
<1> HIDE DEF d
<1>5. /\ Accepted(b, doc) \in Document /\ Accepted(b, doc).entries = d.entries
      /\ Accepted(b, doc).ledger = doc.ledger \cup {b} /\ Accepted(b, doc).log = doc.log
  BY <1>3, <1>4 DEF Document
<1> QED BY <1>4, <1>5 DEF a

\* Only what the call is about changes, the ledger keeps what it has, and
\* the log changes with an export.
LEMMA OnlyAbout ==
    ASSUME NEW doc \in Document, NEW call, SoundCall(call), call.op \in Writes,
           contents \in [Inbound -> Bundles], minted \subseteq StandIns
    PROVE  /\ Changed(call, doc) \in Document
           /\ \A i \in Ids \ About(call) : Changed(call, doc).entries[i] = doc.entries[i]
           /\ doc.ledger \subseteq Changed(call, doc).ledger
           /\ call.op # "export" => Changed(call, doc).log = doc.log
<1>0. /\ call \in Calls /\ call.value \in Value /\ call.modes \in [Accounts -> {"default", "overwrite", "skip"}]
      /\ NoEntry \in Entry \cup {NoEntry}
  BY DEF SoundCall, Calls
<1>1. CASE call.op \in {"new", "put"}
  <2>1. call.on \in Ids BY <1>1 DEF SoundCall, Ids
  <2>2. [Stored(doc, call.on) EXCEPT !.password = call.value] \in Entry
    BY <1>0, <2>1, EntryThere DEF Entry
  <2>3. Changed(call, doc) = With(doc, call.on, [Stored(doc, call.on) EXCEPT !.password = call.value])
    BY <1>1 DEF Changed
  <2>4. About(call) = {call.on} BY <1>1 DEF About
  <2> QED BY <2>1, <2>2, <2>3, <2>4, WithEntry
<1>2. CASE call.op = "delete"
  <2>1. call.on \in Ids /\ About(call) = {call.on} /\ Changed(call, doc) = With(doc, call.on, NoEntry)
    BY <1>2 DEF SoundCall, About, Changed
  <2> QED BY <1>0, <2>1, WithEntry
<1>3. CASE call.op = "link"
  <2>1. call.on \in Ids /\ call.to \in Ids /\ doc.entries[call.on] \in Entry \cup {NoEntry}
    BY <1>3 DEF SoundCall, Ids, Document
  <2>2. About(call) = {call.on, call.to}
    BY <1>3 DEF About
  <2> DEFINE d == With(doc, call.on, NoEntry)
  <2>3. /\ d \in Document /\ d.log = doc.log /\ d.ledger = doc.ledger
        /\ \A k \in Ids \ {call.on} : d.entries[k] = doc.entries[k]
    BY <1>0, <2>1, WithEntry
  <2>4. Changed(call, doc) = With(d, call.to, doc.entries[call.on]) BY <1>3 DEF Changed
  <2> HIDE DEF d
  <2>5. /\ Changed(call, doc) \in Document /\ Changed(call, doc).log = d.log /\ Changed(call, doc).ledger = d.ledger
        /\ \A k \in Ids \ {call.to} : Changed(call, doc).entries[k] = d.entries[k]
    BY <2>1, <2>3, <2>4, WithEntry
  <2> QED BY <2>2, <2>3, <2>5
<1>4. CASE call.op = "record"
  <2>1. call.on \in Ids /\ About(call) = {call.on} BY <1>4 DEF SoundCall, About
  <2>2. [Stored(doc, call.on) EXCEPT !.token = TRUE] \in Entry BY <2>1, EntryThere DEF Entry
  <2>3. \/ Changed(call, doc) = doc
        \/ Changed(call, doc) = With(doc, call.on, [Stored(doc, call.on) EXCEPT !.token = TRUE])
    BY <1>4 DEF Changed
  <2> QED BY <2>1, <2>2, <2>3, WithEntry
<1>5. CASE call.op = "import"
  <2>1. Changed(call, doc) = Imported(call, doc) BY <1>5 DEF Changed
  <2>2. About(call) = {a \in Accounts : call.modes[a] # "skip"} BY <1>5 DEF About
  <2> QED BY <1>0, <2>1, <2>2, ImportEntries
<1>6. CASE call.op = "accept"
  <2>1. call.on \in Inbound /\ contents[call.on] \in Bundles /\ About(call) = {contents[call.on].account}
        /\ Changed(call, doc) = Accepted(call.on, doc)
    BY <1>6 DEF SoundCall, About, Changed
  <2> QED BY <2>1, AcceptedEntries
<1>7. CASE call.op = "export"
  <2>1. call.on \in Outbound /\ Changed(call, doc) = Logged(call.on, doc)
    BY <1>7 DEF SoundCall, Changed
  <2> QED BY <1>7, <2>1, LogType
<1> QED BY <1>1, <1>2, <1>3, <1>4, <1>5, <1>6, <1>7 DEF Writes

-----------------------------------------------------------------------------
(* The invariant, kept by each step.                                       *)

\* What a step of c leaves of the others' calls.
OthersStay(c) ==
    /\ file' = file /\ contents' = contents /\ minted \subseteq minted'
    /\ \A d \in Callers \ {c} : at'[d] = at[d] /\ doing'[d] = doing[d] /\ own'[d] = own[d]
    /\ \/ writer' = writer
       \/ writer = NoOne /\ writer' = c
       \/ writer = c /\ writer' = NoOne

\* A step of one call that leaves the file alone leaves the others what they have.
LEMMA OthersKeep ==
    ASSUME DocumentInv, NEW c \in Callers, OthersStay(c), NEW d \in Callers \ {c}
    PROVE  CallAt(d)'
<1>1. CallAt(d) BY DEF DocumentInv
<1>2. NoOne \notin Callers BY DocumentAssumption
<1>3. (writer' = d) = (writer = d) BY <1>2 DEF OthersStay
<1>4. SoundCall(doing[d])' BY <1>1 DEF OthersStay, CallAt, SoundCall, Calls
<1>5. Refused(doing[d], file)' = Refused(doing[d], file)
  BY DEF OthersStay, Refused, PutRefused, Absent
<1>6. Changed(doing[d], file)' = Changed(doing[d], file)
  BY DEF OthersStay, Changed, With, Stored, Absent, Imported, Merged, Accepted, Logged
<1> QED BY <1>1, <1>3, <1>4, <1>5, <1>6 DEF OthersStay, CallAt

\* A step of a call that leaves the document, on disk and in memory.
LEMMA QuietStep ==
    ASSUME DocumentInv, NEW c \in Callers, OthersStay(c), CallAt(c)', DocumentTypes',
           at[c] # "cache", UNCHANGED <<cached, unlocked, accepted>>
    PROVE  DocumentInv'
<1>1. \A d \in Callers : CallAt(d)' BY OthersKeep
<1>2. CacheAt'
  <2>1. CacheAt BY DEF DocumentInv
  <2>2. ASSUME NEW d \in Callers, at[d] = "cache" PROVE at'[d] = "cache"
    BY <2>2 DEF OthersStay
  <2> QED BY <2>1, <2>2 DEF CacheAt, OthersStay
<1>3. LedgerAt' BY DEF DocumentInv, LedgerAt, OthersStay
<1> QED BY <1>1, <1>2, <1>3 DEF DocumentInv

\* The invariant holds in the beginning.
LEMMA DocumentInitially == ASSUME ~Relocks, Init PROVE DocumentInv
<1>1. file \in Document
  <2>1. PICK es \in [Ids -> Entry \cup {NoEntry}] : file = [entries |-> es, log |-> <<>>, ledger |-> {}]
    BY DEF Init
  <2> QED BY <2>1 DEF Document
<1>2. cached = file /\ cached # NoDoc BY <1>1, DocumentAssumption DEF Init
<1>3. NoCall \in Calls /\ NoCall.op = "none" BY DEF NoCall, NoModes, Calls, Value
<1>4. DocumentTypes
  <2>1. file \in Document /\ cached \in Document \cup {NoDoc} /\ writer \in Callers \cup {NoOne}
    BY <1>1, <1>2 DEF Init
  <2>2. at \in [Callers -> Steps] /\ own \in [Callers -> Document \cup {NoDoc}] BY DEF Init, Steps
  <2>3. doing \in [Callers -> Calls] BY <1>3 DEF Init
  <2>4. rosters \in [Rosters -> Value] BY DEF Init, Value
  <2>5. contents \in [Inbound -> Bundles] /\ minted \subseteq StandIns BY DEF Init
  <2>6. accepted \in [Inbound -> {"no", "once", "again"}] BY DEF Init
  <2> QED BY <2>1, <2>2, <2>3, <2>4, <2>5, <2>6 DEF DocumentTypes
<1>5. \A c \in Callers : CallAt(c)
  BY <1>3, DocumentAssumption DEF Init, CallAt, SoundCall, Writes
<1>6. CacheAt /\ LedgerAt BY <1>2 DEF Init, CacheAt, LedgerAt
<1> QED BY <1>4, <1>5, <1>6 DEF DocumentInv

\* Whatever a call is about, it starts before it has read anything.
LEMMA Begun ==
    ASSUME DocumentInv, NEW c \in Callers, NEW call, Begin(c, call), call \in Calls,
           SoundCall(call)', minted \subseteq minted', minted' \subseteq StandIns,
           call.op # "none"
    PROVE  DocumentInv'
<1>1. CallAt(c) /\ DocumentTypes BY DEF DocumentInv
<1>2. doing' = [doing EXCEPT ![c] = call] /\ at' = [at EXCEPT ![c] = FirstStep(call.op)]
      /\ at[c] = "idle" /\ UNCHANGED <<disk, cached, unlocked, writer, own, rosters, contents, accepted>>
  BY DEF Begin
<1>3. /\ FirstStep(call.op) \in {"put", "read", "enter"}
      /\ FirstStep(call.op) = "put" => call.op = "plan"
      /\ FirstStep(call.op) = "enter" => call.op \in Writes
  <2>1. call.op \in Writes \cup {"list", "plan"} BY DEF Calls
  <2>2. CASE call.op = "plan" BY <2>2 DEF FirstStep
  <2>3. CASE call.op \in {"list", "import", "export"} BY <2>3 DEF FirstStep
  <2>4. CASE call.op \notin {"plan", "list", "import", "export"} BY <2>1, <2>4 DEF FirstStep
  <2> QED BY <2>2, <2>3, <2>4
<1>4. doing'[c] = call /\ at'[c] = FirstStep(call.op) BY <1>1, <1>2 DEF DocumentTypes
<1>5. DocumentTypes' BY <1>1, <1>2, <1>3 DEF DocumentTypes, Steps, disk
<1>6. writer' # c BY <1>1, <1>2 DEF CallAt
<1>7. CallAt(c)' BY <1>3, <1>4, <1>6 DEF CallAt
<1>8. OthersStay(c) BY <1>1, <1>2 DEF OthersStay, disk, DocumentTypes
<1> QED BY <1>2, <1>5, <1>7, <1>8, QuietStep

\* A call begins, about keys it may be about.
LEMMA BeginsStep ==
    ASSUME DocumentInv, NEW c \in Callers, Begins(c) PROVE DocumentInv'
<1>0. minted \subseteq StandIns /\ rosters \in [Rosters -> Value] BY DEF DocumentInv, DocumentTypes
<1>1. NoModes \in [Accounts -> {"default", "overwrite", "skip"}] /\ NoValue \in Value
  BY DEF NoModes, Value
<1>2. CASE BeginNew(c)
  <2>1. PICK s \in StandIns, p \in Passwords :
            minted' = minted \cup {s} /\ Begin(c, [Call("new", s) EXCEPT !.value = p])
    BY <1>2 DEF BeginNew
  <2> DEFINE call == [Call("new", s) EXCEPT !.value = p]
  <2>2. call \in Calls /\ call.op = "new" /\ call.on = s
    BY <1>1 DEF Call, Calls, Ids, NoCall, Value, Writes
  <2> HIDE DEF call
  <2>3. SoundCall(call)' BY <2>1, <2>2 DEF SoundCall, Calls
  <2>4. Begin(c, call) BY <2>1 DEF call
  <2> QED BY <1>0, <2>1, <2>2, <2>3, <2>4, Begun
<1>3. CASE BeginPut(c)
  <2>1. PICK i \in Accounts \cup minted, v \in Value : Begin(c, [Call("put", i) EXCEPT !.value = v])
    BY <1>3 DEF BeginPut
  <2> DEFINE call == [Call("put", i) EXCEPT !.value = v]
  <2>2. i \in Ids /\ minted' = minted BY <1>0, <1>3 DEF Ids, BeginPut
  <2>3. call \in Calls /\ call.op = "put" /\ call.on = i
    BY <1>1, <2>2 DEF Call, Calls, NoCall, Writes
  <2> HIDE DEF call
  <2>4. SoundCall(call)' BY <2>2, <2>3 DEF SoundCall, Calls
  <2>5. Begin(c, call) BY <2>1 DEF call
  <2> QED BY <1>0, <2>2, <2>3, <2>4, <2>5, Begun
<1>4. CASE BeginDelete(c)
  <2>1. PICK i \in Accounts \cup minted : Begin(c, Call("delete", i)) BY <1>4 DEF BeginDelete
  <2>2. i \in Ids /\ minted' = minted BY <1>0, <1>4 DEF Ids, BeginDelete
  <2>3. Call("delete", i) \in Calls /\ Call("delete", i).op = "delete" /\ Call("delete", i).on = i
    BY <1>1, <2>2 DEF Writes, Calls, Call, NoCall
  <2>4. SoundCall(Call("delete", i))' BY <2>2, <2>3 DEF SoundCall, Calls, Call, NoCall
  <2> QED BY <1>0, <2>1, <2>2, <2>3, <2>4, Begun
<1>5. CASE BeginLink(c)
  <2>1. PICK s \in minted, a \in Accounts : Begin(c, [Call("link", s) EXCEPT !.to = a])
    BY <1>5 DEF BeginLink
  <2> DEFINE call == [Call("link", s) EXCEPT !.to = a]
  <2>2. s \in StandIns /\ s \in Ids /\ minted' = minted BY <1>0, <1>5 DEF Ids, BeginLink
  <2>3. call \in Calls /\ call.op = "link" /\ call.on = s /\ call.to = a
    BY <1>1, <2>2 DEF Call, Calls, NoCall, Writes
  <2> HIDE DEF call
  <2>4. SoundCall(call)' BY <2>2, <2>3 DEF SoundCall, Calls
  <2>5. Begin(c, call) BY <2>1 DEF call
  <2> QED BY <1>0, <2>2, <2>3, <2>4, <2>5, Begun
<1>6. CASE BeginRecord(c)
  <2>1. PICK i \in Accounts \cup minted : Begin(c, Call("record", i)) BY <1>6 DEF BeginRecord
  <2>2. i \in Ids /\ minted' = minted BY <1>0, <1>6 DEF Ids, BeginRecord
  <2>3. Call("record", i) \in Calls /\ Call("record", i).op = "record" /\ Call("record", i).on = i
    BY <1>1, <2>2 DEF Writes, Calls, Call, NoCall
  <2>4. SoundCall(Call("record", i))' BY <2>2, <2>3 DEF SoundCall, Calls, Call, NoCall
  <2> QED BY <1>0, <2>1, <2>2, <2>3, <2>4, Begun
<1>7. CASE BeginList(c)
  <2>1. Begin(c, Call("list", NoOne)) /\ minted' = minted BY <1>7 DEF BeginList
  <2>2. Call("list", NoOne) \in Calls /\ Call("list", NoOne).op = "list"
    BY <1>1 DEF Calls, Call, NoCall
  <2>3. SoundCall(Call("list", NoOne))' BY <2>1, <2>2 DEF SoundCall, Calls, Call, NoCall
  <2> QED BY <1>0, <2>1, <2>2, <2>3, Begun
<1>8. CASE BeginPlan(c)
  <2>1. PICK r \in Rosters, p \in Passwords : Begin(c, [Call("plan", r) EXCEPT !.value = p])
    BY <1>8 DEF BeginPlan
  <2> DEFINE call == [Call("plan", r) EXCEPT !.value = p]
  <2>2. minted' = minted BY <1>8 DEF BeginPlan
  <2>3. call \in Calls /\ call.op = "plan"
    BY <1>1 DEF Call, Calls, NoCall, Value, Writes
  <2> HIDE DEF call
  <2>4. SoundCall(call)' BY <2>2, <2>3 DEF SoundCall, Calls
  <2>5. Begin(c, call) BY <2>1 DEF call
  <2> QED BY <1>0, <2>2, <2>3, <2>4, <2>5, Begun
<1>9. CASE BeginImport(c)
  <2>1. PICK modes \in [Accounts -> {"default", "overwrite", "skip"}], v \in Value, r \in Rosters :
            Begin(c, [Call("import", r) EXCEPT !.value = v, !.modes = modes])
    BY <1>0, <1>9 DEF BeginImport
  <2> DEFINE call == [Call("import", r) EXCEPT !.value = v, !.modes = modes]
  <2>2. minted' = minted BY <1>9 DEF BeginImport
  <2>3. call \in Calls /\ call.op = "import" BY <1>1 DEF Call, Calls, NoCall, Writes
  <2> HIDE DEF call
  <2>4. SoundCall(call)' BY <2>2, <2>3 DEF SoundCall, Calls
  <2>5. Begin(c, call) BY <2>1 DEF call
  <2> QED BY <1>0, <2>2, <2>3, <2>4, <2>5, Begun
<1>10. CASE BeginAccept(c)
  <2>1. PICK b \in Inbound : Begin(c, Call("accept", b)) BY <1>10 DEF BeginAccept
  <2>2. minted' = minted BY <1>10 DEF BeginAccept
  <2>3. Call("accept", b) \in Calls /\ Call("accept", b).op = "accept" /\ Call("accept", b).on = b
    BY <1>1 DEF Writes, Calls, Call, NoCall
  <2>4. SoundCall(Call("accept", b))' BY <2>2, <2>3 DEF SoundCall, Calls, Call, NoCall
  <2> QED BY <1>0, <2>1, <2>2, <2>3, <2>4, Begun
<1>11. CASE BeginExport(c)
  <2>1. PICK b \in Outbound \ (handoffs \cup ToSet(file.log)), a \in Accounts :
            Begin(c, [Call("export", b) EXCEPT !.to = a])
    BY <1>11 DEF BeginExport
  <2> DEFINE call == [Call("export", b) EXCEPT !.to = a]
  <2>2. minted' = minted BY <1>11 DEF BeginExport
  <2>3. call \in Calls /\ call.op = "export" /\ call.on = b
    BY <1>1 DEF Call, Calls, NoCall, Writes
  <2> HIDE DEF call
  <2>4. SoundCall(call)' BY <2>2, <2>3 DEF SoundCall, Calls
  <2>5. Begin(c, call) BY <2>1 DEF call
  <2> QED BY <1>0, <2>2, <2>3, <2>4, <2>5, Begun
<1> QED BY <1>2, <1>3, <1>4, <1>5, <1>6, <1>7, <1>8, <1>9, <1>10, <1>11 DEF Begins

\* No call is one, of no kind.
LEMMA NoCallIsSound == NoCall \in Calls /\ NoCall.op = "none"
BY DEF NoCall, NoModes, Calls, Value

\* What a call that returns leaves behind.
LEMMA Returned ==
    ASSUME DocumentInv, NEW c \in Callers, Return(c), minted' = minted
    PROVE  /\ CallAt(c)'
           /\ at' \in [Callers -> Steps] /\ doing' \in [Callers -> Calls]
           /\ own' \in [Callers -> Document \cup {NoDoc}] /\ writer' \in Callers \cup {NoOne}
           /\ at'[c] = "idle"
           /\ \A d \in Callers \ {c} : at'[d] = at[d] /\ doing'[d] = doing[d] /\ own'[d] = own[d]
           /\ writer' = writer \/ (writer = c /\ writer' = NoOne)
<1>1. DocumentTypes /\ NoOne \notin Callers BY DocumentAssumption DEF DocumentInv
<1>2. /\ at' = [at EXCEPT ![c] = "idle"] /\ doing' = [doing EXCEPT ![c] = NoCall]
      /\ own' = [own EXCEPT ![c] = NoDoc] /\ writer' = IF writer = c THEN NoOne ELSE writer
  BY DEF Return
<1>3. at'[c] = "idle" /\ doing'[c] = NoCall /\ writer' # c BY <1>1, <1>2 DEF DocumentTypes
<1>4. SoundCall(doing[c])' BY <1>3, NoCallIsSound DEF SoundCall, Writes
<1>5. CallAt(c)' BY <1>3, <1>4 DEF CallAt
<1> QED BY <1>1, <1>2, <1>5, NoCallIsSound DEF DocumentTypes, Steps

\* Dropping a roster leaves the rosters well formed.
LEMMA DropType ==
    ASSUME NEW gone, Drop(gone), rosters \in [Rosters -> Value] PROVE rosters' \in [Rosters -> Value]
BY DEF Drop, Value

\* A call that returns without having saved.
LEMMA ReturnStep ==
    ASSUME DocumentInv, NEW c \in Callers, Return(c), at[c] # "cache",
           UNCHANGED <<file, cached, unlocked, contents, minted, accepted>>,
           UNCHANGED rosters \/ \E gone : Drop(gone)
    PROVE  DocumentInv'
<1>1. DocumentTypes BY DEF DocumentInv
<1>2. rosters' \in [Rosters -> Value] BY <1>1, DropType DEF DocumentTypes
<1>3. DocumentTypes' BY <1>1, <1>2, Returned DEF DocumentTypes
<1>4. OthersStay(c) BY Returned DEF OthersStay
<1> QED BY <1>3, <1>4, Returned, QuietStep

\* A call that fails has not saved.
LEMMA FailStep ==
    ASSUME DocumentInv, NEW c \in Callers, Fail(c), at[c] # "cache" PROVE DocumentInv'
<1>1. UNCHANGED rosters \/ \E gone : Drop(gone) BY DEF Fail
<1>2. UNCHANGED <<file, cached, unlocked, contents, minted, accepted>> BY DEF Fail
<1> QED BY <1>1, <1>2, ReturnStep DEF Fail

\* The steps of a call before it saves.
LEMMA QuietCallStep ==
    ASSUME DocumentInv, NEW c \in Callers, CallStep(c), ~Save(c), ~Cache(c) PROVE DocumentInv'
<1>0. CallAt(c) /\ DocumentTypes /\ CacheAt /\ NoOne \notin Callers /\ writer \in Callers \cup {NoOne}
  BY DocumentAssumption DEF DocumentInv, DocumentTypes
<1>1. CASE PutRoster(c)
  <2>1. rosters' = [rosters EXCEPT ![doing[c].on] = doing[c].value] /\ at' = [at EXCEPT ![c] = "read"]
        /\ at[c] = "put"
        /\ UNCHANGED <<disk, cached, unlocked, writer, doing, own, contents, minted, accepted>>
    BY <1>1 DEF PutRoster, Goto
  <2>2. doing[c].value \in Value BY <1>0 DEF DocumentTypes, Calls
  <2>3. DocumentTypes' BY <1>0, <2>1, <2>2 DEF DocumentTypes, Steps, disk
  <2>4. OthersStay(c) BY <1>0, <2>1 DEF OthersStay, DocumentTypes, disk
  <2>5. CallAt(c)' BY <1>0, <2>1 DEF CallAt, SoundCall, DocumentTypes
  <2> QED BY <2>1, <2>3, <2>4, <2>5, QuietStep
<1>2. CASE TooManyImports(c)
  BY <1>2, ReturnStep DEF TooManyImports, disk
<1>3. CASE Enter(c)
  <2>1. writer = NoOne /\ writer' = c /\ at' = [at EXCEPT ![c] = "read"] /\ at[c] = "enter"
        /\ UNCHANGED <<disk, cached, unlocked, doing, own, rosters, contents, minted, accepted>>
    BY <1>3 DEF Enter, MayWrite, Goto
  <2>3. DocumentTypes' BY <1>0, <2>1 DEF DocumentTypes, Steps, disk
  <2>4. OthersStay(c) BY <1>0, <2>1 DEF OthersStay, DocumentTypes, disk
  <2>5. CallAt(c)' BY <1>0, <2>1 DEF CallAt, SoundCall, DocumentTypes
  <2> QED BY <2>1, <2>3, <2>4, <2>5, QuietStep
<1>4. CASE LoadCached(c)
  <2>1. cached # NoDoc /\ own' = [own EXCEPT ![c] = cached] /\ at' = [at EXCEPT ![c] = AfterLoad(c, cached)]
        /\ at[c] = "read"
        /\ UNCHANGED <<disk, cached, unlocked, writer, doing, rosters, contents, minted, accepted>>
    BY <1>4 DEF LoadCached, Loaded, Goto
  <2>2. cached \in Document BY <1>0, <2>1 DEF DocumentTypes
  <2>3. writer = c => cached = file
    <3>1. ASSUME writer = c, NEW d \in Callers, at[d] = "cache" PROVE FALSE
      <4>1. writer = d /\ at[c] = "read" BY <2>1, <3>1 DEF DocumentInv, CallAt
      <4> QED BY <3>1, <4>1
    <3> QED BY <1>0, <2>1, <3>1 DEF CacheAt
  <2>4. /\ writer = c => AfterLoad(c, cached) = "change"
        /\ writer # c => AfterLoad(c, cached) \in {"enter", "bundle", "done"}
        /\ writer # c /\ AfterLoad(c, cached) = "enter" => doing[c].op = "import"
        /\ writer # c /\ AfterLoad(c, cached) = "bundle" => doing[c].op = "export"
    <3> DEFINE step == AfterLoad(c, cached)
    <3>1. CASE writer = c
      <4>1. step = "change" BY <3>1 DEF AfterLoad
      <4> HIDE DEF step
      <4> QED BY <3>1, <4>1 DEF step
    <3>2. CASE writer # c /\ doing[c].op = "import"
      <4>1. step \in {"done", "enter"} BY <3>2 DEF AfterLoad
      <4> HIDE DEF step
      <4> QED BY <3>2, <4>1 DEF step
    <3>3. CASE writer # c /\ doing[c].op = "export"
      <4>1. step \in {"done", "bundle"} BY <3>3 DEF AfterLoad
      <4> HIDE DEF step
      <4> QED BY <3>3, <4>1 DEF step
    <3>4. CASE writer # c /\ doing[c].op \notin {"import", "export"}
      <4>1. step = "done" BY <3>4 DEF AfterLoad
      <4> HIDE DEF step
      <4> QED BY <3>4, <4>1 DEF step
    <3> QED BY <3>1, <3>2, <3>3, <3>4
  <2>5. DocumentTypes' BY <1>0, <2>1, <2>2, <2>4 DEF DocumentTypes, Steps, disk
  <2>6. OthersStay(c) BY <1>0, <2>1 DEF OthersStay, DocumentTypes, disk
  <2>7. at'[c] = AfterLoad(c, cached) /\ own'[c] = cached /\ SoundCall(doing[c])' /\ file' = file
        /\ writer' = writer /\ doing'[c] = doing[c]
    BY <1>0, <2>1 DEF DocumentTypes, CallAt, SoundCall, disk
  <2>8. CallAt(c)'
    <3>1. CASE writer = c BY <1>0, <2>3, <2>4, <2>7, <3>1 DEF CallAt
    <3>2. CASE writer # c BY <2>4, <2>7, <3>2 DEF CallAt, Writes
    <3> QED BY <3>1, <3>2
  <2> QED BY <2>1, <2>5, <2>6, <2>8, QuietStep
<1>5. CASE LoadFile(c) BY <1>0, <1>5 DEF LoadFile, CacheAt
<1>6. CASE LoadRefused(c) BY <1>6, FailStep DEF LoadRefused
<1>7. CASE Keep(c) BY <1>0, <1>7 DEF Keep, DocumentTypes, Steps
<1>8. CASE Change(c)
  <2>1. at[c] = "change" /\ ~Refused(doing[c], own[c]) /\ own' = [own EXCEPT ![c] = Changed(doing[c], Copied(@))]
        /\ at' = [at EXCEPT ![c] = "save"]
        /\ UNCHANGED <<disk, cached, unlocked, writer, doing, rosters, contents, minted, accepted>>
    BY <1>8 DEF Change, Goto
  <2>2. own[c] = file /\ writer = c /\ doing[c].op \in Writes /\ SoundCall(doing[c]) BY <1>0, <2>1 DEF CallAt
  <2>3. own'[c] = Changed(doing[c], file) BY <1>0, <2>1, <2>2, CopyIsWhole DEF DocumentTypes
  <2>4. Changed(doing[c], file) \in Document BY <1>0, <2>2, OnlyAbout DEF DocumentTypes
  <2>5. own' = [own EXCEPT ![c] = Changed(doing[c], file)]
    BY <1>0, <2>1, <2>2, CopyIsWhole DEF DocumentTypes
  <2>6. DocumentTypes' BY <1>0, <2>1, <2>4, <2>5 DEF DocumentTypes, Steps, disk
  <2>7. OthersStay(c) BY <1>0, <2>1 DEF OthersStay, DocumentTypes, disk
  <2>8. ~Refused(doing[c], file)' /\ Changed(doing[c], file)' = Changed(doing[c], file)
    <3>1. doing' = doing /\ file' = file /\ contents' = contents BY <2>1 DEF disk
    <3>2. ~Refused(doing[c], file) BY <2>1, <2>2
    <3>3. Refused(doing[c], file)' = Refused(doing[c], file) BY <3>1 DEF Refused, PutRefused, Absent
    <3>4. Changed(doing[c], file)' = Changed(doing[c], file)
      BY <3>1 DEF Changed, With, Stored, Absent, Imported, Merged, Accepted, Logged
    <3> QED BY <3>2, <3>3, <3>4
  <2>9. at'[c] = "save" /\ SoundCall(doing[c])' /\ writer' = c /\ doing'[c] = doing[c]
    BY <1>0, <2>1, <2>2 DEF DocumentTypes, CallAt, SoundCall, disk
  <2>10. CallAt(c)' BY <2>2, <2>3, <2>8, <2>9 DEF CallAt
  <2> QED BY <2>1, <2>6, <2>7, <2>10, QuietStep
<1>9. CASE ChangeRefused(c) BY <1>9, FailStep DEF ChangeRefused
<1>10. CASE SaveFails(c) BY <1>10, FailStep DEF SaveFails
<1>11. CASE WriteBundle(c)
  <2>1. at[c] = "bundle" /\ at' = [at EXCEPT ![c] = "enter"]
        /\ UNCHANGED <<file, cached, unlocked, writer, doing, own, rosters, contents, minted, accepted>>
    BY <1>11 DEF WriteBundle, Goto
  <2>3. DocumentTypes' BY <1>0, <2>1 DEF DocumentTypes, Steps
  <2>4. OthersStay(c) BY <1>0, <2>1 DEF OthersStay, DocumentTypes
  <2>5. CallAt(c)' BY <1>0, <2>1 DEF CallAt, SoundCall, DocumentTypes, Writes
  <2> QED BY <2>1, <2>3, <2>4, <2>5, QuietStep
<1>12. CASE Done(c)
  <2>1. UNCHANGED rosters \/ \E gone : Drop(gone) BY <1>12 DEF Done
  <2> QED BY <1>12, <2>1, ReturnStep DEF Done, disk
<1> QED
  BY <1>1, <1>2, <1>3, <1>4, <1>5, <1>6, <1>7, <1>8, <1>9, <1>10, <1>11, <1>12 DEF CallStep

\* A save is one change of the file by the call that holds writeMu.
LEMMA SaveStep ==
    ASSUME DocumentInv, NEW c \in Callers, Save(c)
    PROVE  /\ DocumentInv'
           /\ file' = Changed(doing[c], file) /\ ~Refused(doing[c], file)
           /\ SoundCall(doing[c]) /\ doing[c].op \in Writes
<1>0. CallAt(c) /\ DocumentTypes /\ CacheAt /\ LedgerAt BY DEF DocumentInv
<1>1. at[c] = "save" /\ unlocked /\ file' = own[c] /\ at' = [at EXCEPT ![c] = "cache"]
      /\ accepted' = (IF doing[c].op = "accept"
                      THEN [accepted EXCEPT ![doing[c].on] = IF @ = "no" THEN "once" ELSE "again"]
                      ELSE accepted)
      /\ UNCHANGED <<cached, unlocked, writer, doing, own, rosters, handoffs, contents, minted>>
  BY DEF Save, Goto
<1>2. /\ file' = Changed(doing[c], file) /\ ~Refused(doing[c], file) /\ writer = c
      /\ SoundCall(doing[c]) /\ doing[c].op \in Writes
  BY <1>0, <1>1 DEF CallAt
<1>3. file' \in Document /\ file.ledger \subseteq file'.ledger
  BY <1>0, <1>2, OnlyAbout DEF DocumentTypes
<1>4. accepted' \in [Inbound -> {"no", "once", "again"}] BY <1>0, <1>1 DEF DocumentTypes
<1>5. DocumentTypes' BY <1>0, <1>1, <1>3, <1>4 DEF DocumentTypes, Steps
<1>6. at'[c] = "cache" /\ \A d \in Callers \ {c} : at'[d] = at[d] BY <1>0, <1>1 DEF DocumentTypes
<1>7. CallAt(c)' BY <1>1, <1>2, <1>6 DEF CallAt, SoundCall
<1>8. ASSUME NEW d \in Callers \ {c} PROVE CallAt(d)'
  <2>1. CallAt(d) /\ writer # d BY <1>2 DEF DocumentInv
  <2> QED BY <1>1, <1>6, <2>1 DEF CallAt, SoundCall
<1>9. CacheAt' BY <1>0, <1>1, <1>6 DEF CacheAt
<1>10. LedgerAt'
  <2>1. CASE doing[c].op = "accept"
    <3> DEFINE b == doing[c].on
    <3>1. b \in Inbound /\ contents[b] \in Bundles BY <1>0, <1>2, <2>1 DEF SoundCall, DocumentTypes
    <3>2. file' = Accepted(b, file) BY <1>2, <2>1 DEF Changed
    <3>3. b \in file'.ledger BY <1>0, <3>1, <3>2, AcceptedEntries DEF DocumentTypes
    <3>4. contents[b].single => b \notin file.ledger BY <1>2, <2>1 DEF Refused
    <3>5. accepted'[b] = (IF accepted[b] = "no" THEN "once" ELSE "again")
          /\ \A x \in Inbound \ {b} : accepted'[x] = accepted[x]
      BY <1>0, <1>1, <2>1, <3>1 DEF DocumentTypes
    <3> QED BY <1>0, <1>1, <1>3, <3>1, <3>3, <3>4, <3>5 DEF LedgerAt
  <2>2. CASE doing[c].op # "accept" BY <1>0, <1>1, <1>3, <2>2 DEF LedgerAt
  <2> QED BY <2>1, <2>2
<1> QED BY <1>2, <1>5, <1>7, <1>8, <1>9, <1>10 DEF DocumentInv

\* What was saved is what is kept in memory.
LEMMA CacheStep ==
    ASSUME DocumentInv, NEW c \in Callers, Cache(c) PROVE DocumentInv'
<1>0. CallAt(c) /\ DocumentTypes BY DEF DocumentInv
<1>1. at[c] = "cache" /\ cached' = own[c] /\ Return(c)
      /\ UNCHANGED <<disk, unlocked, contents, minted, accepted>>
  BY DEF Cache
<1>2. own[c] = file /\ cached' = file /\ file' = file BY <1>0, <1>1 DEF CallAt, disk
<1>3. rosters' \in [Rosters -> Value] BY <1>0, DropType DEF Cache, DocumentTypes
<1>4. DocumentTypes' BY <1>0, <1>1, <1>2, <1>3, Returned DEF DocumentTypes
<1>5. OthersStay(c) BY <1>1, <1>2, Returned DEF OthersStay
<1>6. \A d \in Callers : CallAt(d)' BY <1>1, <1>5, OthersKeep, Returned
<1>7. CacheAt' BY <1>0, <1>2, DocumentAssumption DEF CacheAt, DocumentTypes
<1>8. LedgerAt' BY <1>1, <1>2 DEF DocumentInv, LedgerAt
<1> QED BY <1>4, <1>6, <1>7, <1>8 DEF DocumentInv

\* Locking and unlocking the app, and a roster that is dropped, keep the invariant.
LEMMA AroundStep ==
    ASSUME ~Relocks, DocumentInv, Lock \/ Unlock \/ (\E r \in Rosters : RosterGoes(r)) \/ UNCHANGED vars
    PROVE  DocumentInv'
<1>0. DocumentTypes /\ CacheAt /\ LedgerAt BY DEF DocumentInv
<1>1. UNCHANGED <<disk, calls, contents, minted, accepted>>
  BY DEF Lock, Unlock, RosterGoes, vars
<1>2. \A d \in Callers : CallAt(d)'
  <2> SUFFICES ASSUME NEW d \in Callers PROVE CallAt(d)' OBVIOUS
  <2>1. CallAt(d) BY DEF DocumentInv
  <2>2. Refused(doing[d], file)' = Refused(doing[d], file)
    BY <1>1 DEF calls, disk, Refused, PutRefused, Absent
  <2>3. Changed(doing[d], file)' = Changed(doing[d], file)
    BY <1>1 DEF calls, disk, Changed, With, Stored, Absent, Imported, Merged, Accepted, Logged
  <2> QED BY <1>1, <2>1, <2>2, <2>3 DEF CallAt, SoundCall, calls, disk
<1>3. rosters' \in [Rosters -> Value]
  BY <1>0, DropType DEF DocumentTypes, Lock, Unlock, RosterGoes, vars, Value
<1>4. cached' \in {cached, NoDoc} /\ (unlocked' => unlocked /\ cached' = cached)
  <2>1. CASE Lock BY <2>1 DEF Lock
  <2>2. CASE \E r \in Rosters : RosterGoes(r) BY <2>2 DEF RosterGoes
  <2>3. CASE UNCHANGED vars BY <2>3 DEF vars
  <2> QED BY <2>1, <2>2, <2>3 DEF Unlock
<1>5. DocumentTypes' BY <1>0, <1>1, <1>3, <1>4 DEF DocumentTypes, calls, disk
<1>6. CacheAt' BY <1>0, <1>1, <1>4 DEF CacheAt, calls, disk
<1>7. LedgerAt' BY <1>0, <1>1 DEF LedgerAt, disk
<1> QED BY <1>2, <1>5, <1>6, <1>7 DEF DocumentInv

\* Every step keeps the invariant.
LEMMA DocumentStep == ASSUME ~Relocks, DocumentInv, [Next]_vars PROVE DocumentInv'
<1>1. ASSUME NEW c \in Callers, Begins(c) \/ CallStep(c) PROVE DocumentInv'
  BY <1>1, BeginsStep, QuietCallStep, SaveStep, CacheStep
<1> QED BY <1>1, AroundStep DEF Next

\* The file changes only in a save, which is one change of it.
LEMMA FileSteps ==
    ASSUME DocumentInv, [Next]_vars, file' # file
    PROVE  \E c \in Callers : Save(c)
BY DEF Next, Begins, BeginNew, BeginPut, BeginDelete, BeginLink, BeginRecord, BeginList, BeginPlan,
       BeginImport, BeginAccept, BeginExport, Begin, CallStep, PutRoster, TooManyImports, Enter,
       LoadCached, LoadFile, LoadRefused, Fail, Keep, Change, ChangeRefused, SaveFails, Cache,
       WriteBundle, Done, Lock, Unlock, RosterGoes, vars, disk

\* The save of a file that changes is the save of the call that says so.
LEMMA SavingIsSave ==
    ASSUME DocumentInv, [Next]_vars, file' # file, NEW c \in Callers, Saving(c)
    PROVE  Save(c)
<1>1. PICK d \in Callers : Save(d) BY FileSteps
<1>2. writer = c /\ at[d] = "save" BY <1>1 DEF DocumentInv, CallAt, Saving, Save
<1>3. writer = d BY <1>2 DEF DocumentInv, CallAt
<1> QED BY <1>1, <1>2, <1>3

\* The invariant holds throughout.
LEMMA DocumentAlways == ASSUME ~Relocks PROVE Spec => []DocumentInv
BY DocumentInitially, DocumentStep, PTL DEF Spec

-----------------------------------------------------------------------------
(* The theorems about the document.                                        *)

\* No write erases what it is not about: mutate saves the document it loaded
\* under writeMu, with the change of one call, so an entry changes only in
\* the save of a call about it, the ledger of single use keeps every bundle
\* and only an export touches the log.
THEOREM UnrelatedStays == ASSUME ~Relocks PROVE Spec => UnrelatedWritesKeep
<1>1. ASSUME DocumentInv, [Next]_vars, file' # file, NEW c \in Callers, Saving(c)
      PROVE  /\ \A i \in Ids \ About(doing[c]) : file'.entries[i] = file.entries[i]
             /\ file.ledger \subseteq file'.ledger
             /\ doing[c].op # "export" => file'.log = file.log
  BY <1>1, SavingIsSave, SaveStep, OnlyAbout DEF DocumentInv, DocumentTypes
<1>2. DocumentInv /\ [Next]_vars =>
          [\A c \in Callers : Saving(c) =>
              /\ \A i \in Ids \ About(doing[c]) : file'.entries[i] = file.entries[i]
              /\ file.ledger \subseteq file'.ledger
              /\ doing[c].op # "export" => file'.log = file.log]_file
  BY <1>1
<1> QED BY <1>2, DocumentAlways, PTL DEF Spec, UnrelatedWritesKeep

\* A stand-in key that is absent is given an entry by its first save only,
\* whichever form, link, check, import or bundle was still open: Put and the
\* recorders look again under writeMu.
THEOREM StandInsAlwaysStayGone == ASSUME ~Relocks PROVE Spec => StandInsStayGone
<1>1. ASSUME DocumentInv, [Next]_vars, file' # file,
             NEW s \in minted, Absent(file, s), ~Absent(file', s)
      PROVE  \E c \in Callers : Saving(c) /\ doing[c].op = "new" /\ doing[c].on = s
  <2>1. PICK c \in Callers : Save(c) BY <1>1, FileSteps
  <2> DEFINE call == doing[c]
  <2>2. /\ file' = Changed(call, file) /\ ~Refused(call, file) /\ SoundCall(call) /\ call.op \in Writes
        /\ file \in Document /\ contents \in [Inbound -> Bundles] /\ minted \subseteq StandIns
    BY <1>1, <2>1, SaveStep DEF DocumentInv, DocumentTypes
  <2>3. s \in StandIns /\ s \in Ids /\ s \notin Accounts BY <2>2, DocumentAssumption DEF Ids
  <2>4. file'.entries[s] # file.entries[s] BY <1>1 DEF Absent
  <2>5. s \in About(call) BY <2>2, <2>3, <2>4, OnlyAbout
  <2>6. Saving(c) BY <1>1, <2>1 DEF Saving, Save, Goto, DocumentInv, DocumentTypes
  <2>7. ASSUME call.op # "new" PROVE FALSE
    <3>1. CASE call.op = "link"
      <4>1. call.on = s \/ call.to = s BY <2>5, <3>1 DEF About
      <4>2. call.to # s BY <2>2, <2>3, <3>1 DEF SoundCall
      <4> QED BY <1>1, <2>2, <3>1, <4>1, <4>2 DEF Refused
    <3>2. CASE call.op = "import" BY <2>3, <2>5, <3>2 DEF About
    <3>3. CASE call.op = "accept"
      <4>1. contents[call.on] \in Bundles /\ s = contents[call.on].account
        BY <2>2, <2>5, <3>3 DEF About, SoundCall
      <4> QED BY <2>3, <4>1 DEF Bundles
    <3>4. CASE call.op \in {"put", "delete", "record", "export"}
      <4>1. call.on = s BY <2>5, <3>4 DEF About
      <4>2. CASE call.op \in {"put", "delete"}
        BY <1>1, <2>2, <2>3, <4>1, <4>2 DEF Refused, PutRefused
      <4>3. CASE call.op = "record"
        <5>1. file' = file BY <1>1, <2>2, <2>3, <4>1, <4>3 DEF Changed
        <5> QED BY <1>1, <5>1
      <4>4. CASE call.op = "export"
        <5>1. file' = Logged(call.on, file) /\ call.on \in Outbound BY <2>2, <4>4 DEF Changed, SoundCall
        <5> QED BY <2>2, <2>4, <5>1, LogType
      <4> QED BY <3>4, <4>2, <4>3, <4>4
    <3> QED BY <2>2, <2>7, <3>1, <3>2, <3>3, <3>4 DEF Writes
  <2>8. call.on = s BY <2>5, <2>7 DEF About
  <2> QED BY <2>6, <2>7, <2>8
<1>2. DocumentInv /\ [Next]_vars =>
          [\A s \in minted : Absent(file, s) /\ ~Absent(file', s)
              => \E c \in Callers : Saving(c) /\ doing[c].op = "new" /\ doing[c].on = s]_file
  BY <1>1
<1> QED BY <1>2, DocumentAlways, PTL DEF Spec, StandInsStayGone

\* However many accepts of it run at once, a bundle for single use is let in once.
THEOREM SingleUseIsOnce == ASSUME ~Relocks PROVE Spec => []SingleUseOnce
<1>1. DocumentInv => SingleUseOnce BY DEF DocumentInv, LedgerAt, SingleUseOnce
<1> QED BY <1>1, DocumentAlways, PTL

\* An import keeps the password a row on its default finds, also one that
\* came after the user reviewed the row: CommitImport merges into the entry
\* of the document it loads under writeMu.
THEOREM ImportsKeep == ASSUME ~Relocks PROVE Spec => ImportKeepsWhatIsThere
<1>1. ASSUME DocumentInv, [Next]_vars, file' # file, NEW c \in Callers, Saving(c),
             doing[c].op = "import", NEW a \in Accounts, doing[c].modes[a] = "default"
      PROVE  /\ ~Absent(file', a)
             /\ Stored(file, a).password # NoValue
                  => file'.entries[a].password = file.entries[a].password
  <2>1. /\ file' = Imported(doing[c], file) /\ doing[c] \in Calls /\ file \in Document
        /\ a \in Ids /\ NoEntry \notin Entry
    BY <1>1, SavingIsSave, SaveStep, DocumentAssumption
       DEF DocumentInv, DocumentTypes, SoundCall, Changed, Ids
  <2>2. /\ Imported(doing[c], file).entries[a] \in Entry
        /\ Stored(file, a).password # NoValue
             => Imported(doing[c], file).entries[a].password = Stored(file, a).password
    BY <1>1, <2>1, ImportEntries
  <2>3. Stored(file, a).password # NoValue => Stored(file, a) = file.entries[a]
    BY <2>1, EntryThere DEF Blank
  <2> QED BY <2>1, <2>2, <2>3 DEF Absent
<1>2. DocumentInv /\ [Next]_vars =>
          [\A c \in Callers : Saving(c) /\ doing[c].op = "import" =>
              \A a \in Accounts : doing[c].modes[a] = "default" =>
                  /\ ~Absent(file', a)
                  /\ Stored(file, a).password # NoValue
                       => file'.entries[a].password = file.entries[a].password]_file
  BY <1>1
<1> QED BY <1>2, DocumentAlways, PTL DEF Spec, ImportKeepsWhatIsThere

\* What a change that fails half way, or a save that fails, leaves in memory
\* is the document as it is on disk.
THEOREM CacheStaysSaved == ASSUME ~Relocks PROVE Spec => []CacheIsSaved
<1>1. DocumentInv => CacheIsSaved BY DEF DocumentInv, CacheAt, CacheIsSaved
<1> QED BY <1>1, DocumentAlways, PTL
=============================================================================
