-------------------------- MODULE VaultChecksProofs --------------------------
(* Theorems about VaultChecks for any set of accounts, credentials, calls  *)
(* and loops, with edits at any time, failing writes and restarts.         *)
EXTENDS VaultChecks, TLAPS

Calls == [Actors -> Check]

(* What a call in progress is replaced by is again a call.                 *)
LEMMA IdleIsACheck == ASSUME NEW pc \in Steps PROVE Idle(pc) \in Check
<1>1. SomeAccount \in Accounts BY AccountsAssumption DEF SomeAccount
<1>2. NoRead \in Read BY DEF NoRead, Read
<1>3. NoReport \in Report BY DEF NoReport, Report, NoSignal, Signal, Results
<1> QED BY <1>1, <1>2, <1>3 DEF Idle, Check, Kinds

\* A check that starts is one.
LEMMA EnteringIsACheck ==
    ASSUME NEW kind \in Kinds, NEW id \in Accounts
    PROVE  Entering(kind, id) \in Check
<1>1. Idle("enter") \in Check BY IdleIsACheck DEF Steps
<1> QED BY <1>1 DEF Entering, Check

\* A check that goes to its next step is one.
LEMMA GotoType ==
    ASSUME act \in Calls, NEW a \in Actors, NEW pc \in Steps, Goto(a, pc)
    PROVE  act' \in Calls
BY DEF Goto, Calls, Check

\* Replacing one of the calls in progress leaves all of them calls.
LEMMA ReplaceType ==
    ASSUME act \in Calls, NEW a \in Actors, NEW c \in Check,
           act' = [act EXCEPT ![a] = c]
    PROVE  act' \in Calls
BY DEF Calls

\* So does a call that ends.
LEMMA LeaveType ==
    ASSUME act \in Calls, NEW a \in Actors, NEW ok \in BOOLEAN, Leave(a, ok)
    PROVE  act' \in Calls
<1>1. Idle("idle") \in Check BY IdleIsACheck DEF Steps
<1>2. Idle("probed") \in Check BY IdleIsACheck DEF Steps, LoopSteps
<1>3. Idle("result") \in Check BY IdleIsACheck DEF Steps, LoopSteps
<1>4. act[a].id \in Accounts BY DEF Calls, Check
<1>5. Returned(a, ok) \in Check
  BY <1>1, <1>2, <1>3, <1>4 DEF Returned, Check
<1> QED BY <1>5 DEF Leave, Calls

\* So does one that ends and lets deepMu go.
LEMMA ReleaseType ==
    ASSUME act \in Calls, lock \in Actors \cup {NoActor},
           NEW a \in Actors, NEW ok \in BOOLEAN, Release(a, ok)
    PROVE  act' \in Calls /\ lock' \in Actors \cup {NoActor}
BY LeaveType DEF Release

(* The report a write leaves in an entry is a report.                      *)
LEMMA CarryType ==
    ASSUME NEW rep \in Report, NEW prior \in Report
    PROVE  Carry(rep, prior) \in Report
BY DEF Carry, Report, Signal, Known

\* The empty report and the one a check begins with are reports.
LEMMA NoReportType == NoReport \in Report /\ NewReport \in Report /\ NoSignal \in Signal
BY DEF NoReport, NewReport, Report, NoSignal, Signal, Results

\* What a check makes of its signals is a report.
LEMMA DraftedType ==
    ASSUME NEW e \in Entry, NEW c \in Credentials \cup {NoCredential},
           NEW renamed \in BOOLEAN
    PROVE  Drafted(e, c, renamed) \in Entry
<1>1. e.health \in Report /\ e.health.session \in Results BY DEF Entry, Report
<1>2. (IF renamed THEN "absent" ELSE e.health.session) \in Results
  BY <1>1 DEF Results
<1> QED BY <1>1, <1>2, NoReportType DEF Drafted, Entry, Report

\* A new entry is an entry.
LEMMA BlankType ==
    /\ Blank \in Entry
    /\ \A c \in Credentials \cup {NoCredential} : NewEntry(c) \in Entry
    /\ \A c \in Credentials, t \in BOOLEAN : [NewEntry(c) EXCEPT !.token = t] \in Entry
<1>1. 0 \in 0 .. MaxSessionSkips BY SkipsAssumption
<1>2. Blank \in Entry BY <1>1, NoReportType DEF Blank, Entry
<1>3. \A c \in Credentials \cup {NoCredential} : NewEntry(c) \in Entry
  BY <1>2 DEF NewEntry, Entry
<1> QED BY <1>2, <1>3 DEF Entry

-----------------------------------------------------------------------------
\* The initial states have their types.
LEMMA InitType == Init => TypeOK
<1> SUFFICES ASSUME Init PROVE TypeOK OBVIOUS
<1>1. doc \in [Accounts -> Entry]
  <2>1. {Blank} \cup {[NewEntry(c) EXCEPT !.token = t] : c \in Credentials, t \in BOOLEAN}
          \subseteq Entry
    BY BlankType
  <2> QED BY <2>1 DEF Init
<1>2. act \in [Actors -> Check]
  <2>1. Idle("idle") \in Check BY IdleIsACheck DEF Steps
  <2> QED BY <2>1 DEF Init
<1>3. saver \in [Savers -> [pc : SaverSteps, on : BOOLEAN]] BY DEF Init, SaverSteps
<1>4. wanted \subseteq Accounts BY DEF Init
<1>5. deferred \in [Accounts -> 0 .. MaxSessionSkips + 1]
  <2>1. 0 \in 0 .. MaxSessionSkips + 1 BY SkipsAssumption
  <2> QED BY <2>1 DEF Init
<1>7. unrecorded \subseteq Accounts /\ stopped \subseteq Loops BY DEF Init
<1>8. /\ setting \in BOOLEAN /\ vaultOpen \in BOOLEAN /\ rateLimited \in BOOLEAN
      /\ lock \in Actors \cup {NoActor}
      /\ interval \in BOOLEAN /\ handle \in Loops \cup {NoActor}
  <2>1. setting \in BOOLEAN BY DEF Init
  <2>2. vaultOpen = FALSE /\ rateLimited = FALSE /\ interval = FALSE BY Zenon DEF Init
  <2>3. lock = NoActor /\ handle = NoActor BY Zenon DEF Init
  <2> QED BY <2>1, <2>2, <2>3
<1> QED BY <1>1, <1>2, <1>3, <1>4, <1>5, <1>7, <1>8 DEF TypeOK

(* The steps of a check keep the types.                                    *)
LEMMA CheckType ==
    ASSUME TypeOK, NEW a \in Actors, CheckStep(a)
    PROVE  TypeOK'
<1> DEFINE c == act[a]
<1>0. /\ act \in Calls /\ lock \in Actors \cup {NoActor}
      /\ c \in Check /\ c.id \in Accounts /\ c.rep \in Report
      /\ doc[c.id] \in Entry /\ doc[c.id].health \in Report
  BY DEF TypeOK, Calls, Check, Entry
<1> HIDE DEF c
<1>1. CASE Enter(a)
  <2>1. act' \in Calls
    BY <1>0, <1>1, LeaveType, GotoType DEF Enter, Steps
  <2> QED BY <1>1, <2>1 DEF Enter, TypeOK, Calls, schedule, ghosts
<1>2. CASE Busy(a)
  <2>1. Idle("wait") \in Check BY IdleIsACheck DEF Steps, LoopSteps
  <2>2. act' \in Calls
    BY <1>0, <1>2, <2>1, LeaveType, ReplaceType DEF Busy
  <2> QED BY <1>2, <2>2 DEF Busy, TypeOK, Calls, schedule, ghosts
<1>3. CASE TryLock(a)
  <2>1. act' \in Calls BY <1>0, <1>3, GotoType DEF TryLock, Steps, LockedSteps
  <2> QED BY <1>3, <2>1 DEF TryLock, TypeOK, Calls, schedule, ghosts
<1>4. CASE Recheck(a)
  <2>1. act' \in Calls /\ lock' \in Actors \cup {NoActor}
    BY <1>0, <1>4, GotoType, ReleaseType DEF Recheck, Steps, LockedSteps
  <2> QED BY <1>4, <2>1 DEF Recheck, TypeOK, Calls, schedule, ghosts
<1>5. CASE ReadEntry(a)
  <2>1. act' \in Calls /\ lock' \in Actors \cup {NoActor}
    <3>1. CASE Readable(c.id) /\ Eligible(c.kind, doc[c.id])
      <4> DEFINE r == [credential |-> doc[c.id].credential, token |-> doc[c.id].token,
                       failing |-> doc[c.id].failing]
      <4>1. r \in Read BY <1>0 DEF Read, Entry
      <4>2. act' = [act EXCEPT ![a].pc = "fetch", ![a].read = r] /\ lock' = lock
        BY <1>5, <3>1 DEF ReadEntry, c
      <4> HIDE DEF r
      <4>i. "fetch" \in Steps BY DEF Steps, LockedSteps
      <4>j. [c EXCEPT !.pc = "fetch", !.read = r] \in Check
        BY <1>0, <4>1, <4>i DEF Check
      <4>3. act' \in Calls BY <1>0, <4>2, <4>j DEF Calls, c
      <4> QED BY <1>0, <4>2, <4>3
    <3>2. CASE ~(Readable(c.id) /\ Eligible(c.kind, doc[c.id]))
      <4>1. Release(a, FALSE) BY <1>5, <3>2 DEF ReadEntry, c
      <4> QED BY <1>0, <4>1, ReleaseType
    <3> QED BY <3>1, <3>2
  <2> QED BY <1>5, <2>1 DEF ReadEntry, TypeOK, Calls, schedule, ghosts
<1>6. ASSUME NEW limited \in BOOLEAN, Fetch(a, limited) PROVE TypeOK'
  <2>1. [NewReport EXCEPT !.limited = limited] \in Report BY NoReportType DEF Report
  <2> DEFINE r == [NewReport EXCEPT !.limited = limited]
  <2>a. act' = [act EXCEPT ![a].pc = "keep", ![a].rep = r, ![a].saw = limited]
    BY <1>6 DEF Fetch
  <2>b. r \in Report BY <2>1
  <2> HIDE DEF r
  <2>i. "keep" \in Steps BY DEF Steps, LockedSteps
  <2>j. [c EXCEPT !.pc = "keep", !.rep = r, !.saw = limited] \in Check
    BY <1>0, <2>b, <2>i DEF Check
  <2>2. act' \in Calls BY <1>0, <2>a, <2>j DEF Calls, c
  <2> QED BY <1>6, <2>2 DEF Fetch, TypeOK, Calls, schedule, ghosts
<1>7. ASSUME NEW limited \in BOOLEAN, FetchForSession(a, limited) PROVE TypeOK'
  <2> DEFINE r == [NewReport EXCEPT !.session = "unknown", !.limited = limited]
  <2>1. r \in Report BY NoReportType DEF Report, Results
  <2>2. act' \in Calls /\ lock' \in Actors \cup {NoActor}
    <3>1. CASE ~limited /\ c.read.token
      <4>1. Goto(a, "sign-in") /\ UNCHANGED lock BY <1>7, <3>1 DEF FetchForSession, c
      <4> QED BY <1>0, <4>1, GotoType DEF Steps, LockedSteps
    <3>2. CASE ~(~limited /\ c.read.token) /\ c.kind = "probe"
      <4>1. Release(a, FALSE) BY <1>7, <3>2 DEF FetchForSession, c
      <4> QED BY <1>0, <4>1, ReleaseType
    <3>3. CASE ~(~limited /\ c.read.token) /\ c.kind # "probe"
      <4>1. /\ act' = [act EXCEPT ![a].pc = "keep", ![a].saw = limited, ![a].rep = r]
            /\ lock' = lock
        BY <1>7, <3>3 DEF FetchForSession, c
      <4> HIDE DEF r
      <4>i. "keep" \in Steps BY DEF Steps, LockedSteps
      <4>j. [c EXCEPT !.pc = "keep", !.saw = limited, !.rep = r] \in Check
        BY <1>0, <2>1, <4>i DEF Check
      <4>2. act' \in Calls BY <1>0, <4>1, <4>j DEF Calls, c
      <4> QED BY <1>0, <4>1, <4>2
    <3> QED BY <3>1, <3>2, <3>3
  <2>3. rateLimited' \in BOOLEAN BY <1>7 DEF FetchForSession, TypeOK
  <2> QED BY <1>7, <2>2, <2>3 DEF FetchForSession, TypeOK, Calls, schedule, ghosts
<1>8. CASE FetchNothing(a)
  <2>1. act' \in Calls /\ lock' \in Actors \cup {NoActor}
    BY <1>0, <1>8, ReleaseType DEF FetchNothing
  <2> QED BY <1>8, <2>1 DEF FetchNothing, TypeOK, Calls, schedule, ghosts
<1>9. CASE KeepReport(a)
  <2>1. Carry(c.rep, doc[c.id].health) \in Report BY <1>0, CarryType
  <2>2. doc' \in [Accounts -> Entry]
    BY <1>0, <1>9, <2>1 DEF KeepReport, TypeOK, Entry, Stored, c
  <2>3. act' \in Calls /\ lock' \in Actors \cup {NoActor}
    BY <1>0, <1>9, GotoType, ReleaseType DEF KeepReport, Steps, LockedSteps
  <2> QED BY <1>9, <2>2, <2>3 DEF KeepReport, TypeOK, Calls, schedule, ghosts
<1>10. CASE Reread(a)
  <2> DEFINE r == IF Readable(c.id) THEN doc[c.id].health ELSE c.rep
  <2>1. r \in Report BY <1>0
  <2>2. r.limited \in BOOLEAN BY <2>1 DEF Report
  <2>3. CASE r.limited
    <3>1. /\ Release(a, FALSE) /\ UNCHANGED <<deferred, unrecorded>>
          /\ rateLimited' = (rateLimited \/ r.limited)
      BY <1>10, <2>3 DEF Reread, c
    <3>2. act' \in Calls /\ lock' \in Actors \cup {NoActor} BY <1>0, <3>1, ReleaseType
    <3> HIDE DEF r
    <3> QED BY <1>10, <2>3, <3>1, <3>2 DEF Reread, TypeOK, Calls, schedule
  <2>4. CASE ~r.limited
    <3>1. /\ act' = [act EXCEPT ![a].pc = "login", ![a].rep = r]
          /\ deferred' = [deferred EXCEPT ![c.id] = 0]
          /\ unrecorded' = IF a \in Loops THEN unrecorded \cup {c.id} ELSE unrecorded
          /\ lock' = lock
          /\ rateLimited' = (rateLimited \/ r.limited)
      BY <1>10, <2>4 DEF Reread, c
    <3> HIDE DEF r
    <3>i. "login" \in Steps BY DEF Steps, LockedSteps
    <3>2. act' \in Calls BY <1>0, <2>1, <3>1, <3>i DEF Calls, Check
    <3>3. deferred' \in [Accounts -> 0 .. MaxSessionSkips + 1]
      BY <1>0, <3>1, SkipsAssumption DEF TypeOK
    <3>4. unrecorded' \subseteq Accounts BY <1>0, <3>1 DEF TypeOK
    <3>5. rateLimited' \in BOOLEAN BY <2>2, <3>1 DEF TypeOK
    <3> QED BY <1>10, <3>1, <3>2, <3>3, <3>4, <3>5 DEF Reread, TypeOK, Calls, schedule
  <2> QED BY <2>2, <2>3, <2>4
<1>11. ASSUME NEW answer \in Answers, Login(a, answer) PROVE TypeOK'
  <2> DEFINE status == CASE answer \in {"session", "guard"} -> "ok"
                         [] answer = "refused"              -> "refused"
                         [] OTHER                           -> "unknown"
             r == [c.rep EXCEPT !.password = [status |-> status, of |-> c.read.credential],
                                !.limited  = @ \/ answer = "limited"]
  <2>1. status \in Results BY DEF Results
  <2> HIDE DEF status
  <2>2. c.read.credential \in Credentials \cup {NoCredential} BY <1>0 DEF Check, Read
  <2>3. r \in Report BY <1>0, <2>1, <2>2 DEF Report, Signal
  <2>4. act' = [act EXCEPT ![a].rep = r,
                    ![a].pc = IF answer = "session" THEN "store-token" ELSE "record"]
    BY <1>11 DEF Login, c, status
  <2> DEFINE next == IF answer = "session" THEN "store-token" ELSE "record"
  <2>a. next \in Steps BY DEF Steps, LockedSteps
  <2>b. act' = [act EXCEPT ![a].rep = r, ![a].pc = next] BY <2>4
  <2> HIDE DEF r, next
  <2>5. act' \in Calls BY <1>0, <2>3, <2>a, <2>b DEF Calls, Check
  <2>6. rateLimited' \in BOOLEAN BY <1>11 DEF Login, TypeOK
  <2> QED BY <1>11, <2>5, <2>6 DEF Login, TypeOK, Calls, schedule, ghosts
<1>12. ASSUME NEW answer \in Answers, SignIn(a, answer) PROVE TypeOK'
  <2> DEFINE status == CASE answer = "session" -> "ok"
                         [] answer = "refused" -> "refused"
                         [] OTHER              -> "unknown"
             r == [NewReport EXCEPT !.session = status, !.limited = (answer = "limited")]
             next == IF c.kind = "probe" THEN "skip" ELSE "keep"
  <2>1. status \in Results BY DEF Results
  <2>2. r \in Report BY <2>1, NoReportType DEF Report
  <2>3. act' \in Calls /\ lock' \in Actors \cup {NoActor}
    <3>1. CASE c.kind = "probe" /\ status # "ok"
      <4>1. Release(a, FALSE) BY <1>12, <3>1 DEF SignIn, c
      <4> QED BY <1>0, <4>1, ReleaseType
    <3>2. CASE ~(c.kind = "probe" /\ status # "ok")
      <4>1. act' = [act EXCEPT ![a].pc = next, ![a].rep = r] /\ lock' = lock
        BY <1>12, <3>2 DEF SignIn, c
      <4>2. next \in Steps BY DEF Steps, LockedSteps
      <4> HIDE DEF r, next, status
      <4>3. act' \in Calls BY <1>0, <2>2, <4>1, <4>2 DEF Calls, Check
      <4> QED BY <1>0, <4>1, <4>3
    <3> QED BY <3>1, <3>2
  <2>4. rateLimited' \in BOOLEAN BY <1>12 DEF SignIn, TypeOK
  <2> QED BY <1>12, <2>3, <2>4 DEF SignIn, TypeOK, Calls, schedule, ghosts
<1>13. CASE StoreToken(a)
  <2>1. [doc[c.id].health EXCEPT !.session = "absent"] \in Report
    BY <1>0 DEF Report, Results
  <2>2. doc' = [doc EXCEPT ![c.id] =
                  [Stored(c.id) EXCEPT !.token = TRUE, !.health.session = "absent"]]
    BY <1>13 DEF StoreToken, c
  <2>3. doc' \in [Accounts -> Entry]
    BY <1>0, <2>1, <2>2 DEF TypeOK, Entry, Stored
  <2>4. act' = [act EXCEPT ![a].pc = "record", ![a].rep.session = "absent"]
    BY <1>13 DEF StoreToken
  <2>5. [c.rep EXCEPT !.session = "absent"] \in Report BY <1>0 DEF Report, Results
  <2>i. "record" \in Steps BY DEF Steps, LockedSteps
  <2>6. act' \in Calls BY <1>0, <2>4, <2>5, <2>i DEF Calls, Check, c
  <2> QED BY <1>13, <2>3, <2>6 DEF StoreToken, TypeOK, Calls, schedule, ghosts
<1>14. CASE RecordHealth(a)
  <2>1. Carry(c.rep, doc[c.id].health) \in Report BY <1>0, CarryType
  <2>2. doc' \in [Accounts -> Entry]
    BY <1>0, <1>14, <2>1 DEF RecordHealth, TypeOK, Entry, Stored, c
  <2>3. act' \in Calls BY <1>0, <1>14, GotoType DEF RecordHealth, Steps, LockedSteps
  <2> QED BY <1>14, <2>2, <2>3 DEF RecordHealth, TypeOK, Calls, schedule
<1>15. CASE ResetSessionSkips(a)
  <2>i. 0 \in 0 .. MaxSessionSkips BY SkipsAssumption
  <2>j. doc' = doc \/ doc' = [doc EXCEPT ![c.id].skips = 0]
    BY <1>15 DEF ResetSessionSkips, c
  <2>1. doc' \in [Accounts -> Entry] BY <1>0, <2>i, <2>j DEF TypeOK, Entry
  <2>2. act' \in Calls /\ lock' \in Actors \cup {NoActor}
    BY <1>0, <1>15, ReleaseType DEF ResetSessionSkips
  <2> QED BY <1>15, <2>1, <2>2 DEF ResetSessionSkips, TypeOK, Calls, schedule, ghosts
<1>16. CASE RecordSessionSkip(a)
  <2>1. Carry(c.rep, doc[c.id].health) \in Report BY <1>0, CarryType
  <2>2. act' \in Calls /\ lock' \in Actors \cup {NoActor}
    BY <1>0, <1>16, ReleaseType DEF RecordSessionSkip
  <2>3. CASE Readable(c.id) /\ DeferralLeft(doc[c.id])
    <3>1. /\ doc' = [doc EXCEPT ![c.id] =
                       [doc[c.id] EXCEPT !.health = Carry(c.rep, @),
                                         !.skips = @ + 1, !.due = FALSE]]
          /\ deferred' = [deferred EXCEPT ![c.id] = OneMore(@)]
          /\ unrecorded' = unrecorded \ {c.id}
      BY <1>16, <2>3 DEF RecordSessionSkip, c
    <3>2. doc[c.id].skips + 1 \in 0 .. MaxSessionSkips
      BY <1>0, <2>3, SkipsAssumption DEF DeferralLeft, Entry
    <3>3. doc' \in [Accounts -> Entry] BY <1>0, <2>1, <3>1, <3>2 DEF TypeOK, Entry
    <3>4. OneMore(deferred[c.id]) \in 0 .. MaxSessionSkips + 1
      BY <1>0, SkipsAssumption DEF OneMore, TypeOK
    <3>5. deferred' \in [Accounts -> 0 .. MaxSessionSkips + 1]
      BY <1>0, <3>1, <3>4 DEF TypeOK
    <3> QED BY <1>16, <2>2, <3>1, <3>3, <3>5 DEF RecordSessionSkip, TypeOK, Calls, schedule
  <2>4. CASE ~(Readable(c.id) /\ DeferralLeft(doc[c.id]))
    <3>1. UNCHANGED <<doc, deferred, unrecorded>> BY <1>16, <2>4 DEF RecordSessionSkip, c
    <3> QED BY <1>16, <2>2, <3>1 DEF RecordSessionSkip, TypeOK, Calls, schedule
  <2> QED BY <2>3, <2>4
<1> QED BY <1>1, <1>2, <1>3, <1>4, <1>5, <1>6, <1>7, <1>8, <1>9, <1>10, <1>11,
           <1>12, <1>13, <1>14, <1>15, <1>16 DEF CheckStep

(* So do the scheduler's.                                                  *)
LEMMA LoopType ==
    ASSUME TypeOK, NEW l \in Loops, LoopStep(l)
    PROVE  TypeOK'
<1>0. act \in Calls /\ l \in Actors /\ act[l].id \in Accounts
  BY DEF TypeOK, Calls, Check, Actors
<1>i. /\ Idle("wait") \in Check /\ Idle("stop") \in Check /\ Idle("settle") \in Check
  BY IdleIsACheck DEF Steps, LoopSteps
<1>1. CASE DelayOver(l)
  <2>1. act' \in Calls BY <1>0, <1>1, GotoType DEF DelayOver, Steps, LoopSteps
  <2> QED BY <1>1, <2>1 DEF DelayOver, TypeOK, Calls, schedule, ghosts
<1>2. CASE LoopEnds(l)
  <2>1. act' \in Calls BY <1>0, <1>2, GotoType DEF LoopEnds, Steps
  <2> QED BY <1>2, <2>1 DEF LoopEnds, TypeOK, Calls, schedule, ghosts
<1>3. ASSUME NEW id \in Accounts, PickDue(l, id) PROVE TypeOK'
  <2>1. Entering("probe", id) \in Check BY EnteringIsACheck DEF Kinds
  <2>2. act' \in Calls BY <1>0, <1>3, <2>1, ReplaceType DEF PickDue
  <2> QED BY <1>3, <2>2 DEF PickDue, TypeOK, Calls, schedule, ghosts
<1>4. CASE TickLimited(l)
  <2>1. act' \in Calls BY <1>0, <1>4, GotoType DEF TickLimited, Steps, LoopSteps
  <2> QED BY <1>4, <2>1 DEF TickLimited, TypeOK, Calls, schedule, ghosts
<1>5. CASE AfterProbe(l)
  <2>1. Entering("deep", act[l].id) \in Check BY <1>0, EnteringIsACheck DEF Kinds
  <2>2. act' \in Calls BY <1>0, <1>5, <1>i, <2>1 DEF AfterProbe, Calls
  <2> QED BY <1>5, <2>2 DEF AfterProbe, TypeOK, Calls, schedule, ghosts
<1>6. CASE AfterDeepCheck(l)
  <2>1. act' \in Calls BY <1>0, <1>6, <1>i DEF AfterDeepCheck, Calls
  <2> QED BY <1>6, <2>1 DEF AfterDeepCheck, TypeOK, Calls, schedule, ghosts
<1>7. CASE Settle(l)
  <2>1. act' \in Calls BY <1>0, <1>7, GotoType DEF Settle, Steps, LoopSteps
  <2> QED BY <1>7, <2>1 DEF Settle, TypeOK, Calls, schedule, ghosts
<1>8. CASE StopForGood(l)
  <2>1. act' \in Calls BY <1>0, <1>8, GotoType DEF StopForGood, Steps
  <2>2. stopped' \subseteq Loops /\ handle' \in Loops \cup {NoActor}
    BY <1>8 DEF StopForGood, StopHandle, TypeOK
  <2> QED BY <1>8, <2>1, <2>2 DEF StopForGood, TypeOK, Calls, ghosts
<1> QED BY <1>1, <1>2, <1>3, <1>4, <1>5, <1>6, <1>7, <1>8 DEF LoopStep

(* And changes of the setting.                                             *)
LEMMA SaverType ==
    ASSUME TypeOK, NEW s \in Savers, SaverStep(s)
    PROVE  TypeOK'
<1> DEFINE Changes == [Savers -> [pc : SaverSteps, on : BOOLEAN]]
<1>0. saver \in Changes /\ saver[s].on \in BOOLEAN BY DEF TypeOK
<1>i. [pc |-> "idle", on |-> FALSE] \in [pc : SaverSteps, on : BOOLEAN] BY DEF SaverSteps
<1>1. CASE LoadSettings(s)
  <2>1. [pc |-> "interval", on |-> setting] \in [pc : SaverSteps, on : BOOLEAN]
    BY DEF SaverSteps, TypeOK
  <2>2. saver' \in Changes BY <1>0, <1>1, <2>1 DEF LoadSettings
  <2> QED BY <1>1, <2>2 DEF LoadSettings, TypeOK, checking, ghosts
<1>2. CASE SetInterval(s)
  <2>1. saver' \in Changes BY <1>0, <1>2 DEF SetInterval, SaverSteps
  <2> QED BY <1>0, <1>2, <2>1 DEF SetInterval, TypeOK, checking, ghosts
<1>3. CASE TurnOff(s)
  <2>1. saver' \in Changes BY <1>0, <1>3, <1>i DEF TurnOff
  <2>2. stopped' \subseteq Loops /\ handle' \in Loops \cup {NoActor}
    BY <1>3 DEF TurnOff, StopHandle, TypeOK
  <2> QED BY <1>3, <2>1, <2>2 DEF TurnOff, TypeOK, checking, ghosts
<1>4. CASE KeepOn(s)
  <2>1. saver' \in Changes BY <1>0, <1>4, <1>i DEF KeepOn
  <2> QED BY <1>4, <2>1 DEF KeepOn, TypeOK, checking, ghosts
<1>5. ASSUME NEW l \in Loops, TurnOn(s, l) PROVE TypeOK'
  <2>1. saver' \in Changes BY <1>0, <1>5, <1>i DEF TurnOn
  <2>2. act' \in Calls
    BY <1>5, GotoType DEF TurnOn, Steps, LoopSteps, Actors, TypeOK, Calls
  <2> QED BY <1>5, <2>1, <2>2 DEF TurnOn, TypeOK, Calls
<1> QED BY <1>1, <1>2, <1>3, <1>4, <1>5 DEF SaverStep

(* What the user does, time, and what goes wrong.                          *)
LEMMA WorldType ==
    ASSUME TypeOK, Clock \/ Unlock \/ Ask \/ Edit \/ Fault
    PROVE  TypeOK'
<1>0. act \in Calls /\ lock \in Actors \cup {NoActor} BY DEF TypeOK, Calls
<1>1. ASSUME NEW id \in Accounts, TimePasses(id) PROVE TypeOK'
  <2>0. doc \in [Accounts -> Entry] /\ doc' = [doc EXCEPT ![id].due = TRUE]
    BY <1>1 DEF TimePasses, TypeOK
  <2>1. doc' \in [Accounts -> Entry] BY <2>0 DEF Entry
  <2> QED BY <1>1, <2>1 DEF TimePasses, TypeOK, checking, schedule
<1>r. ASSUME NEW id \in Accounts, ReportAges(id) PROVE TypeOK'
  <2>0. doc[id] \in Entry /\ doc[id].health \in Report BY DEF TypeOK, Entry
  <2>1. [doc[id].health EXCEPT !.recent = FALSE] \in Report BY <2>0 DEF Report
  <2>2. doc' = [doc EXCEPT ![id].health.recent = FALSE] BY <1>r DEF ReportAges
  <2>3. doc' \in [Accounts -> Entry] BY <2>0, <2>1, <2>2 DEF TypeOK, Entry
  <2> QED BY <1>r, <2>3 DEF ReportAges, TypeOK, checking, schedule, ghosts
<1>l. ASSUME NEW s \in Savers, LoadFails(s) PROVE TypeOK'
  <2>1. saver' \in [Savers -> [pc : SaverSteps, on : BOOLEAN]]
    BY <1>l DEF LoadFails, TypeOK, SaverSteps
  <2> QED BY <1>l, <2>1 DEF LoadFails, TypeOK, checking, ghosts
<1>2. CASE Unlock
  BY <1>2 DEF Unlock, TypeOK, checking, schedule, ghosts
<1>3. CASE Lock
  BY <1>3 DEF Lock, TypeOK, checking, schedule, ghosts
<1>4. ASSUME NEW u \in Users, NEW kind \in UserKinds, NEW id \in Accounts,
             UserCheck(u, kind, id)
      PROVE  TypeOK'
  <2>1. kind \in Kinds BY KindsAssumption DEF Kinds
  <2>2. Entering(kind, id) \in Check BY <2>1, EnteringIsACheck
  <2>3. [Entering(kind, id) EXCEPT !.pc = "fetch"] \in Check
    BY <2>2 DEF Check, Steps, LockedSteps
  <2>4. act' \in Calls BY <1>0, <1>4, <2>2, <2>3 DEF UserCheck, Calls, Actors
  <2> QED BY <1>4, <2>4 DEF UserCheck, TypeOK, Calls, schedule, ghosts
<1>5. ASSUME NEW s \in Savers, NEW on \in BOOLEAN, SaveSettings(s, on) PROVE TypeOK'
  <2>1. saver' \in [Savers -> [pc : SaverSteps, on : BOOLEAN]]
    BY <1>5 DEF SaveSettings, TypeOK, SaverSteps
  <2> QED BY <1>5, <2>1 DEF SaveSettings, TypeOK, checking, ghosts
<1>6. ASSUME NEW id \in Accounts, NEW c \in Credentials \cup {NoCredential},
             NEW renamed \in BOOLEAN, Put(id, c, renamed)
      PROVE  TypeOK'
  <2>0. doc[id] \in Entry /\ doc[id].health \in Report BY DEF TypeOK, Entry
  <2>1. CASE ~doc[id].there
    <3>1. doc' = [doc EXCEPT ![id] = NewEntry(c)] BY <1>6, <2>1 DEF Put
    <3>2. doc' \in [Accounts -> Entry] BY <3>1, BlankType DEF TypeOK
    <3> QED BY <1>6, <3>2 DEF Put, TypeOK, checking, schedule
  <2>2. CASE doc[id].there
    <3>1. doc' = [doc EXCEPT ![id] = Drafted(doc[id], c, renamed)]
      BY <1>6, <2>0, <2>2 DEF Put, TypeOK
    <3>2. Drafted(doc[id], c, renamed) \in Entry BY <2>0, DraftedType
    <3>4. doc' \in [Accounts -> Entry] BY <3>1, <3>2 DEF TypeOK
    <3> QED BY <1>6, <3>4 DEF Put, TypeOK, checking, schedule
  <2> QED BY <2>0, <2>1, <2>2 DEF Entry
<1>7. ASSUME NEW id \in Accounts, ClearToken(id) PROVE TypeOK'
  <2>0. doc[id] \in Entry /\ doc[id].health \in Report BY DEF TypeOK, Entry
  <2>1. [doc[id].health EXCEPT !.session = "absent"] \in Report
    BY <2>0 DEF Report, Results
  <2>2. doc' = [doc EXCEPT ![id].token = FALSE, ![id].health.session = "absent"]
    BY <1>7 DEF ClearToken
  <2>3. doc' \in [Accounts -> Entry] BY <2>0, <2>1, <2>2 DEF TypeOK, Entry
  <2> QED BY <1>7, <2>3 DEF ClearToken, TypeOK, checking, schedule
<1>8. ASSUME NEW id \in Accounts, Delete(id) PROVE TypeOK'
  <2>1. doc' \in [Accounts -> Entry] BY <1>8, BlankType DEF Delete, TypeOK
  <2>2. deferred' \in [Accounts -> 0 .. MaxSessionSkips + 1]
    BY <1>8, SkipsAssumption DEF Delete, TypeOK
  <2> QED BY <1>8, <2>1, <2>2 DEF Delete, TypeOK, checking, schedule
<1>9. ASSUME NEW a \in Actors, WriteFails(a) PROVE TypeOK'
  <2>0. act[a].rep \in Report /\ act[a].rep.limited \in BOOLEAN
    BY DEF TypeOK, Check, Report
  <2>1. CASE act[a].pc = "store-token"
    <3>1. /\ act' = [act EXCEPT ![a].pc = "record", ![a].rep.session = "absent"]
          /\ UNCHANGED <<lock, rateLimited>>
      BY <1>9, <2>1 DEF WriteFails
    <3>2. [act[a].rep EXCEPT !.session = "absent"] \in Report
      BY <2>0 DEF Report, Results
    <3>i. "record" \in Steps BY DEF Steps, LockedSteps
    <3> DEFINE r == [act[a].rep EXCEPT !.session = "absent"]
               x == [act[a] EXCEPT !.pc = "record", !.rep = r]
    <3>j. act' = [act EXCEPT ![a] = x] BY <1>0, <3>1 DEF Calls
    <3> HIDE DEF r
    <3>k. x \in Check BY <1>0, <3>2, <3>i DEF Calls, Check, r
    <3>3. act' \in Calls BY <1>0, <3>j, <3>k, ReplaceType
    <3> QED BY <1>9, <3>1, <3>3 DEF WriteFails, TypeOK, Calls, schedule, ghosts
  <2>2. CASE act[a].pc = "keep" /\ act[a].kind = "deep"
    <3>1. Release(a, FALSE) /\ rateLimited' = (rateLimited \/ act[a].rep.limited)
      BY <1>9, <2>2 DEF WriteFails
    <3>2. act' \in Calls /\ lock' \in Actors \cup {NoActor} BY <1>0, <3>1, ReleaseType
    <3>3. rateLimited' \in BOOLEAN BY <2>0, <3>1 DEF TypeOK
    <3> QED BY <1>9, <3>2, <3>3 DEF WriteFails, TypeOK, Calls, schedule, ghosts
  <2>3. CASE act[a].pc # "store-token" /\ ~(act[a].pc = "keep" /\ act[a].kind = "deep")
    <3>1. Release(a, act[a].pc = "reset-skips") /\ UNCHANGED rateLimited
      BY <1>9, <2>3 DEF WriteFails
    <3>2. act' \in Calls /\ lock' \in Actors \cup {NoActor} BY <1>0, <3>1, ReleaseType
    <3> QED BY <1>9, <3>1, <3>2 DEF WriteFails, TypeOK, Calls, schedule, ghosts
  <2> QED BY <2>1, <2>2, <2>3
<1>10. ASSUME NEW s \in Savers, Restart(s) PROVE TypeOK'
  <2>1. act' \in Calls
    BY <1>10, IdleIsACheck DEF Restart, Calls, Steps
  <2>2. saver' \in [Savers -> [pc : SaverSteps, on : BOOLEAN]]
    BY <1>10 DEF Restart, SaverSteps
  <2> QED BY <1>10, <2>1, <2>2 DEF Restart, TypeOK, Calls
<1> QED BY <1>1, <1>r, <1>l, <1>2, <1>3, <1>4, <1>5, <1>6, <1>7, <1>8, <1>9, <1>10
       DEF Clock, Ask, Edit, Fault

(* The variables of VaultChecks have their types in every state.           *)
THEOREM VaultTypeCorrect == Spec => []TypeOK
<1>1. TypeOK /\ [Next]_vars => TypeOK'
  <2> SUFFICES ASSUME TypeOK, [Next]_vars PROVE TypeOK' OBVIOUS
  <2>1. CASE Work BY <2>1, CheckType, LoopType, SaverType DEF Work
  <2>2. CASE Clock \/ Unlock \/ Ask \/ Edit \/ Fault BY <2>2, WorldType
  <2>3. CASE UNCHANGED vars
    BY <2>3 DEF vars, checking, schedule, ghosts, TypeOK
  <2> QED BY <2>1, <2>2, <2>3 DEF Next
<1> QED BY <1>1, InitType, PTL DEF Spec

-----------------------------------------------------------------------------
(* Sign-ins.  A check past the lock holds it, and one past the second look *)
(* at the latch has an untouched latch: only the holder may set it, and    *)
(* the holder that sets it never goes on to sign in.                       *)

SoundKind(c) ==
    /\ c.kind = "quick" => c.pc \in {"fetch", "keep"}
    /\ c.pc = "sign-in" => c.kind \in {"session", "probe"}

Locked(c) == c.kind # "quick" /\ c.pc \in LockedSteps

Cleared(c) ==
    \/ c.pc \in {"read", "reread"}
    \/ c.pc = "fetch" /\ c.kind # "quick"
    \/ c.pc = "keep" /\ c.kind = "deep"

Apart == \A a \in Actors :
    /\ SoundKind(act[a])
    /\ Locked(act[a]) => lock = a
    /\ Cleared(act[a]) => ~rateLimited

Signing(c) == c.pc \in {"login", "sign-in"}

\* No sign-in begins in this step with the latch set.
Unlimited == \A a \in Actors : ~Signing(act[a]) /\ Signing(act'[a]) => ~rateLimited'

(* A step that replaces one check x keeps this if x does by itself, if it  *)
(* takes or gives back only its own lock, and if only a holder latches.    *)
LEMMA OneMoves ==
    ASSUME TypeOK, Apart, NEW a \in Actors, NEW x,
           act' = [act EXCEPT ![a] = x],
           SoundKind(x), Locked(x) => lock' = a, Cleared(x) => ~rateLimited',
           Signing(x) => Signing(act[a]) \/ ~rateLimited',
           \/ lock' = lock
           \/ lock = NoActor /\ lock' = a
           \/ lock = a /\ lock' = NoActor,
           rateLimited' = rateLimited \/ Locked(act[a])
    PROVE  Apart' /\ Unlimited
<1>1. /\ act'[a] = x
      /\ \A b \in Actors \ {a} : act'[b] = act[b]
  BY DEF TypeOK
<1>2. \A b \in Actors : b # NoActor BY NoActorAssumption DEF Actors
<1>3. ASSUME NEW b \in Actors \ {a}, Locked(act[b]) PROVE lock' = b /\ rateLimited' = rateLimited
  BY <1>2, <1>3 DEF Apart
<1>4. ASSUME NEW b \in Actors \ {a}, Cleared(act[b]) PROVE ~rateLimited'
  <2>1. Locked(act[b])
    BY <1>4 DEF Apart, SoundKind, Cleared, Locked, LockedSteps
  <2> QED BY <1>3, <1>4, <2>1 DEF Apart
<1>5. ASSUME NEW b \in Actors
      PROVE  /\ SoundKind(act'[b])
             /\ Locked(act'[b]) => lock' = b
             /\ Cleared(act'[b]) => ~rateLimited'
  <2>1. CASE b = a BY <1>1, <2>1
  <2>2. CASE b # a BY <1>1, <1>3, <1>4, <2>2 DEF Apart
  <2> QED BY <2>1, <2>2
<1>6. Apart' BY <1>5 DEF Apart
<1>7. Unlimited BY <1>1 DEF Unlimited
<1> QED BY <1>6, <1>7

(* A check that returns, or goes to a step outside the lock.               *)
LEMMA OneReturns ==
    ASSUME TypeOK, Apart, NEW a \in Actors, NEW ok \in BOOLEAN, Release(a, ok),
           rateLimited' = rateLimited \/ Locked(act[a])
    PROVE  Apart' /\ Unlimited
<1> DEFINE x == Returned(a, ok)
<1>1. x.kind = "none" /\ x.pc \in {"idle", "probed", "result"}
  BY DEF Returned, Idle
<1>2. act' = [act EXCEPT ![a] = x] BY DEF Release, Leave
<1>3. SoundKind(x) /\ ~Locked(x) /\ ~Cleared(x) /\ ~Signing(x)
  BY <1>1 DEF SoundKind, Locked, LockedSteps, Cleared, Signing
<1>4. lock' = lock \/ (lock = a /\ lock' = NoActor) BY DEF Release
<1> HIDE DEF x
<1> QED BY <1>2, <1>3, <1>4, OneMoves

\* A goroutine that leaves the lock leaves the others apart.
LEMMA OneLeaves ==
    ASSUME TypeOK, Apart, NEW a \in Actors, NEW x, act' = [act EXCEPT ![a] = x],
           x.kind \in {"none", "session", "deep", "probe"},
           x.pc \in Steps \ LockedSteps,
           lock' = lock, rateLimited' = rateLimited
    PROVE  Apart' /\ Unlimited
<1>1. SoundKind(x) /\ ~Locked(x) /\ ~Cleared(x) /\ ~Signing(x)
  BY DEF SoundKind, Locked, LockedSteps, Cleared, Signing
<1> QED BY <1>1, OneMoves

(* A step that moves no check, and neither the lock nor the latch.         *)
LEMMA NoneMoves ==
    ASSUME Apart, UNCHANGED checking PROVE Apart' /\ Unlimited
BY DEF checking, Apart, Unlimited

\* No step of a check brings two under the lock.
LEMMA CheckApart ==
    ASSUME TypeOK, Apart, NEW a \in Actors, CheckStep(a)
    PROVE  Apart' /\ Unlimited
<1> DEFINE c == act[a]
<1>0. /\ c \in Check /\ act \in Calls /\ SoundKind(c)
      /\ Locked(c) => lock = a
      /\ Cleared(c) => ~rateLimited
  BY DEF TypeOK, Apart, Calls
<1> USE DEF LockedSteps
<1>1. CASE Enter(a)
  <2> DEFINE x == IF rateLimited THEN Returned(a, FALSE) ELSE [c EXCEPT !.pc = "try"]
  <2>1. act' = [act EXCEPT ![a] = x] /\ UNCHANGED <<lock, rateLimited>>
    BY <1>0, <1>1 DEF Enter, Leave, Goto, Calls
  <2>2. x.kind \in {"none", "session", "deep", "probe"} /\ x.pc \in Steps \ LockedSteps
    BY <1>0, <1>1 DEF Enter, SoundKind, Returned, Idle, Check, Kinds, Steps, LoopSteps
  <2> QED BY <2>1, <2>2, OneLeaves
<1>2. CASE Busy(a)
  <2> DEFINE x == IF a \in Loops /\ c.kind = "deep" THEN Idle("wait") ELSE Returned(a, FALSE)
  <2>1. act' = [act EXCEPT ![a] = x] /\ UNCHANGED <<lock, rateLimited>>
    BY <1>2 DEF Busy, Leave
  <2>2. x.kind \in {"none", "session", "deep", "probe"} /\ x.pc \in Steps \ LockedSteps
    BY DEF Returned, Idle, Steps, LoopSteps
  <2> QED BY <2>1, <2>2, OneLeaves
<1>3. CASE TryLock(a)
  <2> DEFINE x == [c EXCEPT !.pc = "recheck"]
  <2>1. /\ act' = [act EXCEPT ![a] = x] /\ lock = NoActor /\ lock' = a
        /\ rateLimited' = rateLimited
    BY <1>0, <1>3 DEF TryLock, Goto, Calls
  <2>2. SoundKind(x) /\ ~Cleared(x) /\ ~Signing(x)
    BY <1>0, <1>3 DEF TryLock, SoundKind, Cleared, Signing, Check
  <2> QED BY <2>1, <2>2, OneMoves
<1>4. CASE Recheck(a)
  <2>1. CASE rateLimited
    BY <1>4, <2>1, OneReturns DEF Recheck
  <2>2. CASE ~rateLimited
    <3> DEFINE x == [c EXCEPT !.pc = "read"]
    <3>1. act' = [act EXCEPT ![a] = x] /\ UNCHANGED <<lock, rateLimited>>
      BY <1>0, <1>4, <2>2 DEF Recheck, Goto, Calls
    <3>2. SoundKind(x) /\ ~Signing(x) /\ lock = a
      BY <1>0, <1>4 DEF Recheck, SoundKind, Locked, Signing, Check
    <3> QED BY <2>2, <3>1, <3>2, OneMoves
  <2> QED BY <2>1, <2>2
<1>5. CASE ReadEntry(a)
  <2>0. c.pc = "read" /\ c.kind # "quick" /\ lock = a /\ ~rateLimited
        /\ rateLimited' = rateLimited
    BY <1>0, <1>5 DEF ReadEntry, SoundKind, Locked, Cleared
  <2>1. CASE Readable(c.id) /\ Eligible(c.kind, doc[c.id])
    <3> DEFINE r == [credential |-> doc[c.id].credential, token |-> doc[c.id].token,
                     failing |-> doc[c.id].failing]
               x == [c EXCEPT !.pc = "fetch", !.read = r]
    <3>1. act' = [act EXCEPT ![a].pc = "fetch", ![a].read = r] /\ lock' = lock
      BY <1>5, <2>1 DEF ReadEntry
    <3> HIDE DEF r
    <3>2. act' = [act EXCEPT ![a] = x] BY <1>0, <3>1 DEF Calls
    <3>3. SoundKind(x) /\ ~Signing(x)
      BY <1>0, <2>0 DEF SoundKind, Signing, Check
    <3> QED BY <2>0, <3>1, <3>2, <3>3, OneMoves
  <2>2. CASE ~(Readable(c.id) /\ Eligible(c.kind, doc[c.id]))
    BY <1>5, <2>0, <2>2, OneReturns DEF ReadEntry
  <2> QED BY <2>1, <2>2
<1>6. ASSUME NEW limited \in BOOLEAN, Fetch(a, limited) PROVE Apart' /\ Unlimited
  <2> DEFINE r == [NewReport EXCEPT !.limited = limited]
             x == [c EXCEPT !.pc = "keep", !.rep = r, !.saw = limited]
  <2>1. /\ act' = [act EXCEPT ![a].pc = "keep", ![a].rep = r, ![a].saw = limited]
        /\ UNCHANGED <<lock, rateLimited>>
        /\ c.pc = "fetch"
    BY <1>6 DEF Fetch
  <2> HIDE DEF r
  <2>2. act' = [act EXCEPT ![a] = x] BY <1>0, <2>1 DEF Calls
  <2>3. x.pc = "keep" /\ x.kind = c.kind BY <1>0 DEF Check
  <2> HIDE DEF x
  <2>4. SoundKind(x) /\ ~Signing(x) BY <2>3 DEF SoundKind, Signing
  <2>5. Locked(x) => lock = a BY <1>0, <2>1, <2>3 DEF Locked
  <2>6. Cleared(x) => ~rateLimited BY <1>0, <2>1, <2>3 DEF Cleared
  <2> QED BY <2>1, <2>2, <2>4, <2>5, <2>6, OneMoves
<1>7. ASSUME NEW limited \in BOOLEAN, FetchForSession(a, limited)
      PROVE  Apart' /\ Unlimited
  <2>0. /\ c.pc = "fetch" /\ c.kind \in {"session", "probe"}
        /\ Locked(c) /\ lock = a /\ ~rateLimited
        /\ rateLimited' = (rateLimited \/ limited)
    BY <1>0, <1>7 DEF FetchForSession, Locked, Cleared
  <2>1. CASE ~limited /\ c.read.token
    <3> DEFINE x == [c EXCEPT !.pc = "sign-in"]
    <3>1. act' = [act EXCEPT ![a] = x] /\ lock' = lock
      BY <1>0, <1>7, <2>1 DEF FetchForSession, Goto, Calls
    <3>2. SoundKind(x) /\ ~Cleared(x)
      BY <1>0, <2>0 DEF SoundKind, Cleared, Check
    <3>3. ~rateLimited' BY <2>0, <2>1
    <3> QED BY <2>0, <3>1, <3>2, <3>3, OneMoves
  <2>2. CASE ~(~limited /\ c.read.token) /\ c.kind = "probe"
    BY <1>7, <2>0, <2>2, OneReturns DEF FetchForSession
  <2>3. CASE ~(~limited /\ c.read.token) /\ c.kind # "probe"
    <3> DEFINE r == [NewReport EXCEPT !.session = "unknown", !.limited = limited]
               x == [c EXCEPT !.pc = "keep", !.saw = limited, !.rep = r]
    <3>1. /\ act' = [act EXCEPT ![a].pc = "keep", ![a].saw = limited, ![a].rep = r]
          /\ lock' = lock
      BY <1>7, <2>3 DEF FetchForSession
    <3> HIDE DEF r
    <3>2. act' = [act EXCEPT ![a] = x] BY <1>0, <3>1 DEF Calls
    <3>3. x.pc = "keep" /\ x.kind = c.kind BY <1>0 DEF Check
    <3> HIDE DEF x
    <3>4. SoundKind(x) /\ ~Signing(x) /\ ~Cleared(x)
      BY <2>0, <3>3 DEF SoundKind, Signing, Cleared
    <3> QED BY <2>0, <3>1, <3>2, <3>4, OneMoves
  <2> QED BY <2>1, <2>2, <2>3
<1>8. CASE FetchNothing(a)
  BY <1>8, OneReturns DEF FetchNothing
<1>9. CASE KeepReport(a)
  <2>0. c.pc = "keep" /\ rateLimited' = rateLimited BY <1>9 DEF KeepReport
  <2>1. CASE c.kind = "deep"
    <3> DEFINE x == [c EXCEPT !.pc = "reread"]
    <3>1. act' = [act EXCEPT ![a] = x] /\ lock' = lock
      BY <1>0, <1>9, <2>1 DEF KeepReport, Goto, Calls
    <3>2. SoundKind(x) /\ ~Signing(x) BY <1>0, <2>1 DEF SoundKind, Signing, Check
    <3>3. lock = a /\ ~rateLimited BY <1>0, <2>0, <2>1 DEF Locked, Cleared
    <3> QED BY <2>0, <3>1, <3>2, <3>3, OneMoves
  <2>2. CASE c.kind # "deep"
    BY <1>9, <2>0, <2>2, OneReturns DEF KeepReport
  <2> QED BY <2>1, <2>2
<1>10. CASE Reread(a)
  <2> DEFINE r == IF Readable(c.id) THEN doc[c.id].health ELSE c.rep
  <2>0. c.pc = "reread" /\ Locked(c) /\ lock = a /\ ~rateLimited
    BY <1>0, <1>10 DEF Reread, SoundKind, Locked, Cleared
  <2>1. rateLimited' = (rateLimited \/ r.limited) BY <1>10 DEF Reread
  <2>2. CASE r.limited
    <3>1. Release(a, FALSE) BY <1>10, <2>2 DEF Reread
    <3>2. rateLimited' = TRUE BY <2>1, <2>2
    <3> QED BY <2>0, <3>1, <3>2, OneReturns
  <2>3. CASE ~r.limited
    <3>1. act' = [act EXCEPT ![a].pc = "login", ![a].rep = r] /\ lock' = lock
      BY <1>10, <2>3 DEF Reread
    <3>2. rateLimited' = FALSE BY <2>0, <2>1, <2>3
    <3> HIDE DEF r
    <3> DEFINE x == [c EXCEPT !.pc = "login", !.rep = r]
    <3>3. act' = [act EXCEPT ![a] = x] BY <1>0, <3>1 DEF Calls
    <3>4. x.pc = "login" /\ x.kind = c.kind BY <1>0 DEF Check
    <3> HIDE DEF x
    <3>5. SoundKind(x) /\ ~Cleared(x)
      BY <2>0, <3>4 DEF SoundKind, Locked, Cleared
    <3> QED BY <2>0, <3>1, <3>2, <3>3, <3>5, OneMoves
  <2> QED BY <2>2, <2>3
<1>11. ASSUME NEW answer \in Answers, Login(a, answer) PROVE Apart' /\ Unlimited
  <2> DEFINE x == act'[a]
  <2>0. c.pc = "login" /\ Locked(c) /\ lock = a /\ lock' = lock
    BY <1>0, <1>11 DEF Login, SoundKind, Locked
  <2>1. act' = [act EXCEPT ![a] = x] BY <1>0, <1>11 DEF Login, Calls
  <2>2. x.pc \in {"store-token", "record"} /\ x.kind = c.kind
    BY <1>0, <1>11 DEF Login, Calls, Check
  <2>3. rateLimited' = (rateLimited \/ answer = "limited") BY <1>11 DEF Login
  <2>i. rateLimited' = rateLimited \/ Locked(c) BY <2>0
  <2> HIDE DEF x
  <2>4. SoundKind(x) /\ ~Cleared(x) /\ ~Signing(x)
    BY <2>0, <2>2 DEF SoundKind, Locked, Cleared, Signing
  <2> QED BY <2>0, <2>1, <2>i, <2>4, OneMoves
<1>12. ASSUME NEW answer \in Answers, SignIn(a, answer) PROVE Apart' /\ Unlimited
  <2> DEFINE x == act'[a]
             status == CASE answer = "session" -> "ok"
                         [] answer = "refused" -> "refused"
                         [] OTHER              -> "unknown"
  <2>0. /\ c.pc = "sign-in" /\ c.kind \in {"session", "probe"}
        /\ Locked(c) /\ lock = a
    BY <1>0, <1>12 DEF SignIn, SoundKind, Locked
  <2>1. CASE c.kind = "probe" /\ status # "ok"
    <3>1. Release(a, FALSE) BY <1>12, <2>1 DEF SignIn
    <3> QED BY <2>0, <3>1, OneReturns
  <2>2. CASE ~(c.kind = "probe" /\ status # "ok")
    <3> DEFINE r == [NewReport EXCEPT !.session = status, !.limited = (answer = "limited")]
               next == IF c.kind = "probe" THEN "skip" ELSE "keep"
    <3>1. act' = [act EXCEPT ![a].pc = next, ![a].rep = r] /\ lock' = lock
      BY <1>12, <2>2 DEF SignIn
    <3>2. next \in {"skip", "keep"} OBVIOUS
    <3> HIDE DEF status, r, next
    <3>3. act' = [act EXCEPT ![a] = x] BY <1>0, <3>1 DEF Calls
    <3>4. x.pc \in {"skip", "keep"} /\ x.kind = c.kind
      BY <1>0, <3>1, <3>2 DEF Calls, Check
    <3> HIDE DEF x
    <3>5. SoundKind(x) /\ ~Cleared(x) /\ ~Signing(x)
      BY <2>0, <3>4 DEF SoundKind, Cleared, Signing
    <3> QED BY <2>0, <3>1, <3>3, <3>5, OneMoves
  <2> QED BY <2>1, <2>2
<1>13. CASE StoreToken(a)
  <2> DEFINE x == act'[a]
  <2>0. Locked(c) /\ lock = a /\ UNCHANGED <<lock, rateLimited>>
    BY <1>0, <1>13 DEF StoreToken, SoundKind, Locked
  <2>1. act' = [act EXCEPT ![a] = x] BY <1>0, <1>13 DEF StoreToken, Calls
  <2>2. x.pc = "record" /\ x.kind = c.kind
    BY <1>0, <1>13 DEF StoreToken, Calls, Check
  <2> HIDE DEF x
  <2>3. SoundKind(x) /\ ~Cleared(x) /\ ~Signing(x)
    BY <2>0, <2>2 DEF SoundKind, Locked, Cleared, Signing
  <2> QED BY <2>0, <2>1, <2>3, OneMoves
<1>14. CASE RecordHealth(a)
  <2> DEFINE x == [c EXCEPT !.pc = "reset-skips"]
  <2>0. Locked(c) /\ lock = a /\ UNCHANGED <<lock, rateLimited>>
    BY <1>0, <1>14 DEF RecordHealth, SoundKind, Locked
  <2>1. act' = [act EXCEPT ![a] = x] BY <1>0, <1>14 DEF RecordHealth, Goto, Calls
  <2>2. SoundKind(x) /\ ~Cleared(x) /\ ~Signing(x)
    BY <1>0, <2>0 DEF SoundKind, Locked, Cleared, Signing, Check
  <2> QED BY <2>0, <2>1, <2>2, OneMoves
<1>15. CASE ResetSessionSkips(a)
  BY <1>15, OneReturns DEF ResetSessionSkips
<1>16. CASE RecordSessionSkip(a)
  BY <1>16, OneReturns DEF RecordSessionSkip
<1> QED BY <1>1, <1>2, <1>3, <1>4, <1>5, <1>6, <1>7, <1>8, <1>9, <1>10, <1>11,
           <1>12, <1>13, <1>14, <1>15, <1>16 DEF CheckStep

\* No step of a loop does.
LEMMA LoopApart ==
    ASSUME TypeOK, Apart, NEW l \in Loops, LoopStep(l)
    PROVE  Apart' /\ Unlimited
<1> DEFINE c == act[l]
<1>0. /\ l \in Actors /\ act \in Calls /\ c \in Check /\ SoundKind(c)
  BY DEF TypeOK, Apart, Calls, Actors
<1> USE DEF LockedSteps
<1>1. ASSUME NEW pc \in {"wait", "idle", "stop"}, Goto(l, pc),
             c.pc \in {"delay", "wait", "settle", "stop"},
             UNCHANGED <<lock, rateLimited>>
      PROVE  Apart' /\ Unlimited
  <2> DEFINE x == [c EXCEPT !.pc = pc]
  <2>1. act' = [act EXCEPT ![l] = x] BY <1>0, <1>1 DEF Goto, Calls
  <2>2. x.kind \in {"none", "session", "deep", "probe"} /\ x.pc \in Steps \ LockedSteps
    BY <1>0, <1>1 DEF SoundKind, Check, Kinds, Steps, LoopSteps
  <2> QED BY <1>0, <1>1, <2>1, <2>2, OneLeaves
<1>2. ASSUME NEW x, act' = [act EXCEPT ![l] = x], UNCHANGED <<lock, rateLimited>>,
             \/ \E pc \in {"settle", "stop"} : x = Idle(pc)
             \/ \E kind \in {"probe", "deep"}, id \in Accounts : x = Entering(kind, id)
      PROVE  Apart' /\ Unlimited
  <2>1. /\ \A pc \in {"settle", "stop"} : Idle(pc).pc = pc /\ Idle(pc).kind = "none"
        /\ \A kind \in {"probe", "deep"}, id \in Accounts :
             Entering(kind, id).pc = "enter" /\ Entering(kind, id).kind = kind
    BY DEF Idle, Entering
  <2>2. x.pc \in {"settle", "stop", "enter"} /\ x.kind \in {"none", "deep", "probe"}
    BY <1>2, <2>1
  <2>3. x.pc \in Steps \ LockedSteps BY <2>2 DEF Steps, LoopSteps
  <2> QED BY <1>0, <1>2, <2>2, <2>3, OneLeaves
<1>3. CASE DelayOver(l) BY <1>1, <1>3 DEF DelayOver
<1>4. CASE LoopEnds(l) BY <1>1, <1>4 DEF LoopEnds
<1>5. ASSUME NEW id \in Accounts, PickDue(l, id) PROVE Apart' /\ Unlimited
  BY <1>2, <1>5 DEF PickDue
<1>6. CASE TickLimited(l) BY <1>1, <1>6 DEF TickLimited
<1>7. CASE AfterProbe(l)
  <2>1. c.id \in Accounts BY <1>0 DEF Check
  <2> QED BY <1>2, <1>7, <2>1 DEF AfterProbe
<1>8. CASE AfterDeepCheck(l) BY <1>2, <1>8 DEF AfterDeepCheck
<1>9. CASE Settle(l) BY <1>1, <1>9 DEF Settle
<1>10. CASE StopForGood(l) BY <1>1, <1>10 DEF StopForGood
<1> QED BY <1>3, <1>4, <1>5, <1>6, <1>7, <1>8, <1>9, <1>10 DEF LoopStep

\* No edit, clock, lock, restart or save does.
LEMMA WorldApart ==
    ASSUME TypeOK, Apart,
           \/ \E s \in Savers : SaverStep(s)
           \/ Clock \/ Unlock \/ Ask \/ Edit \/ Fault
    PROVE  Apart' /\ Unlimited
<1>1. ASSUME NEW s \in Savers, LoadSettings(s) \/ LoadFails(s) \/ SetInterval(s) \/ TurnOff(s) \/ KeepOn(s)
      PROVE  Apart' /\ Unlimited
  BY <1>1, NoneMoves DEF LoadSettings, LoadFails, SetInterval, TurnOff, KeepOn
<1>2. ASSUME NEW s \in Savers, NEW l \in Loops, TurnOn(s, l) PROVE Apart' /\ Unlimited
  <2> DEFINE x == [act[l] EXCEPT !.pc = "delay"]
  <2>1. l \in Actors /\ act[l] \in Check /\ SoundKind(act[l]) /\ act[l].pc = "idle"
    BY <1>2 DEF TurnOn, TypeOK, Apart, Actors
  <2>2. act' = [act EXCEPT ![l] = x] /\ UNCHANGED <<lock, rateLimited>>
    BY <1>2, <2>1 DEF TurnOn, Goto, TypeOK
  <2>3. act[l].kind \in {"none", "session", "deep", "probe"}
    BY <2>1 DEF SoundKind, Check, Kinds
  <2>4. x.pc = "delay" /\ x.kind = act[l].kind BY <2>1 DEF Check
  <2> HIDE DEF x
  <2>5. x.pc \in Steps \ LockedSteps BY <2>4 DEF Steps, LoopSteps, LockedSteps
  <2> QED BY <2>1, <2>2, <2>3, <2>4, <2>5, OneLeaves
<1>3. ASSUME Clock \/ Unlock \/ Edit PROVE Apart' /\ Unlimited
  BY <1>3, NoneMoves DEF Clock, TimePasses, ReportAges, Unlock, Edit, Put, ClearToken, Delete, checking
<1>4. ASSUME NEW u \in Users, NEW kind \in UserKinds, NEW id \in Accounts,
             UserCheck(u, kind, id)
      PROVE  Apart' /\ Unlimited
  <2>0. u \in Actors /\ kind \in {"quick", "session", "deep"}
    BY KindsAssumption DEF Actors
  <2>1. CASE kind = "quick"
    <3> DEFINE x == [Entering(kind, id) EXCEPT !.pc = "fetch"]
    <3>1. act' = [act EXCEPT ![u] = x] /\ UNCHANGED <<lock, rateLimited>>
      BY <1>4, <2>1 DEF UserCheck
    <3>2. x.kind = "quick" /\ x.pc = "fetch" BY <2>1 DEF Entering, Idle
    <3> HIDE DEF x
    <3>3. SoundKind(x) /\ ~Locked(x) /\ ~Cleared(x) /\ ~Signing(x)
      BY <3>2 DEF SoundKind, Locked, Cleared, Signing
    <3> QED BY <2>0, <3>1, <3>3, OneMoves
  <2>2. CASE kind # "quick"
    <3> DEFINE x == Entering(kind, id)
    <3>1. act' = [act EXCEPT ![u] = x] /\ UNCHANGED <<lock, rateLimited>>
      BY <1>4, <2>2 DEF UserCheck
    <3>2. x.kind = kind /\ x.pc = "enter" BY DEF Entering, Idle
    <3> HIDE DEF x
    <3>3. x.kind \in {"none", "session", "deep", "probe"} /\ x.pc \in Steps \ LockedSteps
      BY <2>0, <2>2, <3>2 DEF Steps, LockedSteps
    <3> QED BY <2>0, <3>1, <3>3, OneLeaves
  <2> QED BY <2>1, <2>2
<1>5. ASSUME (\E s \in Savers, on \in BOOLEAN : SaveSettings(s, on)) \/ Lock
      PROVE  Apart' /\ Unlimited
  BY <1>5, NoneMoves DEF SaveSettings, Lock
<1>6. ASSUME NEW a \in Actors, WriteFails(a) PROVE Apart' /\ Unlimited
  <2>0. act[a] \in Check /\ SoundKind(act[a]) /\ (Locked(act[a]) => lock = a)
    BY DEF TypeOK, Apart
  <2>1. CASE act[a].pc = "store-token"
    <3> DEFINE x == act'[a]
    <3>1. /\ act' = [act EXCEPT ![a].pc = "record", ![a].rep.session = "absent"]
          /\ UNCHANGED <<lock, rateLimited>>
      BY <1>6, <2>1 DEF WriteFails
    <3>2. act' = [act EXCEPT ![a] = x] BY <3>1 DEF TypeOK
    <3>3. x.pc = "record" /\ x.kind = act[a].kind BY <2>0, <3>1 DEF TypeOK, Check
    <3> HIDE DEF x
    <3>4. SoundKind(x) /\ ~Cleared(x) /\ ~Signing(x) /\ lock = a
      BY <2>0, <2>1, <3>3 DEF SoundKind, Locked, LockedSteps, Cleared, Signing
    <3> QED BY <3>1, <3>2, <3>4, OneMoves
  <2>2. CASE act[a].pc = "keep" /\ act[a].kind = "deep"
    <3>1. Release(a, FALSE) BY <1>6, <2>2 DEF WriteFails
    <3>2. Locked(act[a]) BY <2>2 DEF Locked, LockedSteps
    <3>3. rateLimited' \in BOOLEAN BY <1>6, <2>2 DEF WriteFails, TypeOK, Check, Report
    <3> QED BY <3>1, <3>2, OneReturns
  <2>3. CASE act[a].pc # "store-token" /\ ~(act[a].pc = "keep" /\ act[a].kind = "deep")
    <3>1. Release(a, act[a].pc = "reset-skips") /\ UNCHANGED rateLimited
      BY <1>6, <2>3 DEF WriteFails
    <3> QED BY <3>1, OneReturns
  <2> QED BY <2>1, <2>2, <2>3
<1>7. ASSUME NEW s \in Savers, Restart(s) PROVE Apart' /\ Unlimited
  <2>1. \A a \in Actors : act'[a].pc = "idle" /\ act'[a].kind = "none"
    BY <1>7 DEF Restart, Idle
  <2> QED BY <2>1
          DEF Apart, Unlimited, SoundKind, Locked, LockedSteps, Cleared, Signing
<1> QED BY <1>1, <1>2, <1>3, <1>4, <1>5, <1>6, <1>7 DEF SaverStep, Ask, Fault

\* No step does.
LEMMA StepApart ==
    ASSUME TypeOK, Apart, [Next]_vars PROVE Apart' /\ Unlimited
<1>1. CASE UNCHANGED vars BY <1>1, NoneMoves DEF vars
<1> QED BY <1>1, CheckApart, LoopApart, WorldApart DEF Next, Work

\* At the start nobody is under the lock.
LEMMA InitApart == Init => Apart
<1> SUFFICES ASSUME Init, NEW a \in Actors
             PROVE  SoundKind(act[a]) /\ ~Locked(act[a]) /\ ~Cleared(act[a])
  BY DEF Apart
<1>1. act[a].pc = "idle" /\ act[a].kind = "none" BY DEF Init, Idle
<1> QED BY <1>1 DEF SoundKind, Locked, LockedSteps, Cleared

(* One account in flight: no two checks, the user's or the scheduler's,    *)
(* are ever signing in at once (deepMu, verify.go).                        *)
THEOREM NeverTwoSignIns == Spec => []OneSignIn
<1>1. TypeOK /\ Apart => OneSignIn
  BY DEF OneSignIn, SignsIn, Apart, SoundKind, Locked, LockedSteps
<1>2. TypeOK /\ Apart /\ [Next]_vars => Apart' BY StepApart
<1> QED BY <1>1, <1>2, InitApart, VaultTypeCorrect, PTL DEF Spec

(* Once Steam has rate limited this client no check, whoever waits to      *)
(* start or is on its way, begins a sign-in before a restart.              *)
THEOREM NoneOnceLimited == Spec => NoSignInOnceLimited
<1>1. TypeOK /\ Apart /\ [Next]_vars => Apart' BY StepApart
<1>2. TypeOK /\ Apart /\ [Next]_vars =>
          [\A a \in Actors : ~SignsIn(a) /\ SignsIn(a)' => ~rateLimited']_vars
  BY StepApart DEF Unlimited, Signing, SignsIn
<1> QED BY <1>1, <1>2, InitApart, VaultTypeCorrect, PTL DEF Spec, NoSignInOnceLimited
-----------------------------------------------------------------------------
(* The setting.  With one change of it at a time, a loop that is on its    *)
(* way is the one the handle names or has been cancelled, and what a       *)
(* change carries to the scheduler is what is saved, or "off".             *)

Running ==
    /\ Savers # {}
    /\ \A l \in Loops : act[l].pc # "idle" => l = handle \/ l \in stopped
    /\ \A s \in Savers :
         /\ saver[s].pc \in {"interval", "handle"} /\ saver[s].on => setting
         /\ saver[s].pc = "handle" => interval = saver[s].on
         /\ saver[s].pc = "idle" => /\ interval => setting
                                    /\ ~setting => handle = NoActor

\* A check does not start a loop.
LEMMA CheckStartsNoLoop ==
    ASSUME TypeOK, NEW a \in Actors, CheckStep(a) \/ WriteFails(a)
    PROVE  /\ \A b \in Actors : act'[b].pc # "idle" => act[b].pc # "idle"
           /\ UNCHANGED <<setting, schedule>>
<1>1. act[a].pc # "idle" /\ \A b \in Actors \ {a} : act'[b] = act[b]
  BY DEF TypeOK, CheckStep, Enter, Busy, TryLock, Recheck, ReadEntry, Fetch, FetchForSession,
         FetchNothing, KeepReport, Reread, Login, SignIn, StoreToken, RecordHealth,
         ResetSessionSkips, RecordSessionSkip, WriteFails, Goto, Leave, Release
<1>2. UNCHANGED <<setting, schedule>>
  BY DEF CheckStep, Enter, Busy, TryLock, Recheck, ReadEntry, Fetch, FetchForSession,
         FetchNothing, KeepReport, Reread, Login, SignIn, StoreToken, RecordHealth,
         ResetSessionSkips, RecordSessionSkip, WriteFails
<1> QED BY <1>1, <1>2

\* Each step keeps it.
LEMMA StepRunning ==
    ASSUME \A r, s \in Savers : r = s, TypeOK, Running, [Next]_vars
    PROVE  Running'
<1>0. \A l \in Loops : l # NoActor /\ l \in Actors
  BY NoActorAssumption DEF Actors
<1>1. ASSUME NEW a \in Actors, CheckStep(a) \/ WriteFails(a) PROVE Running'
  BY <1>0, <1>1, CheckStartsNoLoop DEF Running, schedule
<1>2. ASSUME NEW l \in Loops, LoopStep(l), ~StopForGood(l) PROVE Running'
  <2>1. /\ act[l].pc # "idle" /\ \A b \in Actors \ {l} : act'[b] = act[b]
        /\ UNCHANGED <<setting, schedule>>
    BY <1>0, <1>2 DEF TypeOK, LoopStep, DelayOver, LoopEnds, PickDue, TickLimited, AfterProbe,
         AfterDeepCheck, Settle, Goto
  <2> QED BY <1>0, <2>1 DEF Running, schedule
<1>3. ASSUME NEW l \in Loops, StopForGood(l) PROVE Running'
  <2>1. /\ act'[l].pc = "idle" /\ \A b \in Actors \ {l} : act'[b] = act[b]
        /\ handle' = NoActor /\ UNCHANGED <<setting, interval, saver>>
        /\ stopped \subseteq stopped' /\ (handle # NoActor => handle \in stopped')
    BY <1>0, <1>3 DEF TypeOK, Check, StopForGood, StopHandle, Goto
  <2> QED BY <1>0, <2>1 DEF Running
<1>4. ASSUME NEW s \in Savers, SaverStep(s) \/ LoadFails(s) PROVE Running'
  <2>0. \A r \in Savers : r = s OBVIOUS
  <2>1. CASE LoadSettings(s) \/ LoadFails(s) \/ SetInterval(s) \/ KeepOn(s)
    BY <1>4, <2>0, <2>1
    DEF Running, TypeOK, LoadSettings, LoadFails, SetInterval, KeepOn, checking
  <2>2. CASE TurnOff(s)
    BY <1>0, <2>0, <2>2 DEF Running, TypeOK, TurnOff, StopHandle, checking
  <2>3. ASSUME NEW l \in Loops, TurnOn(s, l) PROVE Running'
    BY <1>0, <2>0, <2>3 DEF Running, TypeOK, TurnOn, Goto
  <2> QED BY <1>4, <2>1, <2>2, <2>3 DEF SaverStep
<1>5. ASSUME Clock \/ Unlock \/ Lock \/ Edit PROVE Running'
  <2>1. UNCHANGED <<setting, schedule, act>>
    BY <1>5 DEF Clock, TimePasses, ReportAges, Unlock, Lock, Edit, Put, ClearToken, Delete,
                checking
  <2> QED BY <2>1 DEF Running, schedule
<1>6. ASSUME NEW u \in Users, NEW kind \in UserKinds, NEW id \in Accounts,
             UserCheck(u, kind, id)
      PROVE  Running'
  BY <1>0, <1>6, ActorsAssumption DEF Running, TypeOK, UserCheck, schedule
<1>7. ASSUME NEW s \in Savers, NEW on \in BOOLEAN, SaveSettings(s, on) PROVE Running'
  BY <1>7 DEF Running, TypeOK, SaveSettings, checking
<1>8. ASSUME NEW s \in Savers, Restart(s) PROVE Running'
  <2>1. \A a \in Actors : act'[a].pc = "idle"
    BY <1>8 DEF Restart, Idle
  <2>2. \A r \in Savers : saver'[r] = [pc |-> "load", on |-> FALSE]
    BY <1>8 DEF Restart
  <2> QED BY <1>0, <1>8, <2>1, <2>2 DEF Running
<1>9. CASE UNCHANGED vars
  BY <1>9 DEF Running, vars, checking, schedule
<1> QED
  BY <1>1, <1>2, <1>3, <1>4, <1>5, <1>6, <1>7, <1>8, <1>9 DEF Next, Work, Ask, Fault

(* Switched off and with no change in progress, the scheduler has no loop  *)
(* left to sign in to anything, and switched on by what is saved alone     *)
(* (vault.ConfigureScheduler); one change of the settings at a time, as the      *)
(* window makes them.                                                      *)
THEOREM SettingHonoured ==
    ASSUME \A r, s \in Savers : r = s PROVE Spec => []SettingIsHonoured
<1>1. Init => Running
  BY NoActorAssumption DEF Init, Running, Idle, Actors
<1>2. TypeOK /\ Running /\ [Next]_vars => Running' BY StepRunning
<1>3. Running => SettingIsHonoured
  BY NoActorAssumption DEF Running, SettingIsHonoured
<1> QED BY <1>1, <1>2, <1>3, VaultTypeCorrect, PTL DEF Spec
-----------------------------------------------------------------------------
(* Verdicts.  While no entry is edited under a check of it, what a check   *)
(* has read of the entry and what it has learned are about the entry as it *)
(* is stored, and the entry it writes back to is one the user wants.       *)

About(id, verdict) == Known(verdict.status) => verdict.of = doc[id].credential

\* A check under way, past the step that found its entry.
Found(c) ==
    \/ c.pc \in LockedSteps \ {"recheck", "read", "fetch"}
    \/ c.pc = "fetch" /\ c.kind # "quick"

Honest(c) ==
    /\ c.kind = "none" => c.pc \notin LockedSteps \cup {"enter", "try"}
    /\ c.pc \in {"reread", "login", "store-token", "record", "reset-skips"}
         => c.kind = "deep"
    /\ c.kind # "none" => About(c.id, c.rep.password)
    /\ c.kind = "deep" /\ c.pc \in {"fetch", "keep", "reread", "login"}
         => c.read.credential = doc[c.id].credential
    /\ Found(c) => doc[c.id].there

Current ==
    /\ \A id \in Accounts : About(id, doc[id].health.password)
    /\ \A id \in Accounts : doc[id].there => id \in wanted
    /\ \A a \in Actors : Honest(act[a])

\* What a draft does to the entry it changes.
LEMMA DraftedAnew ==
    ASSUME NEW e \in Entry, NEW c, NEW renamed
    PROVE  /\ Drafted(e, c, renamed).health.password = NoSignal
           /\ Drafted(e, c, renamed).there = e.there
           /\ Drafted(e, c, renamed).skips = e.skips
           /\ Drafted(e, c, renamed).failing = e.failing
<1> DEFINE s == IF renamed THEN "absent" ELSE e.health.session
           h == [e.health EXCEPT !.password = NoSignal, !.session = s]
<1>1. DOMAIN e = {"there", "credential", "token", "failing", "skips", "due", "health"}
  BY DEF Entry
<1>2. e.health \in Report BY DEF Entry
<1>3. h.password = NoSignal BY <1>2 DEF Report
<1>4. Drafted(e, c, renamed) = [e EXCEPT !.credential = c, !.health = h]
  BY <1>1, <1>2 DEF Drafted, Report
<1> HIDE DEF h
<1>5. /\ [e EXCEPT !.credential = c, !.health = h].health = h
      /\ [e EXCEPT !.credential = c, !.health = h].there = e.there
      /\ [e EXCEPT !.credential = c, !.health = h].skips = e.skips
      /\ [e EXCEPT !.credential = c, !.health = h].failing = e.failing
  BY <1>1
<1> QED BY <1>3, <1>4, <1>5

\* What one step of a check does to the others and to the entries.
LEMMA CheckWrites ==
    ASSUME TypeOK, NEW a \in Actors, CheckStep(a) \/ WriteFails(a)
    PROVE  /\ \A b \in Actors \ {a} : act'[b] = act[b]
           /\ wanted' = wanted
           /\ \A id \in Accounts \ {act[a].id} : doc'[id] = doc[id]
           /\ doc'[act[a].id].credential = doc[act[a].id].credential
           /\ \/ doc'[act[a].id].there = doc[act[a].id].there
              \/ doc'[act[a].id].there /\ act[a].pc \in {"keep", "store-token", "record"}
           /\ \/ doc'[act[a].id].health.password = doc[act[a].id].health.password
              \/ /\ act[a].pc \in LockedSteps
                 /\ doc'[act[a].id].health.password = act[a].rep.password
<1> DEFINE c == act[a]
           e == doc[c.id]
<1>0. /\ c \in Check /\ c.id \in Accounts /\ c.rep \in Report
      /\ e \in Entry /\ e.health \in Report
  BY DEF TypeOK, Check, Entry
<1>1. \A b \in Actors \ {a} : act'[b] = act[b]
  BY DEF TypeOK, CheckStep, Enter, Busy, TryLock, Recheck, ReadEntry, Fetch, FetchForSession,
         FetchNothing, KeepReport, Reread, Login, SignIn, StoreToken, RecordHealth,
         ResetSessionSkips, RecordSessionSkip, WriteFails, Goto, Leave, Release
<1>2. wanted' = wanted
  BY DEF CheckStep, Enter, Busy, TryLock, Recheck, ReadEntry, Fetch, FetchForSession,
         FetchNothing, KeepReport, Reread, Login, SignIn, StoreToken, RecordHealth,
         ResetSessionSkips, RecordSessionSkip, WriteFails, ghosts
<1>3. Carry(c.rep, e.health).password \in {c.rep.password, e.health.password}
  BY <1>0 DEF Carry, Report
<1>4. \/ doc' = doc
      \/ /\ c.pc \in {"keep", "store-token", "record", "reset-skips", "skip"}
         /\ \/ KeepReport(a) \/ StoreToken(a) \/ RecordHealth(a)
            \/ ResetSessionSkips(a) \/ RecordSessionSkip(a)
  BY DEF CheckStep, Enter, Busy, TryLock, Recheck, ReadEntry, Fetch, FetchForSession,
         FetchNothing, KeepReport, Reread, Login, SignIn, StoreToken, RecordHealth,
         ResetSessionSkips, RecordSessionSkip, WriteFails
<1> DEFINE x == doc'[c.id]
           Ends == /\ \A id \in Accounts \ {c.id} : doc'[id] = doc[id]
                   /\ x.credential = e.credential
                   /\ \/ x.there = e.there
                      \/ x.there /\ c.pc \in {"keep", "store-token", "record"}
                   /\ \/ x.health.password = e.health.password
                      \/ x.health.password = c.rep.password
<1>5. doc \in [Accounts -> Entry] BY DEF TypeOK
<1> DEFINE s == Stored(c.id)
<1>15. /\ s \in Entry /\ s.there /\ s.credential = e.credential /\ s.health = e.health
  BY <1>0 DEF Stored, Entry
<1>16. \A r : doc' = [doc EXCEPT ![c.id] = r] =>
                x = r /\ \A id \in Accounts \ {c.id} : doc'[id] = doc[id]
  BY <1>0, <1>5
<1>17. \A r \in Entry : \A h, u, v :
         /\ [r EXCEPT !.health = h].credential = r.credential
         /\ [r EXCEPT !.health = h].health = h
         /\ [r EXCEPT !.health = h].there = r.there
         /\ [r EXCEPT !.skips = u].credential = r.credential
         /\ [r EXCEPT !.skips = u].there = r.there
         /\ [r EXCEPT !.skips = u].health = r.health
         /\ [r EXCEPT !.token = u, !.health = h].credential = r.credential
         /\ [r EXCEPT !.token = u, !.health = h].health = h
         /\ [r EXCEPT !.token = u, !.health = h].there = r.there
         /\ [r EXCEPT !.health = h, !.failing = u, !.due = v].credential = r.credential
         /\ [r EXCEPT !.health = h, !.failing = u, !.due = v].health = h
         /\ [r EXCEPT !.health = h, !.failing = u, !.due = v].there = r.there
         /\ [r EXCEPT !.health = h, !.skips = u, !.due = v].credential = r.credential
         /\ [r EXCEPT !.health = h, !.skips = u, !.due = v].there = r.there
         /\ [r EXCEPT !.health = h, !.skips = u, !.due = v].health = h
  BY DEF Entry
<1>6. ASSUME KeepReport(a) PROVE Ends
  <2>1. doc' = [doc EXCEPT ![c.id] = [s EXCEPT !.health = Carry(c.rep, s.health)]]
        /\ c.pc = "keep"
    BY <1>6 DEF KeepReport
  <2> HIDE DEF x, s
  <2>2. x = [s EXCEPT !.health = Carry(c.rep, s.health)] BY <1>16, <2>1
  <2>3. x.there = s.there /\ x.credential = s.credential /\ x.health = Carry(c.rep, s.health)
    BY <1>15, <1>17, <2>2
  <2> QED BY <1>3, <1>15, <1>16, <2>1, <2>3
<1>7. ASSUME StoreToken(a) PROVE Ends
  <2>1. doc' = [doc EXCEPT ![c.id] =
                  [s EXCEPT !.token = TRUE, !.health = [s.health EXCEPT !.session = "absent"]]]
        /\ c.pc = "store-token"
    BY <1>15, <1>7 DEF StoreToken, Entry
  <2> HIDE DEF x, s
  <2>2. x = [s EXCEPT !.token = TRUE, !.health = [s.health EXCEPT !.session = "absent"]]
    BY <1>16, <2>1
  <2> DEFINE h == [s.health EXCEPT !.session = "absent"]
  <2>h. x = [s EXCEPT !.token = TRUE, !.health = h] BY <2>2
  <2> HIDE DEF h
  <2>i. s \in Entry BY <1>15
  <2>3. x.there = s.there /\ x.credential = s.credential /\ x.health = h
    BY <1>17, <2>h, <2>i
  <2>4. x.health.password = s.health.password
    BY <1>0, <1>15, <2>3 DEF Report, h
  <2> QED BY <1>15, <1>16, <2>1, <2>3, <2>4
<1>8. ASSUME RecordHealth(a) PROVE Ends
  <2> DEFINE failed == c.rep.password.status # "ok"
  <2>1. doc' = [doc EXCEPT ![c.id] =
                  [s EXCEPT !.health = Carry(c.rep, s.health), !.failing = failed,
                            !.due = FALSE]]
        /\ c.pc = "record"
    BY <1>8 DEF RecordHealth
  <2> HIDE DEF x, s, failed
  <2> DEFINE h == Carry(c.rep, s.health)
  <2>2. x = [s EXCEPT !.health = h, !.failing = failed, !.due = FALSE]
    BY <1>16, <2>1
  <2> HIDE DEF h
  <2>i. s \in Entry BY <1>15
  <2>3. x.there = s.there /\ x.credential = s.credential /\ x.health = h
    BY <1>17, <2>2, <2>i
  <2> QED BY <1>3, <1>15, <1>16, <2>1, <2>3 DEF h
<1>9. ASSUME ResetSessionSkips(a) PROVE Ends
  <2>1. doc' = doc \/ doc' = [doc EXCEPT ![c.id] = [e EXCEPT !.skips = 0]]
    BY <1>9 DEF ResetSessionSkips
  <2>2. CASE doc' = [doc EXCEPT ![c.id] = [e EXCEPT !.skips = 0]]
    <3> HIDE DEF x
    <3>1. x = [e EXCEPT !.skips = 0] BY <1>16, <2>2
    <3>2. x.credential = e.credential /\ x.there = e.there /\ x.health = e.health
      BY <1>0, <1>17, <3>1
    <3> QED BY <1>16, <2>2, <3>2
  <2> QED BY <2>1, <2>2
<1>10. ASSUME RecordSessionSkip(a) PROVE Ends
  <2>1. doc' = doc \/ doc' = [doc EXCEPT ![c.id] =
                  [e EXCEPT !.health = Carry(c.rep, e.health), !.skips = e.skips + 1,
                            !.due = FALSE]]
    BY <1>10 DEF RecordSessionSkip
  <2>2. CASE doc' # doc
    <3> HIDE DEF x
    <3>1. x = [e EXCEPT !.health = Carry(c.rep, e.health), !.skips = e.skips + 1, !.due = FALSE]
      BY <1>16, <2>1, <2>2
    <3>2. x.credential = e.credential /\ x.there = e.there /\ x.health = Carry(c.rep, e.health)
      BY <1>0, <1>17, <3>1
    <3> QED BY <1>3, <1>16, <2>1, <2>2, <3>2
  <2> QED BY <2>2
<1>11. ASSUME doc' = doc PROVE Ends BY <1>11
<1>12. Ends BY <1>4, <1>6, <1>7, <1>8, <1>9, <1>10, <1>11
<1>13. doc' = doc \/ c.pc \in LockedSteps BY <1>4 DEF LockedSteps
<1> HIDE DEF x
<1>14. \/ x.health.password = e.health.password
       \/ c.pc \in LockedSteps /\ x.health.password = c.rep.password
  BY <1>12, <1>13 DEF x
<1> QED BY <1>1, <1>2, <1>12, <1>14 DEF x

\* What the check itself becomes.
LEMMA CheckHonest ==
    ASSUME TypeOK, Apart, Current, NEW a \in Actors, CheckStep(a) \/ WriteFails(a)
    PROVE  Honest(act[a])'
<1> DEFINE c == act[a]
           x == act'[a]
           e == doc[c.id]
           Candid ==
             /\ x.kind = "none" => x.pc \notin LockedSteps \cup {"enter", "try"}
             /\ x.pc \in {"reread", "login", "store-token", "record", "reset-skips"}
                  => x.kind = "deep"
             /\ x.kind # "none" /\ Known(x.rep.password.status)
                  => x.rep.password.of = doc'[x.id].credential
             /\ x.kind = "deep" /\ x.pc \in {"fetch", "keep", "reread", "login"}
                  => x.read.credential = doc'[x.id].credential
             /\ Found(x) => doc'[x.id].there
<1> SUFFICES Candid BY DEF Honest, About
<1>0. /\ c \in Check /\ c.id \in Accounts /\ c.rep \in Report /\ SoundKind(c) /\ Honest(c)
      /\ e \in Entry /\ e.health \in Report /\ act \in [Actors -> Check]
      /\ doc'[c.id].credential = e.credential /\ About(c.id, e.health.password)
  BY CheckWrites DEF TypeOK, Check, Entry, Current, Apart
<1> USE DEF LockedSteps, Known, Found
<1>1. ASSUME NEW ok \in BOOLEAN, Leave(a, ok) PROVE Candid
  <2>1. x.kind = "none" /\ x.pc \in {"idle", "probed", "result"}
    BY <1>0, <1>1 DEF Leave, Returned, Idle
  <2> QED BY <2>1 DEF Honest
<1>2. ASSUME doc' = doc, NEW pc \in Steps, Goto(a, pc), ~Found([c EXCEPT !.pc = pc]) \/ e.there,
             c.kind # "none",
             pc \in {"reread", "login", "store-token", "record", "reset-skips"} => c.kind = "deep",
             c.kind = "deep" /\ pc \in {"fetch", "keep", "reread", "login"}
               => c.read.credential = e.credential
      PROVE  Candid
  <2>1. x = [c EXCEPT !.pc = pc] BY <1>0, <1>2 DEF Goto
  <2> QED BY <1>0, <1>2, <2>1 DEF Honest, About, Check
<1>3. CASE Enter(a)
  <2>1. CASE Leave(a, FALSE) BY <1>1, <2>1
  <2>2. CASE Goto(a, "try")
    <3>1. x = [c EXCEPT !.pc = "try"] BY <1>0, <2>2 DEF Goto
    <3>2. x.pc = "try" /\ x.kind = c.kind /\ x.id = c.id /\ x.rep = c.rep
      BY <1>0, <3>1 DEF Check
    <3>3. c.pc = "enter" /\ doc' = doc BY <1>3 DEF Enter
    <3> HIDE DEF x
    <3> QED BY <1>0, <3>2, <3>3 DEF Honest, About
  <2> QED BY <1>3, <2>1, <2>2 DEF Enter
<1>4. CASE Busy(a)
  <2>1. CASE Leave(a, FALSE) BY <1>1, <2>1
  <2>2. CASE act' = [act EXCEPT ![a] = Idle("wait")]
    <3>1. x.kind = "none" /\ x.pc = "wait" BY <1>0, <2>2 DEF Idle
    <3> QED BY <3>1 DEF Honest
  <2> QED BY <1>4, <2>1, <2>2 DEF Busy
<1>5. CASE TryLock(a) \/ Recheck(a)
  BY <1>0, <1>1, <1>2, <1>5 DEF TryLock, Recheck, Release, Steps, Honest, Check
<1>6. CASE ReadEntry(a)
  <2>1. CASE Readable(c.id) /\ Eligible(c.kind, e)
    <3>1. x = [c EXCEPT !.pc = "fetch", !.read = [credential |-> e.credential,
                                       token |-> e.token, failing |-> e.failing]]
      BY <1>0, <1>6, <2>1 DEF ReadEntry
    <3>2. x.pc = "fetch" /\ x.kind = c.kind /\ x.id = c.id /\ x.rep = c.rep
          /\ x.read.credential = e.credential /\ c.kind # "none" /\ doc' = doc /\ e.there
      BY <1>0, <1>6, <2>1, <3>1 DEF Check, Honest, ReadEntry, Readable
    <3> HIDE DEF x
    <3> QED BY <1>0, <3>2 DEF Honest, About
  <2>2. CASE ~(Readable(c.id) /\ Eligible(c.kind, e))
    BY <1>1, <1>6, <2>2 DEF ReadEntry, Release
  <2> QED BY <2>1, <2>2
<1>7. ASSUME NEW limited \in BOOLEAN, Fetch(a, limited) PROVE Candid
  <2>1. x = [c EXCEPT !.pc = "keep", !.saw = limited,
                      !.rep = [NewReport EXCEPT !.limited = limited]]
    BY <1>0, <1>7 DEF Fetch, Check
  <2>2. x.pc = "keep" /\ x.kind = c.kind /\ x.id = c.id /\ x.read = c.read
        /\ x.rep.password.status = "absent" /\ c.kind \in {"quick", "deep"}
        /\ c.pc = "fetch" /\ doc' = doc /\ e.there
    BY <1>0, <1>7, <2>1 DEF Check, Fetch, Readable, NewReport, NoReport, NoSignal
  <2> HIDE DEF x
  <2> QED BY <1>0, <2>2 DEF Honest, About
<1>8. ASSUME NEW limited \in BOOLEAN, FetchForSession(a, limited) PROVE Candid
  <2>0. c.pc = "fetch" /\ c.kind \in {"session", "probe"} /\ doc' = doc /\ e.there
    BY <1>0, <1>8 DEF FetchForSession, Honest
  <2>1. CASE Goto(a, "sign-in")
    BY <1>0, <1>2, <2>0, <2>1 DEF Steps
  <2>2. CASE Release(a, FALSE) BY <1>1, <2>2 DEF Release
  <2>3. CASE act' = [act EXCEPT ![a].pc = "keep", ![a].saw = limited,
                     ![a].rep = [NewReport EXCEPT !.session = "unknown", !.limited = limited]]
    <3>1. x.pc = "keep" /\ x.kind = c.kind /\ x.id = c.id
          /\ x.rep.password.status = "absent"
      BY <1>0, <2>3 DEF Check, NewReport, NoReport, NoSignal
    <3> HIDE DEF x
    <3> QED BY <1>0, <2>0, <3>1 DEF Honest, About
  <2> QED BY <1>8, <2>1, <2>2, <2>3 DEF FetchForSession
<1>9. CASE FetchNothing(a)
  BY <1>1, <1>9 DEF FetchNothing, Release
<1>10. CASE KeepReport(a)
  <2>1. CASE c.kind # "deep" BY <1>1, <1>10, <2>1 DEF KeepReport, Release
  <2>2. CASE c.kind = "deep"
    <3>1. c.pc = "keep" /\ x = [c EXCEPT !.pc = "reread"]
      BY <1>0, <1>10, <2>2 DEF KeepReport, Goto
    <3>2. x.pc = "reread" /\ x.kind = "deep" /\ x.id = c.id /\ x.rep = c.rep /\ x.read = c.read
      BY <1>0, <2>2, <3>1 DEF Check
    <3>3. doc'[c.id].there
      BY <1>0, <1>10, CheckWrites DEF KeepReport, Stored, TypeOK, Entry
    <3> HIDE DEF x
    <3> QED BY <1>0, <2>2, <3>1, <3>2, <3>3 DEF Honest, About
  <2> QED BY <2>1, <2>2
<1>11. CASE Reread(a)
  <2> DEFINE rep == IF Readable(c.id) THEN e.health ELSE c.rep
  <2>0. c.pc = "reread" /\ doc' = doc BY <1>11 DEF Reread
  <2>1. CASE rep.limited BY <1>1, <1>11, <2>1 DEF Reread, Release
  <2>2. CASE ~rep.limited
    <3>1. act' = [act EXCEPT ![a].pc = "login", ![a].rep = rep]
      BY <1>11, <2>2 DEF Reread
    <3>2. About(c.id, rep.password) BY <1>0, <2>0 DEF Honest
    <3> HIDE DEF rep
    <3>3. x.pc = "login" /\ x.kind = c.kind /\ x.id = c.id /\ x.rep = rep /\ x.read = c.read
      BY <1>0, <3>1 DEF Check
    <3> HIDE DEF x
    <3> QED BY <1>0, <2>0, <3>2, <3>3 DEF Honest, About
  <2> QED BY <2>1, <2>2
<1>12. ASSUME NEW answer \in Answers, Login(a, answer) PROVE Candid
  <2>1. PICK status \in Results :
          act' = [act EXCEPT
            ![a].rep = [c.rep EXCEPT
                 !.password = [status |-> status, of |-> c.read.credential],
                 !.limited  = @ \/ answer = "limited"],
            ![a].pc = IF answer = "session" THEN "store-token" ELSE "record"]
    BY <1>12 DEF Login, Results
  <2>2. x.pc \in {"store-token", "record"} /\ x.kind = c.kind /\ x.id = c.id
        /\ x.rep.password.of = c.read.credential
    BY <1>0, <2>1 DEF Check, Report
  <2>3. c.pc = "login" /\ doc' = doc BY <1>12 DEF Login
  <2> HIDE DEF x
  <2> QED BY <1>0, <2>2, <2>3 DEF Honest, About
<1>13. ASSUME NEW answer \in Answers, SignIn(a, answer) PROVE Candid
  <2>0. c.pc = "sign-in" /\ doc' = doc /\ c.kind \in {"session", "probe"}
    BY <1>0, <1>13 DEF SignIn, SoundKind
  <2>1. CASE Release(a, FALSE) BY <1>1, <2>1 DEF Release
  <2>2. CASE \E status \in Results : act' =
               [act EXCEPT ![a].pc = IF c.kind = "probe" THEN "skip" ELSE "keep",
                  ![a].rep = [NewReport EXCEPT !.session = status,
                                               !.limited = (answer = "limited")]]
    <3>1. x.pc \in {"skip", "keep"} /\ x.kind = c.kind /\ x.id = c.id
          /\ x.rep.password.status = "absent"
      BY <1>0, <2>2 DEF Check, NewReport, NoReport, NoSignal
    <3> HIDE DEF x
    <3> QED BY <1>0, <2>0, <3>1 DEF Honest, About
  <2> QED BY <1>13, <2>1, <2>2 DEF SignIn, Results
<1>14. CASE StoreToken(a)
  <2>1. x.pc = "record" /\ x.kind = c.kind /\ x.id = c.id
        /\ x.rep.password = c.rep.password /\ c.pc = "store-token"
    BY <1>0, <1>14 DEF StoreToken, Check, Report
  <2>2. doc'[c.id].there
    BY <1>0, <1>14, CheckWrites DEF StoreToken, Stored, TypeOK, Entry
  <2> HIDE DEF x
  <2> QED BY <1>0, <2>1, <2>2 DEF Honest, About
<1>15. CASE RecordHealth(a)
  <2>1. c.pc = "record" /\ x = [c EXCEPT !.pc = "reset-skips"]
    BY <1>0, <1>15 DEF RecordHealth, Goto
  <2>2. x.pc = "reset-skips" /\ x.kind = c.kind /\ x.id = c.id /\ x.rep = c.rep
    BY <1>0, <2>1 DEF Check
  <2>3. doc'[c.id].there
    BY <1>0, <1>15, CheckWrites DEF RecordHealth, Stored, TypeOK, Entry
  <2> HIDE DEF x
  <2> QED BY <1>0, <2>1, <2>2, <2>3 DEF Honest, About
<1>16. CASE ResetSessionSkips(a)
  BY <1>1, <1>16 DEF ResetSessionSkips, Release
<1>17. CASE RecordSessionSkip(a)
  BY <1>1, <1>17 DEF RecordSessionSkip, Release
<1>18. CASE WriteFails(a)
  <2>1. CASE c.pc = "store-token"
    <3>1. x.pc = "record" /\ x.kind = c.kind /\ x.id = c.id
          /\ x.rep.password = c.rep.password /\ doc' = doc
      BY <1>0, <1>18, <2>1 DEF WriteFails, Check, Report
    <3> HIDE DEF x
    <3> QED BY <1>0, <2>1, <3>1 DEF Honest, About
  <2>2. CASE c.pc # "store-token"
    BY <1>1, <1>18, <2>2 DEF WriteFails, Release
  <2> QED BY <2>1, <2>2
<1> QED BY <1>3, <1>4, <1>5, <1>6, <1>7, <1>8, <1>9, <1>10, <1>11, <1>12, <1>13,
           <1>14, <1>15, <1>16, <1>17, <1>18 DEF CheckStep

\* A step that moves no check, or puts one outside the lock without a report.
LEMMA OthersCurrent ==
    ASSUME TypeOK, Current, NEW A \in SUBSET Actors,
           \A a \in Actors \ A : act'[a] = act[a],
           \A a \in A : /\ act'[a].pc \notin {"reread", "login", "store-token", "record",
                                              "reset-skips"}
                        /\ ~Found(act'[a])
                        /\ act'[a].kind = "none" => act'[a].pc \notin LockedSteps \cup {"enter", "try"}
                        /\ act'[a].rep.password.status = "absent"
                        /\ act'[a].pc = "fetch" => act'[a].kind = "quick",
           \A id \in Accounts : \/ /\ doc'[id].credential = doc[id].credential
                                   /\ doc'[id].there = doc[id].there
                                   /\ doc'[id].health.password = doc[id].health.password
                                \/ /\ \A a \in Actors : act[a].kind = "none" \/ act[a].id # id
                                   /\ A = {}
                                   /\ doc'[id].health.password.status = "absent",
           \A id \in Accounts : doc'[id].there => id \in wanted'
    PROVE  Current'
<1> USE DEF LockedSteps, Known, Found
<1>1. ASSUME NEW a \in Actors PROVE Honest(act[a])'
  <2>0. act[a].id \in Accounts BY DEF TypeOK, Check
  <2>1. CASE a \in A
    BY <2>1 DEF Honest, About
  <2>2. CASE a \notin A
    <3>1. act'[a] = act[a] /\ Honest(act[a]) BY <2>2 DEF Current
    <3>2. CASE act[a].kind = "none"
      <4>1. ~Found(act[a]) BY <3>1, <3>2 DEF Honest
      <4> QED BY <3>1, <3>2, <4>1 DEF Honest
    <3>3. CASE act[a].kind # "none"
      BY <2>0, <3>1, <3>3 DEF Honest, About
    <3> QED BY <3>2, <3>3
  <2> QED BY <2>1, <2>2
<1>2. \A id \in Accounts : About(id, doc[id].health.password)'
  BY DEF Current, About
<1> QED BY <1>1, <1>2 DEF Current

\* Every step keeps Current while no entry is edited under a check.
LEMMA StepCurrent ==
    ASSUME ~EditsMidCheck, TypeOK, Apart, Current, [Next]_vars
    PROVE  Current'
<1>0. \A l \in Loops : l \in Actors BY DEF Actors
<1>u. \A u \in Users : u \in Actors BY DEF Actors
<1> USE DEF LockedSteps, Known, Found
<1>1. ASSUME NEW a \in Actors, CheckStep(a) \/ WriteFails(a) PROVE Current'
  <2>0. Honest(act[a]) /\ act[a].id \in Accounts BY DEF Current, TypeOK, Check
  <2>1. \A id \in Accounts : About(id, doc[id].health.password)'
    <3>1. act[a].pc \in LockedSteps => About(act[a].id, act[a].rep.password)
      BY <2>0 DEF Honest
    <3>2. /\ \A id \in Accounts \ {act[a].id} : doc'[id] = doc[id]
          /\ doc'[act[a].id].credential = doc[act[a].id].credential
          /\ \/ doc'[act[a].id].health.password = doc[act[a].id].health.password
             \/ /\ act[a].pc \in LockedSteps
                /\ doc'[act[a].id].health.password = act[a].rep.password
      BY <1>1, CheckWrites
    <3>3. \A id \in Accounts : About(id, doc[id].health.password) BY DEF Current
    <3> QED BY <2>0, <3>1, <3>2, <3>3 DEF About
  <2>2. \A id \in Accounts : doc'[id].there => id \in wanted'
    <3>1. act[a].pc \in {"keep", "store-token", "record"} => doc[act[a].id].there
      BY <2>0 DEF Honest
    <3> QED BY <1>1, <2>0, <3>1, CheckWrites DEF Current
  <2>3. ASSUME NEW b \in Actors PROVE Honest(act[b])'
    <3>1. CASE b = a BY <1>1, <3>1, CheckHonest
    <3>2. CASE b # a
      <4>1. act'[b] = act[b] /\ Honest(act[b]) /\ act[b].id \in Accounts
        BY <1>1, <3>2, CheckWrites DEF Current, TypeOK, Check
      <4>2. doc'[act[b].id].credential = doc[act[b].id].credential
        BY <1>1, <4>1, CheckWrites
      <4>3. doc[act[b].id].there => doc'[act[b].id].there
        BY <1>1, <4>1, CheckWrites
      <4> QED BY <4>1, <4>2, <4>3 DEF Honest, About
    <3> QED BY <3>1, <3>2
  <2> QED BY <2>1, <2>2, <2>3 DEF Current
<1>2. ASSUME NEW l \in Loops, LoopStep(l), ~AfterProbe(l), \A id \in Accounts : ~PickDue(l, id)
      PROVE  Current'
  <2>1. /\ UNCHANGED <<doc, wanted>> /\ \A b \in Actors \ {l} : act'[b] = act[b]
        /\ act'[l] = [act[l] EXCEPT !.pc = act'[l].pc] \/ act'[l].kind = "none"
    BY <1>0, <1>2 DEF TypeOK, Check, LoopStep, DelayOver, LoopEnds, TickLimited, AfterDeepCheck,
         Settle, StopForGood, Goto, Idle, ghosts
  <2>2. /\ act'[l].pc \in {"wait", "idle", "stop", "settle"}
        /\ act[l].pc \in LoopSteps
    BY <1>0, <1>2 DEF TypeOK, Check, LoopStep, DelayOver, LoopEnds, TickLimited, AfterDeepCheck,
         Settle, StopForGood, Goto, Idle, LoopSteps
  <2>3. \/ act'[l].rep = act[l].rep /\ act'[l].id = act[l].id /\ act'[l].kind = act[l].kind
        \/ act'[l].kind = "none"
    BY <1>0, <2>1 DEF TypeOK, Check
  <2>4. Honest(act[l])'
    BY <1>0, <2>1, <2>2, <2>3 DEF Current, Honest, About
  <2> QED BY <2>1, <2>4 DEF Current, Honest, About
<1>3. ASSUME NEW l \in Loops, NEW id \in Accounts, PickDue(l, id) PROVE Current'
  <2>1. /\ UNCHANGED <<doc, wanted>> /\ \A b \in Actors \ {l} : act'[b] = act[b]
        /\ act'[l].kind = "probe" /\ act'[l].pc = "enter"
        /\ act'[l].rep.password.status = "absent"
    BY <1>0, <1>3 DEF PickDue, TypeOK, Entering, Idle, NoReport, NoSignal, ghosts
  <2> QED BY <1>0, <2>1, OthersCurrent, {l} \in SUBSET Actors DEF Current
<1>4. ASSUME NEW l \in Loops, AfterProbe(l) PROVE Current'
  <2>1. /\ UNCHANGED <<doc, wanted>> /\ \A b \in Actors \ {l} : act'[b] = act[b]
        /\ act'[l].kind = "none" => act'[l].pc \in {"settle", "stop"}
        /\ act'[l].kind # "none" => act'[l].pc = "enter"
        /\ act'[l].rep.password.status = "absent"
    <3>1. act'[l] \in {Idle("settle"), Idle("stop"), Entering("deep", act[l].id)}
          /\ \A b \in Actors \ {l} : act'[b] = act[b]
      BY <1>0, <1>4 DEF AfterProbe, TypeOK
    <3>2. UNCHANGED <<doc, wanted>> BY <1>4 DEF AfterProbe, ghosts
    <3>3. CASE act'[l] \in {Idle("settle"), Idle("stop")}
      <4>1. /\ act'[l].kind = "none" /\ act'[l].pc \in {"settle", "stop"}
            /\ act'[l].rep.password.status = "absent"
        BY <3>3 DEF Idle, NoReport, NoSignal
      <4> QED BY <3>1, <3>2, <4>1
    <3>4. CASE act'[l] = Entering("deep", act[l].id)
      <4>1. /\ act'[l].kind = "deep" /\ act'[l].pc = "enter"
            /\ act'[l].rep.password.status = "absent"
        BY <3>4 DEF Entering, Idle, NoReport, NoSignal
      <4> QED BY <3>1, <3>2, <4>1
    <3> QED BY <3>1, <3>3, <3>4
  <2>2. act'[l].pc \in {"settle", "stop", "enter"} BY <2>1
  <2> QED BY <1>0, <2>1, <2>2, OthersCurrent, {l} \in SUBSET Actors DEF Current
<1>5. ASSUME NEW s \in Savers, SaverStep(s) \/ LoadFails(s) PROVE Current'
  <2>1. CASE LoadSettings(s) \/ LoadFails(s) \/ SetInterval(s) \/ TurnOff(s) \/ KeepOn(s)
    <3>1. doc' = doc /\ act' = act /\ wanted' = wanted
      BY <2>1 DEF LoadSettings, LoadFails, SetInterval, TurnOff, KeepOn, checking, ghosts
    <3> QED BY <3>1 DEF Current, Honest, About
  <2>2. ASSUME NEW l \in Loops, TurnOn(s, l) PROVE Current'
    <3>1. /\ UNCHANGED <<doc, wanted>> /\ \A b \in Actors \ {l} : act'[b] = act[b]
          /\ act'[l] = [act[l] EXCEPT !.pc = "delay"] /\ act[l].pc = "idle"
      BY <1>0, <2>2 DEF TypeOK, TurnOn, Goto
    <3>2. act'[l].pc = "delay" /\ act'[l].kind = act[l].kind /\ act'[l].rep = act[l].rep
          /\ act'[l].id = act[l].id
      BY <1>0, <3>1 DEF TypeOK, Check
    <3>3. Honest(act[l])' BY <1>0, <3>1, <3>2 DEF Current, Honest, About
    <3>4. ASSUME NEW b \in Actors PROVE Honest(act[b])'
      <4>1. CASE b = l BY <3>3, <4>1
      <4>2. CASE b # l
        <5>1. Honest(act[b]) /\ act'[b] = act[b] /\ doc' = doc
          BY <3>1, <4>2 DEF Current
        <5> QED BY <5>1 DEF Honest, About
      <4> QED BY <4>1, <4>2
    <3>5. doc' = doc /\ wanted' = wanted BY <3>1
    <3> QED BY <3>4, <3>5 DEF Current, About
  <2> QED BY <1>5, <2>1, <2>2 DEF SaverStep
<1>6. ASSUME Clock \/ Edit PROVE Current'
  <2>0. act' = act BY <1>6 DEF Clock, TimePasses, ReportAges, Edit, Put, ClearToken, Delete, checking
  <2>1. ASSUME NEW id \in Accounts, TimePasses(id) \/ ReportAges(id) \/ ClearToken(id)
        PROVE  /\ \A i \in Accounts : /\ doc'[i].credential = doc[i].credential
                                      /\ doc'[i].there = doc[i].there
                                      /\ doc'[i].health.password = doc[i].health.password
               /\ wanted \subseteq wanted'
    <3>0. doc \in [Accounts -> Entry] /\ doc[id] \in Entry /\ doc[id].health \in Report
      BY DEF TypeOK, Entry
    <3>1. /\ wanted \subseteq wanted'
          /\ \E r : /\ doc' = [doc EXCEPT ![id] = r]
                    /\ \/ r = [doc[id] EXCEPT !.due = TRUE]
                       \/ r = [doc[id] EXCEPT !.health =
                                 [doc[id].health EXCEPT !.recent = FALSE]]
                       \/ r = [doc[id] EXCEPT !.token = FALSE, !.health =
                                 [doc[id].health EXCEPT !.session = "absent"]]
      <4>1. CASE TimePasses(id) BY <4>1 DEF TimePasses
      <4>2. CASE ReportAges(id) BY <4>2 DEF ReportAges, ghosts
      <4>3. CASE ClearToken(id)
        <5>1. doc' = [doc EXCEPT ![id] = [doc[id] EXCEPT !.token = FALSE, !.health =
                                           [doc[id].health EXCEPT !.session = "absent"]]]
          BY <3>0, <4>3 DEF ClearToken, Entry
        <5> QED BY <4>3, <5>1 DEF ClearToken
      <4> QED BY <2>1, <4>1, <4>2, <4>3
    <3>2. PICK r : /\ doc' = [doc EXCEPT ![id] = r]
                   /\ \/ r = [doc[id] EXCEPT !.due = TRUE]
                      \/ r = [doc[id] EXCEPT !.health =
                                [doc[id].health EXCEPT !.recent = FALSE]]
                      \/ r = [doc[id] EXCEPT !.token = FALSE, !.health =
                                [doc[id].health EXCEPT !.session = "absent"]]
      BY <3>1
    <3>3. r.credential = doc[id].credential /\ r.there = doc[id].there
          /\ r.health.password = doc[id].health.password
      BY <3>0, <3>2 DEF Entry, Report
    <3>4. doc'[id] = r /\ \A i \in Accounts \ {id} : doc'[i] = doc[i]
      BY <3>0, <3>2
    <3> QED BY <3>1, <3>3, <3>4
  <2>2. ASSUME NEW id \in Accounts, NEW c \in Credentials \cup {NoCredential},
               NEW renamed \in BOOLEAN, Put(id, c, renamed) \/ Delete(id)
        PROVE  /\ \A i \in Accounts \ {id} : doc'[i] = doc[i]
               /\ \A a \in Actors : act[a].kind = "none" \/ act[a].id # id
               /\ doc'[id].health.password.status = "absent"
               /\ \A i \in Accounts \ {id} : i \in wanted => i \in wanted'
               /\ doc'[id].there => id \in wanted'
    <3>1. CASE Put(id, c, renamed)
      <4>1. doc'[id] = IF doc[id].there THEN Drafted(doc[id], c, renamed) ELSE NewEntry(c)
        BY <3>1 DEF Put, TypeOK
      <4>2. Drafted(doc[id], c, renamed).health.password = NoSignal
        BY DraftedAnew DEF TypeOK
      <4>3. NewEntry(c).health.password = NoSignal BY DEF NewEntry, Blank, NoReport
      <4> QED BY <3>1, <4>1, <4>2, <4>3 DEF Put, MayEdit, TypeOK, NoSignal
    <3>2. CASE Delete(id)
      BY <3>2 DEF Delete, MayEdit, TypeOK, Blank, NoReport, NoSignal
    <3> QED BY <2>2, <3>1, <3>2
  <2>3. ASSUME NEW id \in Accounts, TimePasses(id) \/ ReportAges(id) \/ ClearToken(id)
        PROVE  Current'
    BY <2>0, <2>1, <2>3, OthersCurrent, {} \in SUBSET Actors DEF Current
  <2>4. ASSUME NEW id \in Accounts, NEW c \in Credentials \cup {NoCredential},
               NEW renamed \in BOOLEAN, Put(id, c, renamed) \/ Delete(id)
        PROVE  Current'
    BY <2>0, <2>2, <2>4, OthersCurrent, {} \in SUBSET Actors DEF Current
  <2>5. ASSUME NEW id \in Accounts, Delete(id) PROVE Current'
    BY <2>4, <2>5
  <2> QED BY <1>6, <2>3, <2>4, <2>5 DEF Clock, Edit
<1>7. ASSUME Unlock \/ Lock \/ \E s \in Savers, on \in BOOLEAN : SaveSettings(s, on)
      PROVE  Current'
  BY <1>7 DEF Unlock, Lock, SaveSettings, Current, Honest, About, checking, ghosts
<1>8. ASSUME NEW u \in Users, NEW kind \in UserKinds, NEW id \in Accounts,
             UserCheck(u, kind, id)
      PROVE  Current'
  <2>1. /\ UNCHANGED <<doc, wanted>> /\ \A b \in Actors \ {u} : act'[b] = act[b]
        /\ act'[u].kind = kind /\ act'[u].rep.password.status = "absent"
        /\ act'[u].pc = IF kind = "quick" THEN "fetch" ELSE "enter"
    BY <1>u, <1>8 DEF UserCheck, TypeOK, Entering, Idle, NoReport, NoSignal, ghosts
  <2>2. kind # "none" BY KindsAssumption
  <2> QED BY <1>u, <2>1, <2>2, OthersCurrent, {u} \in SUBSET Actors DEF Current
<1>9. ASSUME NEW s \in Savers, Restart(s) PROVE Current'
  <2>1. /\ UNCHANGED <<doc, wanted>>
        /\ \A a \in Actors : act'[a].pc = "idle" /\ act'[a].kind = "none"
                             /\ act'[a].rep.password.status = "absent"
    BY <1>9 DEF Restart, Idle, NoReport, NoSignal
  <2> QED BY <2>1, OthersCurrent, Actors \in SUBSET Actors DEF Current
<1>10. CASE UNCHANGED vars
  BY <1>10 DEF vars, checking, ghosts, Current, Honest, About
<1> QED
  BY <1>1, <1>2, <1>3, <1>4, <1>5, <1>6, <1>7, <1>8, <1>9, <1>10
  DEF Next, Work, Ask, Fault

\* The entries at the start: none, or one without a report.
LEMMA InitEntries ==
    ASSUME Init
    PROVE  \A id \in Accounts : doc[id].health = NoReport /\ doc[id].skips = 0
<1> DEFINE Fresh == {r \in Entry : r.health = NoReport /\ r.skips = 0}
<1>1. Blank \in Fresh BY BlankType DEF Blank
<1>2. ASSUME NEW c \in Credentials, NEW t \in BOOLEAN
      PROVE  [NewEntry(c) EXCEPT !.token = t] \in Fresh
  <2>1. NewEntry(c) \in Entry /\ NewEntry(c).health = NoReport /\ NewEntry(c).skips = 0
    BY BlankType DEF NewEntry, Blank
  <2>2. \A r \in Entry : /\ [r EXCEPT !.token = t].health = r.health
                         /\ [r EXCEPT !.token = t].skips = r.skips
    BY DEF Entry
  <2> QED BY <2>1, <2>2, BlankType
<1> HIDE DEF Fresh
<1>3. {Blank} \cup {[NewEntry(c) EXCEPT !.token = t] : c \in Credentials, t \in BOOLEAN}
        \subseteq Fresh
  BY <1>1, <1>2
<1>4. doc \in [Accounts -> Fresh] BY <1>3 DEF Init
<1> QED BY <1>4 DEF Fresh

\* Nothing has been learned at the start.
LEMMA InitCurrent == Init => Current
<1> SUFFICES ASSUME Init PROVE Current OBVIOUS
<1>1. ASSUME NEW id \in Accounts PROVE doc[id].health.password.status = "absent"
  <2>1. doc[id].health = NoReport BY InitEntries
  <2> QED BY <2>1 DEF NoReport, NoSignal
<1>2. \A a \in Actors : /\ act[a].pc = "idle" /\ act[a].kind = "none"
  BY DEF Init, Idle
<1> QED BY <1>1, <1>2 DEF Current, Honest, About, Found, LockedSteps, Known, Init

(* A stored verdict on a password is about the login and the password that *)
(* are stored with it now, whatever checks ran beside each other; as long  *)
(* as no entry is edited under a check of it (verify.go, entries.go).      *)
THEOREM VerdictsAreCurrent ==
    ASSUME ~EditsMidCheck PROVE Spec => []VerdictIsCurrent
<1>1. TypeOK /\ Apart /\ [Next]_vars => Apart' BY StepApart
<1>2. TypeOK /\ Apart /\ Current /\ [Next]_vars => Current' BY StepCurrent
<1>3. Current => VerdictIsCurrent BY DEF Current, VerdictIsCurrent, About
<1> QED BY <1>1, <1>2, <1>3, InitApart, InitCurrent, VaultTypeCorrect, PTL DEF Spec

(* An entry the user deleted stays deleted: no check writes it back, as    *)
(* long as none is under way for it when it is deleted (health.go).        *)
THEOREM DeletedStay ==
    ASSUME ~EditsMidCheck PROVE Spec => []DeletedStaysDeleted
<1>1. TypeOK /\ Apart /\ [Next]_vars => Apart' BY StepApart
<1>2. TypeOK /\ Apart /\ Current /\ [Next]_vars => Current' BY StepCurrent
<1>3. Current => DeletedStaysDeleted BY DEF Current, DeletedStaysDeleted
<1> QED BY <1>1, <1>2, <1>3, InitApart, InitCurrent, VaultTypeCorrect, PTL DEF Spec
-----------------------------------------------------------------------------
(* Skips and failures.  The stored count of skips is never behind history, *)
(* and from the login to the reset of the count, under the lock, nobody    *)
(* defers.                                                                 *)

Deferrals ==
    /\ \A id \in Accounts : /\ deferred[id] <= doc[id].skips
                            /\ ~doc[id].there => deferred[id] = 0
    /\ \A a \in Actors :
         act[a].pc \in {"login", "store-token", "record", "reset-skips"}
           => act[a].kind # "quick" /\ deferred[act[a].id] = 0

\* What a step of a check does to the skips and the failures of its entry.
LEMMA CheckCounts ==
    ASSUME TypeOK, NEW a \in Actors, CheckStep(a) \/ WriteFails(a)
    PROVE  /\ \/ deferred' = deferred
              \/ act[a].pc \in {"reread", "skip"}
           /\ \/ \A id \in Accounts : doc'[id].skips = doc[id].skips
              \/ act[a].pc \in {"reset-skips", "skip"}
           /\ \A id \in Accounts : doc[id].there => doc'[id].there
           /\ doc'[act[a].id].there /\ doc[act[a].id].failing /\ ~doc'[act[a].id].failing
                => doc'[act[a].id].health.password.status = "ok"
<1> DEFINE c == act[a]
           e == doc[c.id]
<1>0. /\ c \in Check /\ c.id \in Accounts /\ c.rep \in Report
      /\ e \in Entry /\ e.health \in Report /\ doc \in [Accounts -> Entry]
  BY DEF TypeOK, Check, Entry
<1>1. deferred' = deferred \/ c.pc \in {"reread", "skip"}
  BY DEF CheckStep, Enter, Busy, TryLock, Recheck, ReadEntry, Fetch, FetchForSession,
         FetchNothing, KeepReport, Reread, Login, SignIn, StoreToken, RecordHealth,
         ResetSessionSkips, RecordSessionSkip, WriteFails, ghosts
<1>4. \/ doc' = doc
      \/ /\ c.pc \in {"keep", "store-token", "record", "reset-skips", "skip"}
         /\ \/ KeepReport(a) \/ StoreToken(a) \/ RecordHealth(a)
            \/ ResetSessionSkips(a) \/ RecordSessionSkip(a)
  BY DEF CheckStep, Enter, Busy, TryLock, Recheck, ReadEntry, Fetch, FetchForSession,
         FetchNothing, KeepReport, Reread, Login, SignIn, StoreToken, RecordHealth,
         ResetSessionSkips, RecordSessionSkip, WriteFails
<1> DEFINE Stays == \A id \in Accounts : doc[id].there => doc'[id].there
           Same == \A id \in Accounts : doc'[id].skips = doc[id].skips
           x == doc'[c.id]
<1>5. CASE KeepReport(a)
  <2>1. doc' = [doc EXCEPT ![c.id] = [Stored(c.id) EXCEPT !.health = Carry(c.rep, @)]]
    BY <1>5 DEF KeepReport
  <2>2. Stays /\ Same /\ x.failing = e.failing BY <1>0, <2>1 DEF Stored, Entry
  <2> QED BY <1>1, <2>2
<1>6. CASE StoreToken(a)
  <2>1. doc' = [doc EXCEPT ![c.id] =
                  [Stored(c.id) EXCEPT !.token = TRUE, !.health.session = "absent"]]
    BY <1>6 DEF StoreToken
  <2>2. Stays /\ Same /\ x.failing = e.failing BY <1>0, <2>1 DEF Stored, Entry
  <2> QED BY <1>1, <2>2
<1>7. CASE RecordHealth(a)
  <2>1. doc' = [doc EXCEPT ![c.id] =
                  [Stored(c.id) EXCEPT !.health = Carry(c.rep, @),
                       !.failing = c.rep.password.status # "ok", !.due = FALSE]]
    BY <1>7 DEF RecordHealth
  <2>2. Stays /\ Same BY <1>0, <2>1 DEF Stored, Entry
  <2>3. /\ x.failing = (c.rep.password.status # "ok")
        /\ x.health = Carry(c.rep, e.health)
    BY <1>0, <2>1 DEF Stored, Entry
  <2>4. c.rep.password.status = "ok" => Carry(c.rep, e.health).password = c.rep.password
    BY <1>0 DEF Carry, Report
  <2> QED BY <1>1, <2>2, <2>3, <2>4
<1>8. CASE ResetSessionSkips(a)
  <2>1. doc' = doc \/ doc' = [doc EXCEPT ![c.id].skips = 0] BY <1>8 DEF ResetSessionSkips
  <2>2. Stays /\ x.failing = e.failing /\ c.pc = "reset-skips"
    BY <1>0, <1>8, <2>1 DEF Entry, ResetSessionSkips
  <2> QED BY <1>1, <2>2
<1>9. CASE RecordSessionSkip(a)
  <2> DEFINE h == Carry(c.rep, e.health)
             r == [e EXCEPT !.health = h, !.skips = e.skips + 1, !.due = FALSE]
  <2>1. doc' = doc \/ doc' = [doc EXCEPT ![c.id] = r]
    BY <1>9 DEF RecordSessionSkip
  <2> HIDE DEF h
  <2>2. r.there = e.there /\ r.failing = e.failing BY <1>0 DEF Entry
  <2> HIDE DEF r
  <2>3. Stays /\ x.failing = e.failing BY <1>0, <2>1, <2>2
  <2>4. c.pc = "skip" BY <1>9 DEF RecordSessionSkip
  <2> QED BY <1>1, <2>3, <2>4
<1> QED BY <1>1, <1>4, <1>5, <1>6, <1>7, <1>8, <1>9

\* A check keeps the counts.
LEMMA CheckDeferrals ==
    ASSUME TypeOK, Apart, Deferrals, NEW a \in Actors, CheckStep(a) \/ WriteFails(a)
    PROVE  Deferrals'
<1> DEFINE c == act[a]
           x == act'[a]
           e == doc[c.id]
           Late == {"login", "store-token", "record", "reset-skips"}
<1> USE SkipsAssumption
<1>0. /\ c \in Check /\ c.id \in Accounts /\ SoundKind(c) /\ e \in Entry
      /\ act \in [Actors -> Check] /\ doc \in [Accounts -> Entry]
      /\ deferred \in [Accounts -> 0 .. MaxSessionSkips + 1]
      /\ \A id \in Accounts : /\ deferred[id] <= doc[id].skips
                              /\ ~doc'[id].there => deferred[id] = 0
      /\ \A b \in Actors \ {a} : act'[b] = act[b]
  BY CheckWrites, CheckCounts DEF TypeOK, Check, Entry, Apart, Deferrals
<1>1. \A b \in Actors \ {a} : act[b].pc \in Late => ~Locked(c)
  <2> SUFFICES ASSUME NEW b \in Actors \ {a}, act[b].pc \in Late, Locked(c) PROVE FALSE
    OBVIOUS
  <2>1. Locked(act[b]) BY DEF Deferrals, Locked, LockedSteps
  <2> QED BY <2>1 DEF Apart
<1>2. CASE c.pc = "reread"
  <2>0. Reread(a)
    BY <1>2 DEF CheckStep, Enter, Busy, TryLock, Recheck, ReadEntry, Fetch, FetchForSession,
         FetchNothing, KeepReport, Login, SignIn, StoreToken, RecordHealth,
         ResetSessionSkips, RecordSessionSkip, WriteFails
  <2>1. doc' = doc BY <2>0 DEF Reread
  <2>2. Locked(c) BY <1>0, <1>2 DEF SoundKind, Locked, LockedSteps
  <2>3. CASE Release(a, FALSE) /\ deferred' = deferred
    <3>1. x.pc \notin Late BY <1>0, <2>3 DEF Release, Leave, Returned, Idle
    <3> QED BY <1>0, <2>1, <2>3, <3>1 DEF Deferrals
  <2>4. CASE \E rep : act' = [act EXCEPT ![a].pc = "login", ![a].rep = rep]
               /\ deferred' = [deferred EXCEPT ![c.id] = 0]
    <3>1. x.pc = "login" /\ x.kind = c.kind /\ x.id = c.id
      BY <1>0, <2>4 DEF Check
    <3>2. /\ deferred'[c.id] = 0
          /\ \A id \in Accounts \ {c.id} : deferred'[id] = deferred[id]
      BY <1>0, <2>4
    <3>4. \A id \in Accounts : /\ deferred'[id] <= doc'[id].skips
                               /\ ~doc'[id].there => deferred'[id] = 0
      BY <1>0, <2>1, <3>2 DEF Entry
    <3> HIDE DEF x
    <3>3. \A b \in Actors \ {a} : act'[b].pc \notin Late
      BY <1>0, <1>1, <2>2
    <3>5. x.kind # "quick" BY <1>0, <1>2, <3>1 DEF SoundKind
    <3> QED BY <3>1, <3>2, <3>3, <3>4, <3>5 DEF Deferrals, x
  <2> QED BY <2>0, <2>3, <2>4 DEF Reread
<1>3. CASE c.pc = "skip"
  <2>0. RecordSessionSkip(a) \/ WriteFails(a)
    BY <1>3 DEF CheckStep, Enter, Busy, TryLock, Recheck, ReadEntry, Fetch, FetchForSession,
         FetchNothing, KeepReport, Reread, Login, SignIn, StoreToken, RecordHealth,
         ResetSessionSkips
  <2>1. \E ok \in BOOLEAN : Release(a, ok)
    BY <1>3, <2>0 DEF RecordSessionSkip, WriteFails
  <2>2. x.pc \notin Late BY <1>0, <2>1 DEF Release, Leave, Returned, Idle
  <2>3. Locked(c) BY <1>0, <1>3 DEF SoundKind, Locked, LockedSteps
  <2>4. \A b \in Actors : act'[b].pc \notin Late BY <1>0, <1>1, <2>2, <2>3
  <2>5. CASE doc' = doc /\ deferred' = deferred BY <2>4, <2>5 DEF Deferrals
  <2>6. CASE RecordSessionSkip(a) /\ DeferralLeft(e) /\ ~(doc' = doc /\ deferred' = deferred)
    <3>1. /\ doc' = [doc EXCEPT ![c.id] =
                       [e EXCEPT !.health = Carry(c.rep, @), !.skips = @ + 1, !.due = FALSE]]
          /\ deferred' = [deferred EXCEPT ![c.id] = OneMore(@)]
      BY <2>6 DEF RecordSessionSkip
    <3>2. /\ doc'[c.id].skips = e.skips + 1 /\ doc'[c.id].there
          /\ \A id \in Accounts \ {c.id} : doc'[id] = doc[id]
      BY <1>0, <2>6, <3>1 DEF Entry, RecordSessionSkip, Readable
    <3>3. OneMore(deferred[c.id]) <= e.skips + 1
      BY <1>0, <2>6 DEF OneMore, DeferralLeft, Entry
    <3> QED BY <1>0, <2>4, <3>1, <3>2, <3>3 DEF Deferrals
  <2> QED BY <1>3, <2>0, <2>5, <2>6 DEF RecordSessionSkip, WriteFails, ghosts
<1>4. CASE c.pc = "reset-skips"
  <2>0. ResetSessionSkips(a) \/ WriteFails(a)
    BY <1>4 DEF CheckStep, Enter, Busy, TryLock, Recheck, ReadEntry, Fetch, FetchForSession,
         FetchNothing, KeepReport, Reread, Login, SignIn, StoreToken, RecordHealth,
         RecordSessionSkip
  <2>1. \E ok \in BOOLEAN : Release(a, ok)
    BY <1>4, <2>0 DEF ResetSessionSkips, WriteFails
  <2>2. x.pc \notin Late BY <1>0, <2>1 DEF Release, Leave, Returned, Idle
  <2>3. deferred' = deferred /\ deferred[c.id] = 0
    BY <1>4, CheckCounts DEF Deferrals
  <2>4. \A id \in Accounts : deferred[id] <= doc'[id].skips
    <3>1. doc' = doc \/ doc' = [doc EXCEPT ![c.id].skips = 0]
      BY <1>4, <2>0 DEF ResetSessionSkips, WriteFails
    <3> QED BY <1>0, <2>3, <3>1 DEF Entry
  <2> QED BY <1>0, <2>2, <2>3, <2>4 DEF Deferrals
<1>5. CASE c.pc \notin {"reread", "skip", "reset-skips"}
  <2>1. deferred' = deferred /\ \A id \in Accounts : deferred[id] <= doc'[id].skips
    BY <1>0, <1>5, CheckCounts
  <2>2. x.pc \in Late => x.id = c.id /\ c.pc \in Late /\ x.kind = c.kind
    <3>1. CASE \E ok \in BOOLEAN : Leave(a, ok)
      <4>1. x.pc \notin Late BY <1>0, <3>1 DEF Leave, Returned, Idle
      <4> QED BY <4>1
    <3>2. ASSUME NEW pc \in Steps, pc \in Late => c.pc \in Late, Goto(a, pc)
          PROVE  x.pc \in Late => x.id = c.id /\ c.pc \in Late /\ x.kind = c.kind
      <4>1. x = [c EXCEPT !.pc = pc] BY <1>0, <3>2 DEF Goto
      <4> QED BY <1>0, <3>2, <4>1 DEF Check
    <3>3. ASSUME NEW pc, pc \notin Late, NEW read, NEW rep, NEW saw,
                 act' \in {[act EXCEPT ![a].pc = pc, ![a].read = read],
                          [act EXCEPT ![a].pc = pc, ![a].rep = rep],
                          [act EXCEPT ![a].pc = pc, ![a].rep = rep, ![a].saw = saw]}
          PROVE  x.pc \notin Late
      BY <1>0, <3>3 DEF Check
    <3>4. CASE Enter(a) \/ TryLock(a) \/ Recheck(a) \/ KeepReport(a) \/ RecordHealth(a)
      BY <1>5, <3>1, <3>2, <3>4
      DEF Enter, TryLock, Recheck, KeepReport, RecordHealth, Release, Steps, LockedSteps
    <3>5. CASE Busy(a)
      <4>1. CASE act' = [act EXCEPT ![a] = Idle("wait")]
        <5>1. x.pc = "wait" BY <1>0, <4>1 DEF Idle
        <5> QED BY <5>1
      <4> QED BY <3>1, <3>5, <4>1 DEF Busy
    <3>6. CASE ReadEntry(a)
      BY <3>1, <3>3, <3>6 DEF ReadEntry, Release
    <3>7. ASSUME NEW limited \in BOOLEAN, Fetch(a, limited) \/ FetchForSession(a, limited)
          PROVE  x.pc \in Late => x.id = c.id /\ c.pc \in Late /\ x.kind = c.kind
      <4>1. CASE Fetch(a, limited)
        <5>1. x.pc = "keep" BY <1>0, <4>1 DEF Fetch, Check
        <5> QED BY <5>1
      <4>2. CASE FetchForSession(a, limited)
        <5>1. CASE Goto(a, "sign-in") BY <3>2, <5>1 DEF Steps, LockedSteps
        <5>2. CASE Release(a, FALSE) BY <3>1, <5>2 DEF Release
        <5>3. CASE \E rep : act' = [act EXCEPT ![a].pc = "keep", ![a].saw = limited,
                                              ![a].rep = rep]
          <6>1. x.pc = "keep" BY <1>0, <5>3 DEF Check
          <6> QED BY <6>1
        <5> QED BY <4>2, <5>1, <5>2, <5>3 DEF FetchForSession
      <4> QED BY <3>7, <4>1, <4>2
    <3>8. CASE FetchNothing(a)
      BY <3>1, <3>8 DEF FetchNothing, Release
    <3>9. ASSUME NEW answer \in Answers, Login(a, answer)
          PROVE  x.pc \in Late => x.id = c.id /\ c.pc \in Late /\ x.kind = c.kind
      <4>1. PICK rep, pc : act' = [act EXCEPT ![a].rep = rep, ![a].pc = pc]
        BY <3>9 DEF Login
      <4>2. x.id = c.id /\ x.kind = c.kind BY <1>0, <4>1 DEF Check
      <4> QED BY <3>9, <4>2 DEF Login
    <3>10. ASSUME NEW answer \in Answers, SignIn(a, answer)
           PROVE  x.pc \in Late => x.id = c.id /\ c.pc \in Late /\ x.kind = c.kind
      <4>1. CASE \E rep : act' = [act EXCEPT ![a].pc = IF c.kind = "probe" THEN "skip"
                                                                         ELSE "keep",
                                            ![a].rep = rep]
        BY <3>3, <4>1
      <4> QED BY <3>1, <3>10, <4>1 DEF SignIn, Release
    <3>11. CASE StoreToken(a) \/ (WriteFails(a) /\ c.pc = "store-token")
      <4>1. act' = [act EXCEPT ![a].pc = "record", ![a].rep.session = "absent"]
            /\ c.pc = "store-token"
        BY <3>11 DEF StoreToken, WriteFails
      <4>2. x.id = c.id /\ x.kind = c.kind BY <1>0, <4>1 DEF Check
      <4> QED BY <4>1, <4>2
    <3>12. CASE WriteFails(a) /\ c.pc # "store-token"
      BY <3>1, <3>12 DEF WriteFails, Release
    <3>13. ~Reread(a) /\ ~ResetSessionSkips(a) /\ ~RecordSessionSkip(a)
      BY <1>5 DEF Reread, ResetSessionSkips, RecordSessionSkip
    <3> HIDE DEF x, Late
    <3> QED
      BY <3>4, <3>5, <3>6, <3>7, <3>8, <3>9, <3>10, <3>11, <3>12, <3>13 DEF CheckStep
  <2> HIDE DEF x
  <2>3. x.pc \in Late => x.kind # "quick" /\ deferred'[x.id] = 0
    BY <2>1, <2>2 DEF Deferrals
  <2> QED BY <1>0, <2>1, <2>3 DEF Deferrals, x
<1> QED BY <1>2, <1>3, <1>4, <1>5

\* So does everything else.
LEMMA StepDeferrals ==
    ASSUME TypeOK, Apart, Deferrals, [Next]_vars PROVE Deferrals'
<1> DEFINE Late == {"login", "store-token", "record", "reset-skips"}
<1>0. \A a \in Users \cup Loops : a \in Actors BY DEF Actors
<1>1. ASSUME UNCHANGED <<doc, deferred>>,
             \A a \in Actors : act'[a] = act[a] \/ act'[a].pc \notin Late
      PROVE  Deferrals'
  BY <1>1 DEF Deferrals
<1>2. ASSUME NEW l \in Loops, LoopStep(l) PROVE Deferrals'
  <2>1. UNCHANGED <<doc, deferred>>
    BY <1>2 DEF LoopStep, DelayOver, LoopEnds, PickDue, TickLimited, AfterProbe, AfterDeepCheck,
                Settle, StopForGood, ghosts
  <2>2. \A a \in Actors : act'[a] = act[a] \/ act'[a].pc \notin Late
    <3>0. act \in [Actors -> Check] /\ l \in Actors BY <1>0 DEF TypeOK
    <3>1. ASSUME NEW pc, pc \notin Late, Goto(l, pc) PROVE act'[l].pc \notin Late
      BY <3>0, <3>1 DEF Goto, Check
    <3>2. CASE \/ DelayOver(l) \/ LoopEnds(l) \/ TickLimited(l) \/ Settle(l) \/ StopForGood(l)
      <4>1. PICK pc : pc \notin Late /\ Goto(l, pc)
        BY <3>2 DEF DelayOver, LoopEnds, TickLimited, Settle, StopForGood
      <4>2. \A a \in Actors \ {l} : act'[a] = act[a] BY <3>0, <4>1 DEF Goto
      <4> QED BY <3>1, <4>1, <4>2
    <3>3. CASE AfterProbe(l) \/ AfterDeepCheck(l) \/ \E id \in Accounts : PickDue(l, id)
      <4>1. PICK r : /\ act' = [act EXCEPT ![l] = r]
                     /\ r.pc \in {"settle", "stop", "enter"}
        <5>1. \A pc : Idle(pc).pc = pc BY DEF Idle
        <5>2. \A kind, id : Entering(kind, id).pc = "enter" BY DEF Entering, Idle
        <5>3. CASE AfterProbe(l)
          <6>1. \/ act' = [act EXCEPT ![l] = Idle("settle")]
                \/ act' = [act EXCEPT ![l] = Idle("stop")]
                \/ act' = [act EXCEPT ![l] = Entering("deep", act[l].id)]
            BY <5>3 DEF AfterProbe
          <6> QED BY <5>1, <5>2, <6>1
        <5>4. CASE AfterDeepCheck(l)
          BY <5>1, <5>4 DEF AfterDeepCheck
        <5>5. ASSUME NEW id \in Accounts, PickDue(l, id)
              PROVE  \E r : /\ act' = [act EXCEPT ![l] = r]
                            /\ r.pc \in {"settle", "stop", "enter"}
          BY <5>2, <5>5 DEF PickDue
        <5> QED BY <3>3, <5>3, <5>4, <5>5
      <4> QED BY <3>0, <4>1
    <3> QED BY <1>2, <3>2, <3>3 DEF LoopStep
  <2> QED BY <1>1, <2>1, <2>2
<1>3. ASSUME NEW s \in Savers, SaverStep(s) \/ LoadFails(s) PROVE Deferrals'
  <2>1. UNCHANGED <<doc, deferred>> /\ \A a \in Actors : act'[a] = act[a] \/ act'[a].pc \notin Late
    BY <1>0, <1>3 DEF SaverStep, LoadSettings, LoadFails, SetInterval, TurnOff, KeepOn, TurnOn,
                      Goto, TypeOK, Check, checking, ghosts
  <2> QED BY <1>1, <2>1
<1>4. ASSUME NEW u \in Users, NEW kind \in UserKinds, NEW id \in Accounts,
             UserCheck(u, kind, id)
      PROVE  Deferrals'
  <2>1. UNCHANGED <<doc, deferred>> /\ \A a \in Actors : act'[a] = act[a] \/ act'[a].pc \notin Late
    BY <1>0, <1>4 DEF UserCheck, Entering, Idle, TypeOK, ghosts
  <2> QED BY <1>1, <2>1
<1>5. ASSUME \/ Unlock \/ Lock \/ \E s \in Savers, on \in BOOLEAN : SaveSettings(s, on)
             \/ \E s \in Savers : Restart(s)
      PROVE  Deferrals'
  <2>1. UNCHANGED <<doc, deferred>> /\ \A a \in Actors : act'[a] = act[a] \/ act'[a].pc \notin Late
    BY <1>5 DEF Unlock, Lock, SaveSettings, Restart, Idle, checking, ghosts
  <2> QED BY <1>1, <2>1
<1>6. ASSUME Clock \/ Edit PROVE Deferrals'
  <2>1. act' = act BY <1>6 DEF Clock, TimePasses, ReportAges, Edit, Put, ClearToken, Delete, checking
  <2>2. ASSUME NEW id \in Accounts, TimePasses(id) \/ ReportAges(id) \/ ClearToken(id)
        PROVE  /\ deferred' = deferred
               /\ \A i \in Accounts : /\ doc'[i].skips = doc[i].skips
                                      /\ doc'[i].there = doc[i].there
    BY <2>2 DEF TimePasses, ReportAges, ClearToken, TypeOK, Entry, ghosts
  <2>3. ASSUME NEW id \in Accounts, Delete(id)
        PROVE  /\ \A i \in Accounts : \/ deferred'[i] = 0 /\ doc'[i].skips = 0
                                      \/ deferred'[i] = deferred[i] /\ doc'[i] = doc[i]
    BY <2>3 DEF Delete, TypeOK, Blank
  <2>4. ASSUME NEW id \in Accounts, NEW c \in Credentials \cup {NoCredential},
               NEW renamed \in BOOLEAN, Put(id, c, renamed)
        PROVE  /\ deferred' = deferred
               /\ \A i \in Accounts : \/ doc'[i].skips = doc[i].skips /\ doc'[i].there = doc[i].there
                                      \/ ~doc[i].there /\ doc'[i].skips = 0
    <3>1. doc'[id] = IF doc[id].there THEN Drafted(doc[id], c, renamed) ELSE NewEntry(c)
      BY <2>4 DEF Put, TypeOK
    <3>2. /\ Drafted(doc[id], c, renamed).skips = doc[id].skips
          /\ Drafted(doc[id], c, renamed).there = doc[id].there
      BY DraftedAnew DEF TypeOK
    <3>3. NewEntry(c).skips = 0 BY DEF NewEntry, Blank
    <3> QED BY <2>4, <3>1, <3>2, <3>3 DEF Put, TypeOK
  <2>5. \A i \in Accounts : \/ deferred'[i] = 0 /\ doc'[i].skips = 0
                            \/ /\ deferred'[i] = deferred[i]
                               /\ \/ doc'[i].skips = doc[i].skips /\ doc'[i].there = doc[i].there
                                  \/ ~doc[i].there /\ doc'[i].skips = 0
    BY <1>6, <2>2, <2>3, <2>4 DEF Clock, Edit
  <2>6. \A i \in Accounts : /\ deferred[i] <= doc[i].skips
                            /\ ~doc[i].there => deferred[i] = 0
                            /\ deferred[i] \in 0 .. MaxSessionSkips + 1
    BY DEF Deferrals, TypeOK
  <2>7. \A i \in Accounts : /\ deferred'[i] <= doc'[i].skips
                            /\ ~doc'[i].there => deferred'[i] = 0
                            /\ deferred[i] = 0 => deferred'[i] = 0
    BY <2>5, <2>6, SkipsAssumption
  <2>8. \A a \in Actors : act[a].id \in Accounts BY DEF TypeOK, Check
  <2> QED BY <2>1, <2>7, <2>8 DEF Deferrals
<1>10. CASE UNCHANGED vars
  BY <1>1, <1>10 DEF vars, checking, ghosts
<1> QED
  BY <1>2, <1>3, <1>4, <1>5, <1>6, <1>10, CheckDeferrals DEF Next, Work, Ask, Fault

(* A live session stands in for the login with the password at most        *)
(* MaxSessionSkips times in a row, through manual checks, edits, failed    *)
(* writes and restarts (recordSessionSkip, ResetSessionSkips).             *)
THEOREM DeferralsBounded == Spec => []DeferralBounded
<1>1. ASSUME Init PROVE Deferrals
  <2>1. \A a \in Actors : act[a].pc = "idle" BY <1>1 DEF Init, Idle
  <2>2. deferred = [id \in Accounts |-> 0] BY <1>1, Zenon DEF Init
  <2>3. \A id \in Accounts : doc[id].skips = 0 BY <1>1, InitEntries
  <2> QED BY <2>1, <2>2, <2>3 DEF Deferrals
<1>2. TypeOK /\ Apart /\ [Next]_vars => Apart' BY StepApart
<1>3. TypeOK /\ Apart /\ Deferrals /\ [Next]_vars => Deferrals' BY StepDeferrals
<1>4. ASSUME TypeOK, Deferrals PROVE DeferralBounded
  <2> SUFFICES ASSUME NEW id \in Accounts PROVE deferred[id] <= MaxSessionSkips
    BY DEF DeferralBounded
  <2>1. deferred[id] <= doc[id].skips BY <1>4 DEF Deferrals
  <2>2. deferred[id] \in 0 .. MaxSessionSkips + 1 BY <1>4 DEF TypeOK
  <2>3. doc[id].skips \in 0 .. MaxSessionSkips BY <1>4 DEF TypeOK, Entry
  <2> QED BY <2>1, <2>2, <2>3, SkipsAssumption
<1> QED BY <1>1, <1>2, <1>3, <1>4, InitApart, VaultTypeCorrect, PTL DEF Spec

(* An account that failed keeps its backoff until a login with the         *)
(* password is accepted, whatever other checks, edits and failed writes    *)
(* come between (recordHealthOnly, recordHealth).                          *)
THEOREM FailuresStick == Spec => FailureSticks
<1>1. ASSUME TypeOK, [Next]_vars, NEW id \in Accounts,
             doc[id].there, doc'[id].there, doc[id].failing, ~doc'[id].failing
      PROVE  doc'[id].health.password.status = "ok"
  <2>1. ASSUME NEW a \in Actors, CheckStep(a) \/ WriteFails(a)
        PROVE  doc'[id].health.password.status = "ok"
    BY <1>1, <2>1, CheckCounts, CheckWrites DEF TypeOK, Check
  <2>2. ~Clock
    BY <1>1 DEF Clock, TimePasses, ReportAges, TypeOK, Entry
  <2>3. ~Edit
    <3>1. ASSUME NEW i \in Accounts, ClearToken(i) \/ Delete(i) PROVE FALSE
      BY <1>1, <3>1 DEF ClearToken, Delete, TypeOK, Entry, Blank
    <3>2. ASSUME NEW i \in Accounts, NEW c \in Credentials \cup {NoCredential},
                 NEW renamed \in BOOLEAN, Put(i, c, renamed)
          PROVE  FALSE
      <4>1. doc'[id] \in {doc[id], Drafted(doc[id], c, renamed)}
        BY <1>1, <3>2 DEF Put, TypeOK
      <4> QED BY <1>1, <4>1 DEF Drafted, TypeOK, Entry
    <3> QED BY <3>1, <3>2 DEF Edit
  <2>4. CASE doc' = doc BY <1>1, <2>4
  <2> QED
    BY <1>1, <2>1, <2>2, <2>3, <2>4
    DEF Next, Work, LoopStep, DelayOver, LoopEnds, PickDue, TickLimited, AfterProbe,
        AfterDeepCheck, Settle, StopForGood, SaverStep, LoadSettings, SetInterval, TurnOff,
        KeepOn, TurnOn, Unlock, Ask, UserCheck, SaveSettings, Lock, Fault, LoadFails, Restart,
        vars
<1>2. TypeOK /\ [Next]_vars =>
        [\A id \in Accounts :
           /\ doc[id].there /\ doc'[id].there /\ doc[id].failing /\ ~doc'[id].failing
           => doc'[id].health.password.status = "ok"]_vars
  BY <1>1
<1> QED BY <1>2, VaultTypeCorrect, PTL DEF Spec, FailureSticks
=============================================================================
