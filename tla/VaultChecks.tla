----------------------------- MODULE VaultChecks -----------------------------
(***************************************************************************)
(* The checks of the account vault (internal/vault: verify, health,        *)
(* entries, scheduler).  A check is a goroutine: one the user started      *)
(* (quick, session or deep) or a step of the scheduler's loop, which tries *)
(* the stored session first and logs in with the password only if that     *)
(* does not answer.  Checks run beside each other, beside edits of the     *)
(* entries they are about, and beside changes of the setting that starts   *)
(* and stops the loop.  What keeps them apart is deepMu, the rate-limit    *)
(* latch, and each write being one read-modify-write of the stored entry.  *)
(*                                                                         *)
(* A step is one critical section (a lock, the latch, one mutate) or one   *)
(* answer from Steam.  Time is three events: an account's next check       *)
(* becomes due, its last report gets old, and a ticker fires.  Entries     *)
(* have a known SteamID here.                                              *)
(***************************************************************************)
EXTENDS Naturals

CONSTANTS
    Accounts,         \* keys of the vault's entries
    Credentials,      \* login name and password pairs an entry may store
    Right,            \* the one Steam accepts
    NoCredential,     \* one of the two is missing
    Users,            \* the calls the window may have in progress
    UserKinds,        \* the checks they are
    Loops,            \* runs of runScheduler that may overlap
    NoActor,          \* deepMu is free; there is no scheduler handle
    Savers,           \* overlapping calls of SaveSteamSettings
    MaxSessionSkips,  \* 3 in the code
    EditsMidCheck,    \* TRUE: an entry may be edited while it is checked
    LocksVault,       \* TRUE: the user locks and unlocks the vault
    DiskFails         \* TRUE: writing the vault may fail

ASSUME NoActorAssumption == NoActor \notin Users \cup Loops
ASSUME AccountsAssumption == Accounts # {}
ASSUME ActorsAssumption == Users \cap Loops = {}
ASSUME CredentialAssumption == Right \in Credentials /\ NoCredential \notin Credentials
ASSUME SkipsAssumption == MaxSessionSkips \in Nat
ASSUME KindsAssumption == UserKinds \subseteq {"quick", "session", "deep"}
ASSUME SurfaceAssumption ==
    EditsMidCheck \in BOOLEAN /\ LocksVault \in BOOLEAN /\ DiskFails \in BOOLEAN

Actors == Users \cup Loops

VARIABLES
    \* the disk
    doc,          \* the entries
    setting,      \* the saved deep check interval is not zero
    \* the process
    vaultOpen,    \* the vault is unlocked
    rateLimited,  \* the latch
    lock,         \* who holds deepMu
    act,          \* the checks in progress
    interval,     \* deepInterval is not zero
    handle,       \* the loop schedCancel cancels
    stopped,      \* loops whose context is cancelled
    saver,        \* changes of the setting in progress
    \* history
    wanted,       \* entries the user has saved and not deleted
    deferred,     \* skips since the last login with the password
    unrecorded    \* accounts whose last scheduled login moved no schedule

checking == <<rateLimited, lock, act>>
schedule == <<interval, handle, stopped, saver>>
ghosts   == <<wanted, deferred, unrecorded>>
vars == <<doc, setting, vaultOpen, checking, schedule, ghosts>>

-----------------------------------------------------------------------------
(* Entries and health reports.  A sign-in result is absent, or unknown, or *)
(* says that Steam accepted or refused what was tried; a warning counts as *)
(* refused.  `of` is history: the credential the result was learned from.  *)
(* A report is limited when a lookup or sign-in in it met a 429, and       *)
(* recent until a whole interval has passed since its ProbedAt.            *)

Results == {"absent", "unknown", "ok", "refused"}
Signal  == [status : Results, of : Credentials \cup {NoCredential}]
Report  == [password : Signal, session : Results, limited : BOOLEAN, recent : BOOLEAN]

NoSignal == [status |-> "absent", of |-> NoCredential]
NoReport == [password |-> NoSignal, session |-> "absent",
             limited |-> FALSE, recent |-> FALSE]
NewReport == [NoReport EXCEPT !.recent = TRUE]

Entry == [there      : BOOLEAN,
          credential : Credentials \cup {NoCredential},
          token      : BOOLEAN,                 \* RefreshToken # ""
          failing    : BOOLEAN,                 \* CheckFailures > 0
          skips      : 0 .. MaxSessionSkips,    \* SessionSkips
          due        : BOOLEAN,                 \* NextEligibleAt has passed
          health     : Report]

Blank   == [there |-> FALSE, credential |-> NoCredential, token |-> FALSE,
            failing |-> FALSE, skips |-> 0, due |-> TRUE, health |-> NoReport]
NewEntry(c) == [Blank EXCEPT !.there = TRUE, !.credential = c]

\* effectiveEligibility: unless the account is backing off, the last report,
\* whatever made it, holds the next check back for an interval.
EffectivelyDue(e) == e.due /\ (e.failing \/ ~e.health.recent)

Readable(id) == vaultOpen /\ doc[id].there      \* entry() finds it

Known(status) == status \in {"ok", "refused"}

\* carrySignInResults: what sign-ins established stays unless rep has its own.
Carry(rep, prior) ==
    [rep EXCEPT
        !.password = IF @.status = "absent" /\ Known(prior.password.status)
                     THEN prior.password ELSE @,
        !.session  = IF @ = "absent" /\ Known(prior.session)
                     THEN prior.session ELSE @]

\* The entry a record function starts from: the stored one or a new one.
Stored(id) == [doc[id] EXCEPT !.there = TRUE]

-----------------------------------------------------------------------------
(* The checks in progress.                                                 *)

Kinds == {"none", "quick", "session", "deep", "probe"}    \* "probe": scheduled

\* Steps taken while holding deepMu, in order; "fetch" and "keep" are also
\* the two steps of a quick check, which does not take it.
LockedSteps == {"recheck", "read", "fetch", "keep", "reread", "login",
                "store-token", "record", "reset-skips", "sign-in", "skip"}
LoopSteps   == {"delay", "wait", "probed", "result", "settle", "stop"}
Steps       == LockedSteps \cup LoopSteps \cup {"idle", "enter", "try"}

Read == [credential : Credentials \cup {NoCredential}, token : BOOLEAN, failing : BOOLEAN]
NoRead == [credential |-> NoCredential, token |-> FALSE, failing |-> FALSE]

Check == [pc   : Steps,
          kind : Kinds,
          id   : Accounts,
          read : Read,       \* the entry as it was read at the start
          rep  : Report,     \* the report it is building
          saw  : BOOLEAN,    \* history: its own cheap tier was rate limited
          ok   : BOOLEAN]    \* no error so far

SomeAccount == CHOOSE id \in Accounts : TRUE
Idle(pc) == [pc |-> pc, kind |-> "none", id |-> SomeAccount, read |-> NoRead,
             rep |-> NoReport, saw |-> FALSE, ok |-> TRUE]

Holds(a) == act[a].kind # "quick" /\ act[a].pc \in LockedSteps
SignsIn(a) == act[a].pc \in {"login", "sign-in"}

Entering(kind, id) == [Idle("enter") EXCEPT !.kind = kind, !.id = id]
Goto(a, pc) == act' = [act EXCEPT ![a].pc = pc]

\* The call returns: a user's check is over, a scheduler step goes on.
Returned(a, ok) ==
    IF a \in Users THEN Idle("idle")
    ELSE [Idle(IF act[a].kind = "probe" THEN "probed" ELSE "result")
            EXCEPT !.id = act[a].id, !.ok = ok]
Leave(a, ok) == act' = [act EXCEPT ![a] = Returned(a, ok)]

\* The same with the deferred Unlock.
Release(a, ok) ==
    /\ Leave(a, ok)
    /\ lock' = IF lock = a THEN NoActor ELSE lock

-----------------------------------------------------------------------------
(* The start of a check: latch, lock, latch again, entry.                  *)

UserCheck(u, kind, id) ==
    /\ act[u].pc = "idle" /\ kind \in UserKinds /\ vaultOpen
    /\ act' = [act EXCEPT ![u] =
                  IF kind = "quick" THEN [Entering(kind, id) EXCEPT !.pc = "fetch"]
                                    ELSE Entering(kind, id)]
    /\ UNCHANGED <<doc, setting, vaultOpen, rateLimited, lock, schedule, ghosts>>

Enter(a) ==
    /\ act[a].pc = "enter"
    /\ IF rateLimited THEN Leave(a, FALSE) ELSE Goto(a, "try")
    /\ UNCHANGED <<doc, setting, vaultOpen, rateLimited, lock, schedule, ghosts>>

\* A deep check of the scheduler that finds the slot busy is still due: theirs wins.
Busy(a) ==
    /\ act[a].pc = "try" /\ lock # NoActor
    /\ IF a \in Loops /\ act[a].kind = "deep"
       THEN act' = [act EXCEPT ![a] = Idle("wait")]
       ELSE Leave(a, FALSE)
    /\ UNCHANGED <<doc, setting, vaultOpen, rateLimited, lock, schedule, ghosts>>

TryLock(a) ==
    /\ act[a].pc = "try" /\ lock = NoActor
    /\ lock' = a
    /\ Goto(a, "recheck")
    /\ UNCHANGED <<doc, setting, vaultOpen, rateLimited, schedule, ghosts>>

\* Mutant: the latch is not looked at again under the lock.
RecheckNothing(a) ==
    /\ act[a].pc = "recheck"
    /\ Goto(a, "read")
    /\ UNCHANGED <<doc, setting, vaultOpen, rateLimited, lock, schedule, ghosts>>

Recheck(a) ==
    /\ act[a].pc = "recheck"
    /\ IF rateLimited THEN Release(a, FALSE) ELSE Goto(a, "read") /\ UNCHANGED lock
    /\ UNCHANGED <<doc, setting, vaultOpen, rateLimited, schedule, ghosts>>

\* The deferral budget, read again when the skip is written.
DeferralLeft(e) == ~e.failing /\ e.skips < MaxSessionSkips
MayDefer(e) == e.token /\ DeferralLeft(e)

Eligible(kind, e) ==
    CASE kind = "deep"  -> e.credential # NoCredential
      [] kind = "probe" -> MayDefer(e)
      [] OTHER          -> TRUE

ReadEntry(a) ==
    /\ act[a].pc = "read"
    /\ LET e == doc[act[a].id] IN
       IF Readable(act[a].id) /\ Eligible(act[a].kind, e)
       THEN /\ act' = [act EXCEPT ![a].pc = "fetch",
                   ![a].read = [credential |-> e.credential, token |-> e.token,
                                failing |-> e.failing]]
            /\ UNCHANGED lock
       ELSE Release(a, FALSE)
    /\ UNCHANGED <<doc, setting, vaultOpen, rateLimited, schedule, ghosts>>

-----------------------------------------------------------------------------
(* The cheap tier.                                                         *)

\* quickReport: two lookups, either of which Steam may refuse with a 429.
Fetch(a, limited) ==
    LET c == act[a]
        fresh == [NewReport EXCEPT !.limited = limited]
    IN
    /\ c.pc = "fetch" /\ c.kind \in {"quick", "deep"} /\ Readable(c.id)
    /\ act' = [act EXCEPT ![a].pc = "keep", ![a].rep = fresh, ![a].saw = limited]
    /\ UNCHANGED <<doc, setting, vaultOpen, rateLimited, lock, schedule, ghosts>>

\* The entry went while it was being looked up: no report to go on with.
FetchNothing(a) ==
    LET c == act[a] IN
    /\ c.pc = "fetch" /\ c.kind \in {"quick", "deep"} /\ ~Readable(c.id)
    /\ Release(a, FALSE)
    /\ UNCHANGED <<doc, setting, vaultOpen, rateLimited, schedule, ghosts>>

\* buildSessionHealth: a refused lookup latches and skips the sign-in, as
\* does an entry without a token; one that went leaves a minimal report.
FetchForSession(a, limited) ==
    LET c == act[a] IN
    /\ c.pc = "fetch" /\ c.kind \in {"session", "probe"}
    /\ limited => Readable(c.id)
    /\ rateLimited' = (rateLimited \/ limited)
    /\ IF ~limited /\ c.read.token
       THEN Goto(a, "sign-in") /\ UNCHANGED lock
       ELSE IF c.kind = "probe"
            THEN Release(a, FALSE)
            ELSE /\ act' = [act EXCEPT ![a].pc = "keep", ![a].saw = limited,
                     ![a].rep = [NewReport EXCEPT !.session = "unknown", !.limited = limited]]
                 /\ UNCHANGED lock
    /\ UNCHANGED <<doc, setting, vaultOpen, schedule, ghosts>>

\* recordHealthOnly: the report and nothing of the failures or the schedule.
KeepReport(a) ==
    LET c == act[a] IN
    /\ c.pc = "keep" /\ vaultOpen
    /\ doc' = [doc EXCEPT ![c.id] =
                  [Stored(c.id) EXCEPT !.health = Carry(c.rep, @)]]
    /\ IF c.kind = "deep" THEN Goto(a, "reread") /\ UNCHANGED lock ELSE Release(a, TRUE)
    /\ UNCHANGED <<setting, vaultOpen, rateLimited, schedule, ghosts>>

\* What a quick check returns is what is stored; a deep check then asks
\* that report whether Steam has had enough.
Reread(a) ==
    LET c == act[a]
        rep == IF Readable(c.id) THEN doc[c.id].health ELSE c.rep
    IN
    /\ c.pc = "reread"
    /\ rateLimited' = (rateLimited \/ rep.limited)
    /\ IF rep.limited
       THEN Release(a, FALSE) /\ UNCHANGED <<deferred, unrecorded>>
       ELSE /\ act' = [act EXCEPT ![a].pc = "login", ![a].rep = rep]
            /\ deferred' = [deferred EXCEPT ![c.id] = 0]
            /\ unrecorded' = IF a \in Loops THEN unrecorded \cup {c.id} ELSE unrecorded
            /\ UNCHANGED lock
    /\ UNCHANGED <<doc, setting, vaultOpen, schedule, wanted>>

-----------------------------------------------------------------------------
(* The sign-ins.                                                           *)

\* runCredentialLogin's outcomes: accepted with a session, accepted with no
\* code for the Guard step, refused, no answer, too many.
Answers == {"session", "guard", "refused", "unknown", "limited"}

Login(a, answer) ==
    LET c == act[a]
        status == CASE answer \in {"session", "guard"} -> "ok"
                    [] answer = "refused"              -> "refused"
                    [] OTHER                           -> "unknown"
        rep == [c.rep EXCEPT !.password = [status |-> status, of |-> c.read.credential],
                             !.limited  = @ \/ answer = "limited"]
    IN
    /\ c.pc = "login"
    /\ answer \in {"session", "guard"} => c.read.credential = Right
    /\ rateLimited' = (rateLimited \/ answer = "limited")
    /\ act' = [act EXCEPT ![a].rep = rep,
                          ![a].pc = IF answer = "session" THEN "store-token" ELSE "record"]
    /\ UNCHANGED <<doc, setting, vaultOpen, lock, schedule, ghosts>>

\* session.Check with the stored token.
SignIn(a, answer) ==
    LET c == act[a]
        status == CASE answer = "session" -> "ok"
                    [] answer = "refused" -> "refused"
                    [] OTHER              -> "unknown"
    IN
    /\ c.pc = "sign-in" /\ answer # "guard"
    /\ rateLimited' = (rateLimited \/ answer = "limited")
    /\ IF c.kind = "probe" /\ status # "ok"
       THEN Release(a, FALSE)
       ELSE /\ act' = [act EXCEPT ![a].pc = IF c.kind = "probe" THEN "skip" ELSE "keep",
                    ![a].rep = [NewReport EXCEPT !.session = status,
                                                 !.limited = (answer = "limited")]]
            /\ UNCHANGED lock
    /\ UNCHANGED <<doc, setting, vaultOpen, schedule, ghosts>>

-----------------------------------------------------------------------------
(* What a sign-in leaves behind.                                           *)

\* recordSession; the caller then drops the verdict on the replaced token.
StoreToken(a) ==
    LET c == act[a] IN
    /\ c.pc = "store-token" /\ vaultOpen
    /\ doc' = [doc EXCEPT ![c.id] =
                  [Stored(c.id) EXCEPT !.token = TRUE, !.health.session = "absent"]]
    /\ act' = [act EXCEPT ![a].pc = "record", ![a].rep.session = "absent"]
    /\ UNCHANGED <<setting, vaultOpen, rateLimited, lock, schedule, ghosts>>

\* recordHealth: report, failures and schedule in one write.
RecordHealth(a) ==
    LET c == act[a]
        failing == c.rep.password.status # "ok"
    IN
    /\ c.pc = "record" /\ vaultOpen
    /\ doc' = [doc EXCEPT ![c.id] =
                  [Stored(c.id) EXCEPT !.health = Carry(c.rep, @),
                                       !.failing = failing, !.due = FALSE]]
    /\ unrecorded' = unrecorded \ {c.id}
    /\ Goto(a, "reset-skips")
    /\ UNCHANGED <<setting, vaultOpen, rateLimited, lock, schedule, wanted, deferred>>

ResetSessionSkips(a) ==
    LET c == act[a] IN
    /\ c.pc = "reset-skips"
    /\ doc' = IF Readable(c.id) THEN [doc EXCEPT ![c.id].skips = 0] ELSE doc
    /\ Release(a, TRUE)
    /\ UNCHANGED <<setting, vaultOpen, rateLimited, schedule, ghosts>>

\* History stops counting one past the cap, which is enough to see it broken.
OneMore(n) == IF n > MaxSessionSkips THEN n ELSE n + 1

\* Mutant: the skip is not counted.
RecordSessionSkipUncounted(a) ==
    LET c == act[a]
        e == doc[c.id]
    IN
    /\ c.pc = "skip"
    /\ IF Readable(c.id) /\ DeferralLeft(e)
       THEN /\ doc' = [doc EXCEPT ![c.id] =
                          [e EXCEPT !.health = Carry(c.rep, @), !.due = FALSE]]
            /\ deferred' = [deferred EXCEPT ![c.id] = OneMore(@)]
            /\ unrecorded' = unrecorded \ {c.id}
            /\ Release(a, TRUE)
       ELSE Release(a, FALSE) /\ UNCHANGED <<doc, deferred, unrecorded>>
    /\ UNCHANGED <<setting, vaultOpen, rateLimited, schedule, wanted>>

\* recordSessionSkip: refuses an entry that went or is no longer eligible.
RecordSessionSkip(a) ==
    LET c == act[a]
        e == doc[c.id]
    IN
    /\ c.pc = "skip"
    /\ IF Readable(c.id) /\ DeferralLeft(e)
       THEN /\ doc' = [doc EXCEPT ![c.id] =
                          [e EXCEPT !.health = Carry(c.rep, @),
                                    !.skips = @ + 1, !.due = FALSE]]
            /\ deferred' = [deferred EXCEPT ![c.id] = OneMore(@)]
            /\ unrecorded' = unrecorded \ {c.id}
            /\ Release(a, TRUE)
       ELSE Release(a, FALSE) /\ UNCHANGED <<doc, deferred, unrecorded>>
    /\ UNCHANGED <<setting, vaultOpen, rateLimited, schedule, wanted>>

\* A write that fails, because the disk refuses it or the vault was locked.
\* Only a token that was not stored, and skips not reset, are shrugged off.
WriteFails(a) ==
    LET c == act[a] IN
    /\ ~vaultOpen \/ DiskFails
    /\ c.pc \in {"keep", "store-token", "record", "reset-skips", "skip"}
    /\ CASE c.pc = "store-token" ->
              /\ act' = [act EXCEPT ![a].pc = "record", ![a].rep.session = "absent"]
              /\ UNCHANGED <<lock, rateLimited>>
         [] c.pc = "keep" /\ c.kind = "deep" ->
              Release(a, FALSE) /\ rateLimited' = (rateLimited \/ c.rep.limited)
         [] OTHER ->
              Release(a, c.pc = "reset-skips") /\ UNCHANGED rateLimited
    /\ UNCHANGED <<doc, setting, vaultOpen, schedule, ghosts>>

-----------------------------------------------------------------------------
(* The scheduler's loop.  A new loop's start delay (ten minutes) outlasts  *)
(* the step of a stopped one (at most four), so the old one has returned.  *)

DelayOver(l) ==
    /\ act[l].pc = "delay" /\ l \notin stopped
    /\ \A k \in Loops \ {l} : act[k].pc \in {"idle", "delay"}
    /\ Goto(l, "wait")
    /\ UNCHANGED <<doc, setting, vaultOpen, rateLimited, lock, schedule, ghosts>>

LoopEnds(l) ==
    /\ act[l].pc \in {"delay", "wait"} /\ l \in stopped
    /\ Goto(l, "idle")
    /\ UNCHANGED <<doc, setting, vaultOpen, rateLimited, lock, schedule, ghosts>>

\* schedulerStep finds an account due.  A tick that finds the scheduler off,
\* the app locked or offline, or nothing due changes nothing.
PickDue(l, id) ==
    /\ act[l].pc = "wait"
    /\ ~rateLimited /\ interval
    /\ Readable(id) /\ doc[id].credential # NoCredential /\ EffectivelyDue(doc[id])
    /\ act' = [act EXCEPT ![l] = Entering("probe", id)]
    /\ UNCHANGED <<doc, setting, vaultOpen, rateLimited, lock, schedule, ghosts>>

TickLimited(l) ==
    /\ act[l].pc = "wait" /\ rateLimited
    /\ Goto(l, "stop")
    /\ UNCHANGED <<doc, setting, vaultOpen, rateLimited, lock, schedule, ghosts>>

\* The session answered: done.  If not: the password, unless rate limited.
AfterProbe(l) ==
    LET c == act[l] IN
    /\ c.pc = "probed"
    /\ act' = [act EXCEPT ![l] =
                 CASE c.ok               -> Idle("settle")
                   [] ~c.ok /\ rateLimited -> Idle("stop")
                   [] OTHER              -> Entering("deep", c.id)]
    /\ UNCHANGED <<doc, setting, vaultOpen, rateLimited, lock, schedule, ghosts>>

\* A check that failed and left the account due stops the scheduler.
AfterDeepCheck(l) ==
    LET c == act[l]
        DueForDeepCheck == Readable(c.id) /\ doc[c.id].due
    IN
    /\ c.pc = "result"
    /\ act' = [act EXCEPT ![l] =
                 IF ~c.ok /\ DueForDeepCheck THEN Idle("stop") ELSE Idle("settle")]
    /\ UNCHANGED <<doc, setting, vaultOpen, rateLimited, lock, schedule, ghosts>>

Settle(l) ==
    /\ act[l].pc = "settle"
    /\ Goto(l, IF rateLimited THEN "stop" ELSE "wait")
    /\ UNCHANGED <<doc, setting, vaultOpen, rateLimited, lock, schedule, ghosts>>

\* Mutant: the handle is dropped and the loop not cancelled.
StopHandleOnly == handle' = NoActor /\ UNCHANGED stopped

\* stopSchedulerLocked: whichever loop the handle is of.
StopHandle ==
    /\ handle' = NoActor
    /\ stopped' = IF handle = NoActor THEN stopped ELSE stopped \cup {handle}

StopForGood(l) ==
    /\ act[l].pc = "stop"
    /\ StopHandle
    /\ Goto(l, "idle")
    /\ UNCHANGED <<doc, setting, vaultOpen, rateLimited, lock, interval, saver, ghosts>>

-----------------------------------------------------------------------------
(* Changing the setting: saved, read back, then put to the scheduler in    *)
(* two critical sections, all by the caller of SaveSteamSettings.          *)

SaverSteps == {"idle", "load", "interval", "handle"}

SaveSettings(s, on) ==
    /\ saver[s].pc = "idle"
    /\ setting' = on
    /\ saver' = [saver EXCEPT ![s].pc = "load"]
    /\ UNCHANGED <<doc, vaultOpen, checking, interval, handle, stopped, ghosts>>

LoadSettings(s) ==
    /\ saver[s].pc = "load"
    /\ saver' = [saver EXCEPT ![s] = [pc |-> "interval", on |-> setting]]
    /\ UNCHANGED <<doc, setting, vaultOpen, checking, interval, handle, stopped, ghosts>>

\* Settings that cannot be read switch the scheduler off.
LoadFails(s) ==
    /\ DiskFails /\ saver[s].pc = "load"
    /\ saver' = [saver EXCEPT ![s] = [pc |-> "interval", on |-> FALSE]]
    /\ UNCHANGED <<doc, setting, vaultOpen, checking, interval, handle, stopped, ghosts>>

SetInterval(s) ==
    /\ saver[s].pc = "interval"
    /\ interval' = saver[s].on
    /\ saver' = [saver EXCEPT ![s].pc = "handle"]
    /\ UNCHANGED <<doc, setting, vaultOpen, checking, handle, stopped, ghosts>>

TurnOff(s) ==
    /\ saver[s].pc = "handle" /\ ~saver[s].on
    /\ StopHandle
    /\ saver' = [saver EXCEPT ![s] = [pc |-> "idle", on |-> FALSE]]
    /\ UNCHANGED <<doc, setting, vaultOpen, checking, interval, ghosts>>

\* A running loop is left to pick the change up; otherwise one is started.
KeepOn(s) ==
    /\ saver[s].pc = "handle" /\ saver[s].on /\ handle # NoActor
    /\ saver' = [saver EXCEPT ![s] = [pc |-> "idle", on |-> FALSE]]
    /\ UNCHANGED <<doc, setting, vaultOpen, checking, interval, handle, stopped, ghosts>>

TurnOn(s, l) ==
    /\ saver[s].pc = "handle" /\ saver[s].on /\ handle = NoActor
    /\ act[l].pc = "idle"
    /\ handle' = l
    /\ stopped' = stopped \ {l}
    /\ Goto(l, "delay")
    /\ unrecorded' = {}
    /\ saver' = [saver EXCEPT ![s] = [pc |-> "idle", on |-> FALSE]]
    /\ UNCHANGED <<doc, setting, vaultOpen, rateLimited, lock, interval, wanted, deferred>>

-----------------------------------------------------------------------------
(* The user's edits, the lock, time and restarts.                          *)

MayEdit(id) ==
    /\ vaultOpen
    /\ EditsMidCheck \/ \A a \in Actors : act[a].kind = "none" \/ act[a].id # id

\* Mutant: a changed password keeps its verdict.
DraftedKeepsVerdict(e, c, renamed) ==
    [e EXCEPT !.credential = c,
              !.health.session = IF renamed THEN "absent" ELSE @]

\* applyDraft: a changed password takes its verdict with it, a changed login
\* name those of both sign-ins.
Drafted(e, c, renamed) ==
    [e EXCEPT !.credential = c, !.health.password = NoSignal,
              !.health.session = IF renamed THEN "absent" ELSE @]

Put(id, c, renamed) ==
    /\ MayEdit(id) /\ (doc[id].there => c # doc[id].credential)
    /\ doc' = [doc EXCEPT ![id] =
                 IF @.there THEN Drafted(@, c, renamed) ELSE NewEntry(c)]
    /\ wanted' = wanted \cup {id}
    /\ UNCHANGED <<setting, vaultOpen, checking, schedule, deferred, unrecorded>>

ClearToken(id) ==
    /\ MayEdit(id) /\ doc[id].there /\ doc[id].token
    /\ doc' = [doc EXCEPT ![id].token = FALSE, ![id].health.session = "absent"]
    /\ wanted' = wanted \cup {id}
    /\ UNCHANGED <<setting, vaultOpen, checking, schedule, deferred, unrecorded>>

Delete(id) ==
    /\ MayEdit(id) /\ doc[id].there
    /\ doc' = [doc EXCEPT ![id] = Blank]
    /\ wanted' = wanted \ {id}
    /\ deferred' = [deferred EXCEPT ![id] = 0]
    /\ unrecorded' = unrecorded \ {id}
    /\ UNCHANGED <<setting, vaultOpen, checking, schedule>>

Unlock ==
    /\ ~vaultOpen /\ vaultOpen' = TRUE
    /\ UNCHANGED <<doc, setting, checking, schedule, ghosts>>

Lock ==
    /\ LocksVault /\ vaultOpen /\ vaultOpen' = FALSE
    /\ UNCHANGED <<doc, setting, checking, schedule, ghosts>>

TimePasses(id) ==
    /\ doc[id].there /\ ~doc[id].due
    /\ doc' = [doc EXCEPT ![id].due = TRUE]
    /\ unrecorded' = unrecorded \ {id}
    /\ UNCHANGED <<setting, vaultOpen, checking, schedule, wanted, deferred>>

ReportAges(id) ==
    /\ doc[id].there /\ doc[id].health.recent
    /\ doc' = [doc EXCEPT ![id].health.recent = FALSE]
    /\ UNCHANGED <<setting, vaultOpen, checking, schedule, ghosts>>

\* The process ends, at any step, and starts again: the vault and the
\* settings are on disk, the key is not, and the start applies the setting.
Restart(s) ==
    /\ act' = [a \in Actors |-> Idle("idle")] /\ vaultOpen' = FALSE
    /\ lock' = NoActor /\ rateLimited' = FALSE
    /\ interval' = FALSE /\ handle' = NoActor /\ stopped' = {}
    /\ saver' = [r \in Savers |-> [pc |-> IF r = s THEN "load" ELSE "idle", on |-> FALSE]]
    /\ unrecorded' = {}
    /\ UNCHANGED <<doc, setting, wanted, deferred>>

-----------------------------------------------------------------------------
Init ==
    /\ doc \in [Accounts -> {Blank} \cup
                   {[NewEntry(c) EXCEPT !.token = t] : c \in Credentials, t \in BOOLEAN}]
    /\ setting \in BOOLEAN
    /\ vaultOpen = FALSE /\ rateLimited = FALSE /\ lock = NoActor
    /\ act = [a \in Actors |-> Idle("idle")]
    /\ interval = FALSE /\ handle = NoActor /\ stopped = {}
    /\ \E s \in Savers :
         saver = [r \in Savers |-> [pc |-> IF r = s THEN "load" ELSE "idle", on |-> FALSE]]
    /\ wanted = {id \in Accounts : doc[id].there}
    /\ deferred = [id \in Accounts |-> 0]
    /\ unrecorded = {}

CheckStep(a) ==
    \/ Enter(a) \/ Busy(a) \/ TryLock(a) \/ Recheck(a) \/ ReadEntry(a)
    \/ \E limited \in BOOLEAN : Fetch(a, limited) \/ FetchForSession(a, limited)
    \/ FetchNothing(a) \/ KeepReport(a) \/ Reread(a)
    \/ \E answer \in Answers : Login(a, answer) \/ SignIn(a, answer)
    \/ StoreToken(a) \/ RecordHealth(a) \/ ResetSessionSkips(a) \/ RecordSessionSkip(a)

LoopStep(l) ==
    \/ DelayOver(l) \/ LoopEnds(l)
    \/ \E id \in Accounts : PickDue(l, id)
    \/ TickLimited(l) \/ AfterProbe(l) \/ AfterDeepCheck(l) \/ Settle(l) \/ StopForGood(l)

SaverStep(s) ==
    \/ LoadSettings(s) \/ SetInterval(s) \/ TurnOff(s) \/ KeepOn(s)
    \/ \E l \in Loops : TurnOn(s, l)

Work == \/ \E a \in Actors : CheckStep(a)
        \/ \E l \in Loops : LoopStep(l)
        \/ \E s \in Savers : SaverStep(s)

Clock == \E id \in Accounts : TimePasses(id) \/ ReportAges(id)

\* What the user does.
Ask == \/ \E u \in Users, kind \in UserKinds, id \in Accounts : UserCheck(u, kind, id)
       \/ \E s \in Savers, on \in BOOLEAN : SaveSettings(s, on)
       \/ Lock

Edit == \E id \in Accounts :
    \/ \E c \in Credentials \cup {NoCredential}, renamed \in BOOLEAN : Put(id, c, renamed)
    \/ ClearToken(id) \/ Delete(id)

Fault == \/ \E a \in Actors : WriteFails(a)
         \/ \E s \in Savers : LoadFails(s) \/ Restart(s)

Next == Work \/ Clock \/ Unlock \/ Ask \/ Edit \/ Fault

Spec == Init /\ [][Next]_vars

-----------------------------------------------------------------------------
(* Properties.                                                             *)

\* The variables hold what the code's types and locks allow.
TypeOK ==
    /\ doc \in [Accounts -> Entry]
    /\ setting \in BOOLEAN /\ vaultOpen \in BOOLEAN /\ rateLimited \in BOOLEAN
    /\ lock \in Actors \cup {NoActor}
    /\ act \in [Actors -> Check]
    /\ interval \in BOOLEAN /\ handle \in Loops \cup {NoActor} /\ stopped \subseteq Loops
    /\ saver \in [Savers -> [pc : SaverSteps, on : BOOLEAN]]
    /\ wanted \subseteq Accounts /\ unrecorded \subseteq Accounts
    /\ deferred \in [Accounts -> 0 .. MaxSessionSkips + 1]

\* One account in flight, process-wide: no two checks are signing in at once,
\* whoever started them (deepMu, verify.go).
OneSignIn == \A a, b \in Actors : SignsIn(a) /\ SignsIn(b) => a = b

\* Once Steam has rate limited this client no sign-in begins before a
\* restart, though the latch is set while others wait to start.
NoSignInOnceLimited ==
    [][\A a \in Actors : ~SignsIn(a) /\ SignsIn(a)' => ~rateLimited']_vars

\* A check that was itself refused a lookup for rate limiting does not go on
\* to log in with the password (DeepCheck, after its cheap tier).
NoLoginPast429 == \A a \in Actors : act[a].pc = "login" => ~act[a].saw

\* A live session stands in for the login with the password only so many
\* times in a row, through manual checks, failed writes and restarts.
DeferralBounded == \A id \in Accounts : deferred[id] <= MaxSessionSkips

\* Failures are forgotten only by a login that was accepted or with the
\* entry: no check that did not test the password ends a backoff.
FailureSticks ==
    [][\A id \in Accounts :
         /\ doc[id].there /\ doc'[id].there /\ doc[id].failing /\ ~doc'[id].failing
         => doc'[id].health.password.status = "ok"]_vars

\* The scheduler does not log in to an account again when its last login
\* there moved no schedule (schedulerStep stops instead).
NoBlindRelogin ==
    [][\A l \in Loops :
         act[l].pc # "login" /\ act'[l].pc = "login" => act[l].id \notin unrecorded]_vars

\* The scheduler logs in only to an account whose schedule has come round: a
\* check the user made meanwhile counts (schedulerStep, "theirs wins").
ScheduledLoginIsDue ==
    [][\A l \in Loops :
         act[l].pc # "login" /\ act'[l].pc = "login" => doc[act[l].id].due]_vars

\* A check that does not test the password leaves the schedule of password
\* checks alone: an account whose turn it is stays due (recordHealthOnly).
ScheduleLeftAlone ==
    [][\A u \in Users, id \in Accounts :
         /\ act[u].kind \in {"quick", "session"} /\ act'[u] # act[u]
         /\ EffectivelyDue(doc[id])
         => EffectivelyDue(doc'[id])]_vars

\* A verdict on the password is about the login and password stored now.
VerdictIsCurrent ==
    \A id \in Accounts :
        LET e == doc[id] IN
        Known(e.health.password.status) => e.health.password.of = e.credential

\* An entry the user deleted stays deleted until the user saves it again.
DeletedStaysDeleted == \A id \in Accounts : doc[id].there => id \in wanted

\* When no change of the setting is in progress, the scheduler runs by what
\* is saved: switched off, there is no loop left to sign in to anything.
SettingIsHonoured ==
    (\A s \in Savers : saver[s].pc = "idle") =>
        /\ interval => setting
        /\ ~setting => \A l \in Loops : act[l].pc # "idle" => l \in stopped

\* A wrong password nobody has found yet, and a scheduler that could find it.
Undetected(id) ==
    LET e == doc[id] IN
    /\ e.there /\ e.credential \in Credentials \ {Right}
    /\ e.health.password.status # "refused"
    /\ handle # NoActor /\ interval /\ ~rateLimited

\* While the scheduler runs, a stored password that Steam does not accept is
\* found to be wrong, even behind a session that stays alive.
WrongPasswordFound == \A id \in Accounts : Undetected(id) ~> ~Undetected(id)

\* Goroutines run, timers fire, the app is unlocked, and Steam sooner or
\* later refuses a wrong password rather than not answer.
Fairness ==
    /\ \A a \in Actors : WF_vars(CheckStep(a))
    /\ \A l \in Loops : WF_vars(LoopStep(l))
    /\ \A l \in Loops : \A id \in Accounts : SF_vars(PickDue(l, id))
    /\ \A s \in Savers : WF_vars(SaverStep(s))
    /\ \A id \in Accounts : WF_vars(TimePasses(id)) /\ WF_vars(ReportAges(id))
    /\ WF_vars(Unlock)
    /\ \A a \in Actors :
         SF_vars(act[a].read.credential # Right /\ Login(a, "refused"))
=============================================================================
