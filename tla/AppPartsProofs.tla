--------------------------- MODULE AppPartsProofs ---------------------------
(***************************************************************************)
(* What is proved of the parts of the app around a switch: closing Steam,  *)
(* the processes and commands that ask for one, the records it writes, the *)
(* watch on the sign-in that follows, the profiles fetched and the tray    *)
(* menu; and of moving the user data and restoring a backup.  Each section *)
(* has the inductive invariant of its part, the lemmas it needs, and the   *)
(* theorem.                                                                *)
(***************************************************************************)
EXTENDS CloseSequence, Commands, LoginFiles, SignInWatch, ProfileRefresh, TrayRecent, UserData,
        BackupArchives, FiniteSetTheorems, TLAPS

-----------------------------------------------------------------------------
(* The close sequence.                                                     *)

CloseOver == closing \in {"returned", "swapped"}

\* The command that asks ends within its own timeout, which is shorter than
\* the wait for it: it is never in flight when the processes are killed or a
\* close by request is reported.
CloseInv ==
    /\ CloseTypeOK
    /\ grace >= ExitGrace
    /\ closing = "idle" => ask = "none" /\ now = 0
    /\ closing = "settling" \/ closing = "asking" => now <= grace
    /\ now <= grace + TermGrace
    /\ ask = "inFlight" => now <= AskTimeout
    /\ closing = "killed" => ask # "inFlight"
    /\ ~CloseOver => outcome = "none" /\ ~restarted
    /\ outcome \in {"steam-exit", "sigkill"} => ask # "inFlight" /\ ~restarted

\* A sequence that has not begun has nothing in progress and nothing over.
LEMMA CloseInitially == CloseInit => CloseInv
<1> SUFFICES ASSUME CloseInit PROVE CloseInv OBVIOUS
<1>1. CloseTypeOK
  <2>1. /\ {client, helpers, restarted} \subseteq BOOLEAN
        /\ closing = "idle" /\ outcome = "none" /\ ask = "none"
        /\ grace \in {ExitGrace, GameExitGrace} /\ loginWritten = "no"
    BY DEF CloseInit
  <2>2. now \in 0..(GameExitGrace + ExitGrace + TermGrace + 1)
    BY CloseAssumption DEF CloseInit
  <2>3. goneAt \in -1..(GameExitGrace + ExitGrace)
    BY CloseAssumption DEF CloseInit
  <2> QED BY <2>1, <2>2, <2>3 DEF CloseTypeOK
<1> QED BY <1>1, CloseAssumption DEF CloseInit, CloseInv, CloseOver

\* Every step of the sequence, of the client and of the command in flight keeps the invariant.
LEMMA CloseStep == CloseInv /\ [CloseNext]_closeVars => CloseInv'
<1> SUFFICES ASSUME CloseInv, [CloseNext]_closeVars PROVE CloseInv' OBVIOUS
<1> USE CloseAssumption DEF CloseInv, CloseTypeOK, CloseOver
<1>1. CASE ClientQuits BY <1>1 DEF ClientQuits
<1>2. CASE HelpersQuit BY <1>2 DEF HelpersQuit
<1>3. CASE AskDelivered BY <1>3 DEF AskDelivered
<1>4. CASE AskFails BY <1>4 DEF AskFails
<1>5. CASE \E game \in BOOLEAN : AskToClose(game)
  <2> PICK game \in BOOLEAN : AskToClose(game) BY <1>5
  <2>1. grace' \in {ExitGrace, GameExitGrace} /\ grace' >= ExitGrace
    BY DEF AskToClose
  <2>2. /\ UNCHANGED <<client, helpers, now, goneAt, restarted, loginWritten>>
        /\ closing = "idle" /\ ask = "none"
        /\ \/ closing' = "returned" /\ outcome' = "nothing-running" /\ ask' = ask
           \/ client /\ closing' = "asking" /\ ask' = "inFlight" /\ outcome' = outcome
           \/ closing' = "signalled" /\ ask' = "none" /\ outcome' = outcome
    BY DEF AskToClose, CloseReturns
  <2>3. CloseTypeOK' BY <2>1, <2>2
  <2>4. /\ now <= ExitGrace /\ now <= grace' /\ now <= grace' + TermGrace
        /\ ask' = "inFlight" => now <= AskTimeout
    BY <2>1, <2>2
  <2> HIDE DEF CloseTypeOK
  <2> QED BY <2>1, <2>2, <2>3, <2>4
<1>6. CASE PollExit BY <1>6 DEF PollExit, AnyRunning, Overstaying
<1>7. CASE Settle BY <1>7 DEF Settle, MaySettle, CloseReturns, AnyRunning
<1>8. CASE PollSignalled BY <1>8 DEF PollSignalled, KillDue, CloseReturns, AnyRunning
<1>9. CASE Kill BY <1>9 DEF Kill, CloseReturns
<1>10. CASE WriteLogin BY <1>10 DEF WriteLogin, AnyRunning
<1>11. CASE UNCHANGED closeVars BY <1>11 DEF closeVars
<1> QED
  BY <1>1, <1>2, <1>3, <1>4, <1>5, <1>6, <1>7, <1>8, <1>9, <1>10, <1>11 DEF CloseNext

\* Whatever the graces, as long as the command is given less time than the
\* client: a close by request or by force leaves no command behind.
THEOREM NothingEverStartsAgain == CloseSpec => []NothingStartsAgain
<1>1. CloseInv => NothingStartsAgain BY DEF CloseInv, NothingStartsAgain
<1> QED BY <1>1, CloseInitially, CloseStep, PTL DEF CloseSpec

-----------------------------------------------------------------------------
(* Commands: the mutex that makes one process the app.                     *)

Processes == [status : {"unborn", "born", "headless", "opening", "window", "forwarding", "restarting", "gone", "failed"},
              asked : Requests \cup {Nothing}]

\* Who acts has the mutex, as long as no restart was given up after letting it go.
AppInv ==
    /\ proc \in [Procs -> Processes]
    /\ ~gaveUp => \A p \in Procs : Acting(p) => holder = p

\* Nobody acts in the beginning.
LEMMA AppInitially == CommandsInit => AppInv
BY DEF CommandsInit, AppInv, Acting, Processes

\* Every step of a process keeps the mutex with the one that acts.
LEMMA AppStep == AppInv /\ [CommandsNext]_commandVars => AppInv'
<1> SUFFICES ASSUME AppInv, [CommandsNext]_commandVars PROVE AppInv' OBVIOUS
<1> USE CommandsAssumption DEF AppInv, Acting, Processes, Is, Becomes, Leaves, Over
<1>1. ASSUME NEW p \in Procs, StartProcess(p) PROVE AppInv'
  BY <1>1 DEF StartProcess
<1>2. ASSUME NEW p \in Procs, AnswerAtOnce(p) PROVE AppInv'
  BY <1>2 DEF AnswerAtOnce
<1>3. ASSUME NEW p \in Procs, Acquire(p) PROVE AppInv'
  BY <1>3 DEF Acquire, MayBecomeApp
<1>4. ASSUME NEW p \in Procs, ForwardArgs(p) PROVE AppInv'
  BY <1>4 DEF ForwardArgs
<1>5. ASSUME NEW p \in Procs, OpenWindow(p) PROVE AppInv'
  BY <1>5 DEF OpenWindow
<1>6. ASSUME NEW p \in Procs, Quit(p) PROVE AppInv'
  BY <1>6 DEF Quit
<1>7. ASSUME NEW p \in Procs, HandOver(p) PROVE AppInv'
  BY <1>7 DEF HandOver
<1>8. ASSUME NEW p \in Procs, GiveUpRestart(p) PROVE AppInv'
  BY <1>8 DEF GiveUpRestart
<1>9. ASSUME NEW p \in Procs, NEW ok \in BOOLEAN, RunHeadless(p, ok) PROVE AppInv'
  BY <1>9 DEF RunHeadless
<1>10. ASSUME NEW p \in Procs, NEW q \in Procs, RestartWindow(p, q) PROVE AppInv'
  BY <1>10 DEF RestartWindow
<1>11. ASSUME NEW r \in sent, NEW ok \in BOOLEAN, DispatchInGUI(r, ok) PROVE AppInv'
  BY <1>11 DEF DispatchInGUI
<1>12. CASE UNCHANGED commandVars
  BY <1>12 DEF commandVars
<1> QED
  BY <1>1, <1>2, <1>3, <1>4, <1>5, <1>6, <1>7, <1>8, <1>9, <1>10, <1>11, <1>12 DEF CommandsNext

\* However many processes are started and whatever they are asked, two of them never act as the
\* app at once, unless a restart was given up half way.
THEOREM OneAppAtATime == CommandsSpec => []OneAppActs
<1>1. AppInv => OneAppActs BY DEF AppInv, OneAppActs
<1> QED BY <1>1, AppInitially, AppStep, PTL DEF CommandsSpec

-----------------------------------------------------------------------------
(* Commands: what a link asks for.                                         *)

\* A link's request is for a switch and nothing after it.
LinkIsSwap(r) == r.link => r.kind = "swap" /\ ~r.appid /\ ~r.file

\* One argument alone is read from nothing.
LEMMA FoldOfOne ==
    ASSUME NEW argv, DOMAIN argv = {1}
    PROVE  FoldLeft(ReadToken, Nothing, argv) = ReadToken(Nothing, argv[1])
<1> DEFINE R(g) == [s \in SUBSET {1} |-> IF s = {} THEN Nothing
                                          ELSE LET x == Max(s) IN ReadToken(g[s \ {x}], argv[x])]
           h == [s \in SUBSET {1} |-> IF s = {} THEN Nothing ELSE ReadToken(Nothing, argv[1])]
           f == CHOOSE g : g = R(g)
<1>1. Max({1}) = 1 BY DEF Max
<1>2. \A s \in SUBSET {1} : s # {} => s = {1} OBVIOUS
<1>3. h = R(h)
  <2>1. h[{}] = Nothing OBVIOUS
  <2>2. ASSUME NEW s \in SUBSET {1}
        PROVE  (IF s = {} THEN Nothing ELSE ReadToken(Nothing, argv[1]))
               = (IF s = {} THEN Nothing ELSE LET x == Max(s) IN ReadToken(h[s \ {x}], argv[x]))
    <3>1. CASE s = {} BY <3>1
    <3>2. CASE s = {1}
      <4>1. Max(s) = 1 /\ s \ {1} = {} BY <1>1, <3>2
      <4> QED BY <2>1, <3>2, <4>1
    <3> QED BY <1>2, <3>1, <3>2
  <2> QED BY <2>2
<1>4. f = R(f) BY <1>3
<1>5. f[{}] = Nothing BY <1>4
<1>6. f[{1}] = ReadToken(f[{1} \ {1}], argv[1])
  <2> HIDE DEF f
  <2> QED BY <1>1, <1>4
<1>7. FoldLeft(ReadToken, Nothing, argv) = f[DOMAIN argv]
  BY DEF FoldLeft, MapThenFoldSet
<1> HIDE DEF f
<1>8. {1} \ {1} = {} OBVIOUS
<1> QED BY <1>5, <1>6, <1>7, <1>8

\* What may be asked for by a link is a switch.
LEMMA LinksAskForSwaps == \A r \in Requests : LinkIsSwap(r)
<1> SUFFICES ASSUME NEW n \in 0 .. MaxArgs, NEW argv \in [1 .. n -> Tokens] PROVE LinkIsSwap(Parse(argv))
  BY DEF Requests, CommandLines
<1> n \in Nat BY CommandsAssumption
<1> DEFINE p == FoldLeft(ReadToken, Nothing, argv)
<1>1. ~Refused.link BY DEF Refused, Nothing
<1>2. CASE LinkNotAlone(argv) \/ ~p.ok \/ ~Fits(p)
  <2>1. Parse(argv) = Refused BY <1>2 DEF Parse
  <2> QED BY <1>1, <2>1 DEF LinkIsSwap
<1>3. CASE ~(LinkNotAlone(argv) \/ ~p.ok \/ ~Fits(p))
  <2> DEFINE r == [Nothing EXCEPT !.kind = p.kind, !.help = p.help, !.link = Links(argv) # {},
                                  !.appid = p.appid, !.file = p.file, !.json = p.json]
  <2>1. Parse(argv) = r BY <1>3 DEF Parse
  <2>2. r.link = (Links(argv) # {}) /\ r.kind = p.kind /\ r.appid = p.appid /\ r.file = p.file
    <3> HIDE DEF p
    <3> QED BY DEF Nothing
  <2>3. ASSUME Links(argv) # {} PROVE p.kind = "swap" /\ ~p.appid /\ ~p.file
    <3>1. argv \in Seq(Tokens) /\ Len(argv) = n /\ DOMAIN argv = 1 .. n OBVIOUS
    <3>2. n = 1 BY <1>3, <2>3, <3>1 DEF LinkNotAlone, Links
    <3>3. DOMAIN argv = {1} /\ argv[1] \in {"link", "badLink"} BY <2>3, <3>1, <3>2 DEF Links
    <3>4. p = ReadToken(Nothing, argv[1]) BY <3>3, FoldOfOne
    <3> HIDE DEF p
    <3>5. p = IF argv[1] = "link" THEN PlusToken(Nothing, "link") ELSE Refused
      BY <3>3, <3>4 DEF ReadToken, Nothing, Commands
    <3>6. ~Refused.ok BY DEF Refused, Nothing
    <3>7. p = [Nothing EXCEPT !.kind = "swap"]
      BY <1>3, <3>5, <3>6 DEF PlusToken, MergePrimary, Nothing
    <3> QED BY <3>7 DEF Nothing
  <2> HIDE DEF r, p
  <2> QED BY <2>1, <2>2, <2>3 DEF LinkIsSwap
<1> QED BY <1>2, <1>3

\* Whatever is asked, sent or was carried out for a link is a switch.
LinkInv ==
    /\ proc = [p \in Procs |-> proc[p]]
    /\ \A p \in Procs : LinkIsSwap(proc[p].asked)
    /\ \A r \in sent : LinkIsSwap(r)
    /\ LinksOnlySwitch

\* Nothing is asked in the beginning.
LEMMA LinkInitially == CommandsInit => LinkInv
BY DEF CommandsInit, LinkInv, LinkIsSwap, Nothing, LinksOnlySwitch

\* What is asked for by a link has the effect of a switch.
LEMMA SwapsHaveEffect ==
    ASSUME NEW r, LinkIsSwap(r) PROVE \A c \in Effects(r) : c.link => c.what = "swap"
BY DEF Effects, LinkIsSwap

\* Every step of a process passes on what it was asked, or nothing.
LEMMA LinkStep == LinkInv /\ [CommandsNext]_commandVars => LinkInv'
<1> SUFFICES ASSUME LinkInv, [CommandsNext]_commandVars PROVE LinkInv' OBVIOUS
<1>0. LinkIsSwap(Nothing) BY DEF LinkIsSwap, Nothing
<1>1. ASSUME NEW p \in Procs, NEW s, Becomes(p, s) \/ Leaves(p, s)
      PROVE  proc' = [q \in Procs |-> proc'[q]] /\ \A q \in Procs : LinkIsSwap(proc'[q].asked)
  <2>1. CASE Becomes(p, s)
    <3>1. \A q \in Procs : proc'[q] = IF q = p THEN [proc[p] EXCEPT !.status = s] ELSE proc[q]
      BY <2>1 DEF Becomes, LinkInv
    <3>2. [proc[p] EXCEPT !.status = s].asked = proc[p].asked OBVIOUS
    <3> QED BY <2>1, <3>1, <3>2 DEF Becomes, LinkInv
  <2>2. CASE Leaves(p, s) BY <1>0, <2>2 DEF Leaves, LinkInv
  <2> QED BY <1>1, <2>1, <2>2
<1>2. ASSUME NEW p \in Procs, StartProcess(p) PROVE LinkInv'
  <2>1. PICK r \in Requests :
           proc' = [proc EXCEPT ![p] = IF r.ok THEN [status |-> "born", asked |-> r]
                                       ELSE [status |-> "failed", asked |-> Nothing]]
    BY <1>2 DEF StartProcess
  <2>2. LinkIsSwap(r) BY LinksAskForSwaps
  <2> QED BY <1>0, <1>2, <2>1, <2>2 DEF StartProcess, LinkInv, LinksOnlySwitch
<1>3. ASSUME NEW p \in Procs, AnswerAtOnce(p) \/ Acquire(p) \/ OpenWindow(p) \/ GiveUpRestart(p) PROVE LinkInv'
  <2>1. (\E s : Becomes(p, s) \/ Leaves(p, s)) /\ UNCHANGED <<sent, carried>>
    BY <1>3 DEF AnswerAtOnce, Acquire, OpenWindow, GiveUpRestart
  <2> QED BY <1>1, <2>1 DEF LinkInv, LinksOnlySwitch
<1>4. ASSUME NEW p \in Procs, ForwardArgs(p) PROVE LinkInv'
  <2>1. (\E s : Leaves(p, s)) /\ sent' \subseteq sent \cup {proc[p].asked} /\ UNCHANGED carried
    BY <1>4 DEF ForwardArgs
  <2> QED BY <1>1, <2>1 DEF LinkInv, LinksOnlySwitch
<1>5. ASSUME NEW p \in Procs, Quit(p) \/ HandOver(p) PROVE LinkInv'
  <2>1. (\E s : Leaves(p, s)) /\ sent' \subseteq sent /\ UNCHANGED carried
    BY <1>5 DEF Quit, HandOver, Over
  <2> QED BY <1>1, <2>1 DEF LinkInv, LinksOnlySwitch
<1>6. ASSUME NEW p \in Procs, NEW ok \in BOOLEAN, RunHeadless(p, ok) PROVE LinkInv'
  <2>1. (\E s : Leaves(p, s)) /\ sent' = sent /\ carried' \subseteq carried \cup Effects(proc[p].asked)
    BY <1>6 DEF RunHeadless
  <2>2. \A c \in Effects(proc[p].asked) : c.link => c.what = "swap" BY SwapsHaveEffect DEF LinkInv
  <2> QED BY <1>1, <2>1, <2>2 DEF LinkInv, LinksOnlySwitch
<1>7. ASSUME NEW p \in Procs, NEW q \in Procs, RestartWindow(p, q) PROVE LinkInv'
  <2>1. \A x \in Procs : proc'[x].asked \in {proc[x].asked, Nothing}
    <3>1. [proc[p] EXCEPT !.status = "restarting"].asked = proc[p].asked OBVIOUS
    <3> QED BY <1>7, <3>1 DEF RestartWindow, LinkInv
  <2>2. proc' = [x \in Procs |-> proc'[x]] BY <1>7 DEF RestartWindow, LinkInv
  <2> QED BY <1>0, <1>7, <2>1, <2>2 DEF RestartWindow, LinkInv, LinksOnlySwitch
<1>8. ASSUME NEW r \in sent, NEW ok \in BOOLEAN, DispatchInGUI(r, ok) PROVE LinkInv'
  <2>1. UNCHANGED proc /\ sent' \subseteq sent /\ carried' \subseteq carried \cup Effects(r)
    BY <1>8 DEF DispatchInGUI
  <2>2. \A c \in Effects(r) : c.link => c.what = "swap" BY SwapsHaveEffect DEF LinkInv
  <2> QED BY <2>1, <2>2 DEF LinkInv, LinksOnlySwitch
<1>9. CASE UNCHANGED commandVars BY <1>9 DEF commandVars, LinkInv, LinksOnlySwitch
<1> QED BY <1>2, <1>3, <1>4, <1>5, <1>6, <1>7, <1>8, <1>9 DEF CommandsNext

\* A link switches to an account and does nothing else, whatever comes beside
\* it on the command line and whichever process carries it out.
THEOREM LinksAlwaysOnlySwitch == CommandsSpec => []LinksOnlySwitch
<1>1. LinkInv => LinksOnlySwitch BY DEF LinkInv
<1> QED BY <1>1, LinkInitially, LinkStep, PTL DEF CommandsSpec

-----------------------------------------------------------------------------
(* The records a switch writes.                                              *)

\* What applyLoginSelection makes of rows names the account that was asked for, when there is a row
\* of it, and nobody otherwise, whichever markers the rows use.
LEMMA SelectionMarks ==
    ASSUME NEW rows, NEW id, NEW remember
    PROVE  Marked(ApplySelection(rows, id, remember)) = IF id \in DOMAIN rows THEN {id} ELSE {}
<1> DEFINE r == ApplySelection(rows, id, remember)
           M(a, f) == IF f \notin ActiveMarkerFields(rows) THEN rows[a][f]
                      ELSE IF a = id THEN "1"
                      ELSE IF rows[a][f] = "absent" THEN "absent" ELSE "0"
<1>1. DOMAIN r = DOMAIN rows BY DEF ApplySelection
<1>2. \A a \in DOMAIN rows : r[a].auto = M(a, "auto") /\ r[a].recent = M(a, "recent")
  BY DEF ApplySelection
<1>3. /\ Uses(r, "auto") <=> \E a \in DOMAIN rows : M(a, "auto") # "absent"
      /\ MarkedBy(r, "auto") = {a \in DOMAIN rows : M(a, "auto") = "1"}
      /\ MarkedBy(r, "recent") = {a \in DOMAIN rows : M(a, "recent") = "1"}
  BY <1>1, <1>2 DEF Uses, MarkedBy
<1> SUFFICES Marked(r) = IF id \in DOMAIN rows THEN {id} ELSE {} OBVIOUS
<1> HIDE DEF r
<1>4. /\ "recent" \in ActiveMarkerFields(rows) <=> Uses(rows, "recent")
      /\ "auto" \in ActiveMarkerFields(rows) <=> Uses(rows, "auto") \/ ~Uses(rows, "recent")
  BY DEF ActiveMarkerFields
<1>5. CASE "auto" \in ActiveMarkerFields(rows)
  <2>1. MarkedBy(r, "auto") = IF id \in DOMAIN rows THEN {id} ELSE {}
    BY <1>3, <1>5
  <2>2. CASE Uses(r, "auto")
    BY <2>1, <2>2 DEF Marked
  <2>3. CASE ~Uses(r, "auto")
    <3>1. id \notin DOMAIN rows BY <1>3, <1>5, <2>3
    <3>2. MarkedBy(r, "recent") = {}
      BY <1>3, <1>4, <3>1 DEF Uses
    <3> QED BY <2>3, <3>1, <3>2 DEF Marked
  <2> QED BY <2>2, <2>3
<1>6. CASE "auto" \notin ActiveMarkerFields(rows)
  <2>1. ~Uses(r, "auto") BY <1>3, <1>4, <1>6 DEF Uses
  <2>2. MarkedBy(r, "recent") = IF id \in DOMAIN rows THEN {id} ELSE {}
    BY <1>3, <1>4, <1>6
  <2> QED BY <2>1, <2>2 DEF Marked
<1> QED BY <1>5, <1>6

\* The rows select this account, which has one, or nobody.
Selects(rows, id) == ActiveSession(rows) = id /\ (id # NoOne => id \in DOMAIN rows)

\* What a switch is about to write selects the account of the switch.
LEMMA SelectionSelects ==
    ASSUME NEW rows, NEW id \in LoginIds \cup {NoOne}, NEW remember, DOMAIN rows \subseteq LoginIds
    PROVE  /\ Selects(ApplySelection(rows, id, remember), IF id \in DOMAIN rows THEN id ELSE NoOne)
           /\ DOMAIN ApplySelection(rows, id, remember) = DOMAIN rows
<1> DEFINE r == ApplySelection(rows, id, remember)
<1>1. DOMAIN r = DOMAIN rows BY DEF ApplySelection
<1>2. Marked(r) = IF id \in DOMAIN rows THEN {id} ELSE {} BY SelectionMarks
<1> HIDE DEF r
<1>3. Cardinality({id}) = 1 /\ Cardinality({}) = 0 BY FS_Singleton, FS_EmptySet
<1>4. ActiveSession(r) = IF id \in DOMAIN rows THEN id ELSE NoOne
  BY <1>2, <1>3 DEF ActiveSession
<1>5. Selects(r, IF id \in DOMAIN rows THEN id ELSE NoOne) BY <1>1, <1>4 DEF Selects
<1> QED BY <1>1, <1>5 DEF r

\* Every place that holds the friends state holds the one asked for, and one of them does.
LEMMA PersonaIsAsked ==
    ASSUME NEW f \in Friends
    PROVE  {WithPersona(f).leaf, WithPersona(f).prefs} \ {"none"} = {"asked"}
BY DEF Friends, Places, WithPersona, EnsureFriendStorePrefs, PatchPersona

Registries == [user : LoginIds \cup {NoOne, Unreadable}, remember : BOOLEAN]

\* Only known accounts have rows.
OfAccounts(rows) == DOMAIN rows \subseteq LoginIds

\* What a job is.
IsJob(j) ==
    /\ j = [pc |-> j.pc, op |-> j.op, id |-> j.id, remember |-> j.remember, alone |-> j.alone, rows |-> j.rows]
    /\ j.pc \in {"none", "backup", "write", "user", "remember", "persona"}
    /\ j.op \in {"none", "swap", "forget"} /\ j.id \in LoginIds \cup {NoOne} /\ OfAccounts(j.rows) /\ j.remember \in BOOLEAN
    /\ j.pc \in {"user", "remember", "persona"} => j.op = "swap"

\* A switch on its way holds rows that select its account, and what it has written is as it wrote
\* it, unless somebody else has written since.
SwitchSoFar(j, rows, user) ==
    /\ j.op = "swap" /\ j.pc # "none" => Selects(j.rows, j.id)
    /\ j.alone /\ j.pc \in {"user", "remember", "persona"} => rows = j.rows
    /\ j.alone /\ j.pc \in {"remember", "persona"} => user = j.id

\* A switch that is told of is in both records.
SwitchTold(s, rows, user) ==
    s.wrote => /\ s.id \in LoginIds \cup {NoOne} /\ Selects(rows, s.id) /\ user = s.id
               /\ {s.friends.leaf, s.friends.prefs} \ {"none"} = {"asked"}

SwitchInv ==
    /\ IsJob(job)
    /\ registry \in Registries /\ OfAccounts(file.rows)
    /\ SwitchSoFar(job, file.rows, registry.user)
    /\ SwitchTold(said, file.rows, registry.user)
    /\ ~Idle => ~said.wrote

\* No switch is on its way in the beginning.
LEMMA SwitchInitially == LoginInit => SwitchInv
<1> SUFFICES ASSUME LoginInit PROVE SwitchInv OBVIOUS
<1>1. IsJob(job) /\ job.pc = "none" BY DEF LoginInit, NoJob, IsJob, OfAccounts, NoRows
<1>2. ~said.wrote BY DEF LoginInit, NoSwitch
<1>3. registry \in Registries
  BY DEF LoginInit, Registries
<1>4. OfAccounts(file.rows) BY DEF LoginInit, UsersFile, OfAccounts
<1> QED BY <1>1, <1>2, <1>3, <1>4 DEF SwitchInv, SwitchSoFar, SwitchTold, Idle

\* Every step keeps what a switch has written.
LEMMA SwitchStep == SwitchInv /\ [LoginNext]_loginVars => SwitchInv'
<1> SUFFICES ASSUME SwitchInv, [LoginNext]_loginVars PROVE SwitchInv' OBVIOUS
<1>0. ~NoSwitch.wrote BY DEF NoSwitch
<1>00. IsJob(NoJob) /\ NoJob.pc = "none" BY DEF IsJob, NoJob, OfAccounts, NoRows
<1> USE <1>0, <1>00 DEF Idle
<1>1. ASSUME NEW id \in LoginIds \cup {NoOne}, NEW remember \in BOOLEAN, StartSwap(id, remember) PROVE SwitchInv'
  <2> DEFINE to == IF id \in DOMAIN file.rows THEN id ELSE NoOne
             rows == ApplySelection(file.rows, id, remember)
             j == [pc |-> "backup", op |-> "swap", id |-> to, remember |-> remember, alone |-> TRUE, rows |-> rows]
  <2>1. job' = j /\ said' = NoSwitch /\ UNCHANGED <<file, registry>> BY <1>1 DEF StartSwap
  <2>2. Selects(rows, to) /\ OfAccounts(rows) /\ to \in LoginIds \cup {NoOne} BY SelectionSelects DEF SwitchInv, OfAccounts
  <2> HIDE DEF rows, to
  <2>3. IsJob(j) /\ j.pc = "backup" /\ j.op = "swap" /\ j.rows = rows /\ j.id = to
    BY <2>2 DEF IsJob
  <2> HIDE DEF j
  <2> QED BY <2>1, <2>2, <2>3 DEF SwitchInv, SwitchSoFar, SwitchTold
<1>2. ASSUME NEW ok \in BOOLEAN, KeepCopy(ok) PROVE SwitchInv'
  <2> DEFINE j == [job EXCEPT !.pc = "write"]
  <2>1. job' = j /\ job.pc = "backup" BY <1>2 DEF KeepCopy, JobGoes
  <2>2. IsJob(j) /\ j.pc = "write" /\ j.op = job.op /\ j.rows = job.rows /\ j.id = job.id /\ j.alone = job.alone
    BY <2>1 DEF SwitchInv, IsJob
  <2> HIDE DEF j
  <2> QED BY <1>2, <2>1, <2>2 DEF KeepCopy, SwitchInv, SwitchSoFar
<1>3. ASSUME NEW f \in Friends, FinishSwap(f) PROVE SwitchInv'
  <2>1. said' = [id |-> job.id, wrote |-> job.alone, friends |-> WithPersona(f)] /\ job' = NoJob
        /\ UNCHANGED <<file, registry>> /\ job.pc = "persona"
    BY <1>3 DEF FinishSwap
  <2>2. SwitchTold(said', file.rows, registry.user)
    BY <2>1, PersonaIsAsked DEF SwitchTold, SwitchInv, SwitchSoFar, IsJob
  <2> QED BY <2>1, <2>2 DEF SwitchInv, SwitchSoFar
<1>4. CASE WriteLoginUsers
  <2>0. OfAccounts(file'.rows) BY <1>4 DEF WriteLoginUsers, UsersFile, SwitchInv, IsJob
  <2>1. file'.rows = job.rows /\ job.pc = "write" /\ UNCHANGED <<registry, said>> BY <1>4 DEF WriteLoginUsers, UsersFile
  <2>2. CASE job.op = "swap"
    <3> DEFINE j == [job EXCEPT !.pc = "user"]
    <3>1. job' = j BY <1>4, <2>2 DEF WriteLoginUsers
    <3>2. IsJob(j) /\ j.pc = "user" /\ j.op = job.op /\ j.rows = job.rows /\ j.id = job.id /\ j.alone = job.alone
      BY <2>2 DEF SwitchInv, IsJob
    <3> HIDE DEF j
    <3> QED BY <2>0, <2>1, <2>2, <3>1, <3>2 DEF SwitchInv, SwitchSoFar, SwitchTold
  <2>3. CASE job.op # "swap"
    BY <1>4, <2>0, <2>1, <2>3 DEF WriteLoginUsers, SwitchInv, SwitchSoFar, SwitchTold
  <2> QED BY <2>2, <2>3
<1>5. CASE SetAutoLogin
  <2> DEFINE j == [job EXCEPT !.pc = IF oneFile THEN "persona" ELSE "remember"]
  <2>1. job' = j /\ job.pc = "user" /\ UNCHANGED <<file, said>> BY <1>5 DEF SetAutoLogin, JobGoes
  <2>2. IsJob(j) /\ j.op = job.op /\ j.rows = job.rows /\ j.id = job.id /\ j.alone = job.alone
    BY <2>1 DEF SwitchInv, IsJob
  <2>3. registry' \in Registries /\ registry'.user = job.id
    <3>1. job.id \in LoginIds \cup {NoOne, Unreadable} /\ job.remember \in BOOLEAN /\ registry \in Registries
      BY DEF SwitchInv, IsJob
    <3>2. registry' = IF oneFile THEN [user |-> job.id, remember |-> job.remember]
                      ELSE [registry EXCEPT !.user = job.id]
      BY <1>5 DEF SetAutoLogin
    <3> QED BY <3>1, <3>2 DEF Registries
  <2> HIDE DEF j
  <2> QED BY <2>1, <2>2, <2>3 DEF SwitchInv, SwitchSoFar, SwitchTold
<1>6. CASE SetRemember
  <2> DEFINE j == [job EXCEPT !.pc = "persona"]
  <2>1. job' = j /\ job.pc = "remember" /\ UNCHANGED <<file, said>> BY <1>6 DEF SetRemember, JobGoes
  <2>2. IsJob(j) /\ j.op = job.op /\ j.rows = job.rows /\ j.id = job.id /\ j.alone = job.alone
    BY <2>1 DEF SwitchInv, IsJob
  <2>3. registry' \in Registries /\ registry'.user = registry.user
    <3>1. job.remember \in BOOLEAN /\ registry \in Registries BY DEF SwitchInv, IsJob
    <3>2. registry' = [registry EXCEPT !.remember = job.remember] BY <1>6 DEF SetRemember
    <3> QED BY <3>1, <3>2 DEF Registries
  <2> HIDE DEF j
  <2> QED BY <2>1, <2>2, <2>3 DEF SwitchInv, SwitchSoFar, SwitchTold
<1>7. CASE StopHalfWay
  BY <1>7 DEF StopHalfWay, SwitchInv, SwitchSoFar, SwitchTold
<1>8. ASSUME said' = NoSwitch, job' = [job EXCEPT !.alone = (job.pc = "none")],
             registry' \in Registries, OfAccounts(file'.rows)
      PROVE SwitchInv'
  <2> DEFINE j == [job EXCEPT !.alone = (job.pc = "none")]
  <2>1. IsJob(j) /\ j.pc = job.pc /\ j.op = job.op /\ j.rows = job.rows /\ j.id = job.id
    BY DEF SwitchInv, IsJob
  <2>2. j.pc # "none" => ~j.alone BY DEF SwitchInv, IsJob
  <2>3. job' = j BY <1>8
  <2> HIDE DEF j
  <2> QED BY <1>8, <2>1, <2>2, <2>3 DEF SwitchInv, SwitchSoFar, SwitchTold
<1>9. CASE Clear
  <2>1. registry' \in Registries
    BY <1>9 DEF Clear, DeleteValue, SwitchInv, Registries
  <2>2. OfAccounts(file'.rows)
    <3>1. OfAccounts(NoRows) BY DEF OfAccounts, NoRows
    <3>2. file' = Missing \/ file' = file BY <1>9 DEF Clear
    <3>3. OfAccounts(file.rows) BY DEF SwitchInv
    <3>4. Missing.rows = NoRows BY DEF Missing
    <3> QED BY <3>1, <3>2, <3>3, <3>4
  <2> QED BY <1>8, <1>9, <2>1, <2>2 DEF Clear
<1>10. CASE SpoilFiles
  <2>1. registry' \in Registries
    BY <1>10 DEF SpoilFiles, SwitchInv, Registries
  <2>2. OfAccounts(file'.rows)
    <3>1. OfAccounts(NoRows) BY DEF OfAccounts, NoRows
    <3>2. file'.rows = NoRows \/ file' = file BY <1>10 DEF SpoilFiles
    <3>3. OfAccounts(file.rows) BY DEF SwitchInv
    <3> QED BY <3>1, <3>2, <3>3
  <2> QED BY <1>8, <1>10, <2>1, <2>2 DEF SpoilFiles
<1>11. ASSUME NEW id \in LoginIds, SwapIsThere(id) PROVE SwitchInv'
  <2>1. ~said'.wrote BY <1>11 DEF SwapIsThere, NoSwitch
  <2> QED BY <1>11, <2>1 DEF SwapIsThere, SwitchInv, SwitchTold
<1>12. ASSUME NEW id \in LoginIds, StartForget(id) PROVE SwitchInv'
  <2>1. IsJob(job') /\ job'.op = "forget" /\ job'.pc = "backup"
    BY <1>12 DEF StartForget, NoJob, IsJob, Without, OfAccounts, SwitchInv
  <2> QED BY <1>12, <2>1 DEF StartForget, SwitchInv, SwitchSoFar, SwitchTold
<1>13. ASSUME NEW id \in LoginIds, NEW remember \in BOOLEAN, NEW fields, SteamSignsIn(id, remember, fields)
       PROVE SwitchInv'
  <2>1. registry' \in Registries
    BY <1>13 DEF SteamSignsIn, Registries
  <2>2. OfAccounts(file'.rows) BY <1>13 DEF SteamSignsIn, UsersFile, OfAccounts, SwitchInv
  <2> QED BY <1>8, <1>13, <2>1, <2>2 DEF SteamSignsIn
<1>14. CASE UNCHANGED loginVars
  BY <1>14 DEF loginVars, SwitchInv
<1> QED BY <1>1, <1>2, <1>3, <1>4, <1>5, <1>6, <1>7, <1>9, <1>10, <1>11, <1>12, <1>13, <1>14 DEF LoginNext, LoginStep

\* Whatever markers the file uses and whoever else writes before and after: a switch that was written
\* with nobody between and reported is what the file, the registry and the app say, until something
\* else is written.
THEOREM WrittenSwitchIsSeen == LoginSpec => []SwitchIsSeen
<1>1. SwitchInv => SwitchIsSeen
  <2> SUFFICES ASSUME SwitchInv, said.wrote PROVE SwitchIsSeen
    BY DEF SwitchIsSeen
  <2>1. /\ said.id \in LoginIds \cup {NoOne} /\ Selects(file.rows, said.id) /\ registry.user = said.id
        /\ {said.friends.leaf, said.friends.prefs} \ {"none"} = {"asked"}
    BY DEF SwitchInv, SwitchTold
  <2>2. DOMAIN file.rows # {} => SessionVerdict.id = said.id
    BY <2>1, LoginAssumption DEF SessionVerdict, ParseLoginUsers, ResolveSession, Selects
  <2> QED BY <2>1, <2>2 DEF SwitchIsSeen, Selects
<1> QED BY <1>1, SwitchInitially, SwitchStep, PTL DEF LoginSpec

-----------------------------------------------------------------------------
(* The sign-in watch.                                                      *)

\* What a watch can be.
Watches == [on : {TRUE}, user : Users, startedAt : Int, noStoredLogin : BOOLEAN,
            hadToken : BOOLEAN, sawClient : BOOLEAN, goneSince : Int,
            activeMoved : BOOLEAN, rejectionSeen : BOOLEAN]

Verdicts == [state : States, user : Users \cup {NoUser}]

\* The shapes, and that no watch is newer than the last launch.
WatchShape ==
    /\ second \in Int /\ generation \in Nat
    /\ logged \in [Users -> [at : Int, ok : BOOLEAN]]
    /\ \A u \in Users : logged[u].at <= second
    /\ watch \in [Generations -> Watches \cup {NoWatch}]
    /\ looked \in [Generations -> Verdicts]
    /\ status \in Verdicts
    /\ \A g \in Generations : g > generation => watch[g] = NoWatch
    /\ \A g \in Generations : watch[g] = NoWatch => looked[g] = NoVerdict

\* The evidence the watch w holds tells of a sign-in since the last launch.
Grounded(w, log, active, signedIn) ==
    /\ log[w.user].at > w.startedAt /\ log[w.user].ok => w.user \in signedIn
    /\ w.activeMoved /\ active = w.user => w.user \in signedIn

\* The newest watch, what it has decided, and what is stored.
WatchInv ==
    /\ WatchShape
    /\ \A g \in Generations : g = generation /\ watch[g] # NoWatch => Grounded(watch[g], logged, activeUser, came)
    /\ \A g \in Generations : g = generation /\ looked[g].state = "confirmed" => looked[g].user \in came
    /\ NeverFalselySignedIn

\* Before the first login nothing is watched and nothing is claimed.
LEMMA WatchInitially == WatchInit => WatchInv
<1> SUFFICES ASSUME WatchInit PROVE WatchInv OBVIOUS
<1> USE DEF WatchInit
<1>1. NoVerdict \in Verdicts /\ NoVerdict.state = "none"
  BY DEF NoVerdict, Verdict, Verdicts, States
<1>2. logged \in [Users -> [at : Int, ok : BOOLEAN]] /\ \A u \in Users : logged[u].at <= second
  BY DEF Silent
<1>3. WatchShape
  BY <1>1, <1>2 DEF WatchShape
<1> QED BY <1>1, <1>3 DEF WatchInv, NeverFalselySignedIn

\* A watch begins with nothing seen.
LEMMA ANewWatch ==
    ASSUME NEW u \in Users, NEW readable \in BOOLEAN, WatchShape
    PROVE  /\ NewWatch(u, readable) \in Watches
           /\ NewWatch(u, readable).user = u /\ NewWatch(u, readable).startedAt = second
           /\ NewWatch(u, readable).activeMoved = (activeUser # u)
BY DEF NewWatch, Watches, StoredLoginMissing, Moved, WatchShape

\* A look at Steam leaves the watch a watch, of the same login.
LEMMA ALook ==
    ASSUME NEW w \in Watches, WatchShape
    PROVE  /\ Looked(w) \in Watches
           /\ Looked(w).user = w.user /\ Looked(w).startedAt = w.startedAt
           /\ Looked(w).activeMoved /\ activeUser = w.user => w.activeMoved
<1> DEFINE gone == IF steamUp THEN -1 ELSE IF w.goneSince = -1 THEN second ELSE w.goneSince
           fresh == Heard(w) /\ ~logged[w.user].ok /\ ~w.rejectionSeen
           moved == IF fresh THEN FALSE ELSE w.activeMoved
           x == [w EXCEPT !.sawClient = @ \/ steamUp, !.goneSince = gone,
                 !.rejectionSeen = @ \/ fresh,
                 !.activeMoved = moved \/ (steamUp /\ activeUser # w.user)]
<1>1. Looked(w) = x BY DEF Looked
<1>2. gone \in Int BY DEF Watches, WatchShape
<1>3. fresh \in BOOLEAN BY DEF Heard
<1>4. moved \in BOOLEAN BY DEF Watches
<1> QED BY <1>1, <1>2, <1>3, <1>4 DEF Watches

\* Every step leaves the watches and verdicts well formed.
LEMMA ShapeStep == WatchShape /\ [WatchNext]_watchVars => WatchShape'
<1> SUFFICES ASSUME WatchShape, [WatchNext]_watchVars PROVE WatchShape' OBVIOUS
<1> USE WatchAssumption DEF Generations
<1>00. \A w \in Watches : w # NoWatch
  BY DEF Watches, NoWatch
<1>0. NoVerdict \in Verdicts BY DEF NoVerdict, Verdict, Verdicts, States
<1>1. CASE SecondPasses
  BY <1>1 DEF SecondPasses, WatchShape
<1>2. CASE SteamStarts
  BY <1>2 DEF SteamStarts, WatchShape, Ours
<1>3. CASE ClearWatch
  BY <1>3, <1>0 DEF ClearWatch, WatchShape
<1>4. ASSUME NEW u \in Users, Accepts(u) PROVE WatchShape'
  <2>1. /\ logged' \in [Users -> [at : Int, ok : BOOLEAN]]
        /\ \A v \in Users : logged'[v].at <= second
    <3>1. CASE logged' = logged BY <3>1 DEF WatchShape
    <3>2. CASE logged' = [logged EXCEPT ![u] = [at |-> second, ok |-> TRUE]]
      BY <3>2 DEF WatchShape
    <3> QED BY <1>4, <3>1, <3>2 DEF Accepts
  <2> QED BY <1>4, <2>1 DEF Accepts, WatchShape, Ours
<1>5. ASSUME NEW u \in Users, Rejects(u) PROVE WatchShape'
  BY <1>5 DEF Rejects, WatchShape, Ours
<1>6. ASSUME NEW u \in Users, Launch(u) PROVE WatchShape'
  <2>0. Verdict("waiting", u) \in Verdicts BY DEF Verdict, Verdicts, States
  <2>1. /\ generation' = generation + 1 /\ status' \in Verdicts
        /\ UNCHANGED <<second, logged, looked>>
    BY <1>6, <1>0, <2>0 DEF Launch
  <2>2. CASE watch' = watch
    BY <2>1, <2>2 DEF WatchShape
  <2>3. ASSUME NEW readable \in BOOLEAN, watch' = [watch EXCEPT ![generation + 1] = NewWatch(u, readable)]
        PROVE WatchShape'
    <3> DEFINE n == NewWatch(u, readable)
    <3>1. n \in Watches BY ANewWatch
    <3>2. watch' = [watch EXCEPT ![generation + 1] = n] BY <2>3
    <3> HIDE DEF n
    <3>3. watch' \in [Generations -> Watches \cup {NoWatch}]
      BY <3>1, <3>2 DEF WatchShape
    <3>4. \A g \in Generations : g # generation + 1 => watch'[g] = watch[g]
      BY <3>2 DEF WatchShape
    <3>5. \A g \in Generations : watch'[g] = NoWatch => looked'[g] = NoVerdict
      <4>1. \A g \in Generations : g # generation + 1 => (watch'[g] = NoWatch => looked'[g] = NoVerdict)
        BY <2>1, <3>4 DEF WatchShape
      <4>2. generation + 1 \in Generations => watch'[generation + 1] # NoWatch
        BY <3>1, <3>2, <1>00 DEF WatchShape
      <4> QED BY <4>1, <4>2
    <3>6. \A g \in Generations : g > generation' => watch'[g] = NoWatch
      BY <2>1, <3>4 DEF WatchShape
    <3> QED BY <2>1, <3>3, <3>5, <3>6 DEF WatchShape
  <2> QED BY <1>6, <2>2, <2>3 DEF Launch
<1>7. ASSUME NEW killed \in BOOLEAN, Stops(killed) PROVE WatchShape'
  BY <1>7 DEF Stops, WatchShape, Ours
<1>8. ASSUME NEW g \in Generations, CheckAgain(g) PROVE WatchShape'
  <2>1. watch[g] \in Watches BY <1>8 DEF CheckAgain, WatchShape, NoWatch
  <2> DEFINE w == watch'[g]
             v == looked'[g]
  <2>2. w \in Watches
    BY <1>8, <2>1, ALook DEF CheckAgain, WatchShape, Watches
  <2>3. v \in Verdicts
    BY <1>8, <2>2 DEF CheckAgain, WatchShape, Watches, Verdict, Verdicts, States, Decided
  <2>4. watch' = [watch EXCEPT ![g] = w] /\ looked' = [looked EXCEPT ![g] = v]
        /\ UNCHANGED <<second, logged, generation, status>>
    BY <1>8 DEF CheckAgain, WatchShape
  <2>5. w # NoWatch /\ watch[g] # NoWatch BY <2>1, <2>2, <1>00
  <2> HIDE DEF w, v
  <2> QED BY <2>2, <2>3, <2>4, <2>5 DEF WatchShape
<1>9. ASSUME NEW g \in Generations, Store(g) PROVE WatchShape'
  BY <1>9, <1>0 DEF Store, WatchShape
<1>10. CASE UNCHANGED watchVars
  BY <1>10 DEF watchVars, WatchShape
<1> QED BY <1>1, <1>2, <1>3, <1>4, <1>5, <1>6, <1>7, <1>8, <1>9, <1>10 DEF WatchNext

\* Every step keeps what the newest watch, its decision and the stored verdict claim.
LEMMA WatchStep == ~EarlyActive /\ WatchInv /\ [WatchNext]_watchVars => WatchInv'
<1> SUFFICES ASSUME ~EarlyActive, WatchInv, [WatchNext]_watchVars PROVE WatchInv' OBVIOUS
<1> USE WatchAssumption DEF Generations
<1>00. \A w \in Watches : w # NoWatch /\ w.user \in Users
  BY DEF Watches, NoWatch
<1>01. NoVerdict.state = "none" BY DEF NoVerdict, Verdict
<1>02. WatchShape /\ WatchShape' BY ShapeStep DEF WatchInv
<1>03. \A g \in Generations : watch[g] # NoWatch => watch[g] \in Watches
  BY <1>02 DEF WatchShape
<1>1. CASE SecondPasses
  BY <1>1, <1>02 DEF SecondPasses, WatchInv, Grounded, Heard, NeverFalselySignedIn
<1>2. CASE SteamStarts
  BY <1>2, <1>02, <1>03, <1>00 DEF SteamStarts, WatchInv, Grounded, Heard, NeverFalselySignedIn, Ours
<1>3. CASE ClearWatch
  BY <1>3, <1>02, <1>01 DEF ClearWatch, WatchInv, WatchShape, NeverFalselySignedIn
<1>4. ASSUME NEW u \in Users, Accepts(u) PROVE WatchInv'
  <2>1. \A v \in Users : v # u => logged'[v] = logged[v]
    BY <1>4, <1>02 DEF Accepts, WatchShape
  <2>2. came' = came \cup {u} /\ activeUser' = u /\ UNCHANGED <<generation, status, watch, looked>>
    BY <1>4 DEF Accepts, Ours
  <2>3. \A g \in Generations : g = generation /\ watch[g] # NoWatch => Grounded(watch'[g], logged', activeUser', came')
    <3> SUFFICES ASSUME NEW g \in Generations, g = generation, watch[g] # NoWatch
                 PROVE  Grounded(watch'[g], logged', activeUser', came')
      OBVIOUS
    <3> DEFINE w == watch[g]
    <3>1. w \in Watches /\ w.user \in Users /\ Grounded(w, logged, activeUser, came) /\ w = watch'[g]
      BY <1>03, <1>00, <2>2 DEF WatchInv
    <3> HIDE DEF w
    <3> SUFFICES Grounded(w, logged', activeUser', came')
      BY <3>1
    <3>2. CASE w.user = u
      BY <3>2, <2>2 DEF Grounded
    <3>3. CASE w.user # u
      <4>1. logged'[w.user] = logged[w.user] /\ activeUser' # w.user BY <3>1, <3>3, <2>1, <2>2
      <4>2. w.user \in came => w.user \in came' BY <2>2
      <4> QED BY <3>1, <4>1, <4>2 DEF Grounded
    <3> QED BY <3>2, <3>3
  <2> QED BY <2>2, <2>3, <1>02 DEF WatchInv, NeverFalselySignedIn
<1>5. ASSUME NEW u \in Users, Rejects(u) PROVE WatchInv'
  <2>1. \A v \in Users : logged'[v].ok = FALSE
    BY <1>5, <1>02 DEF Rejects, WatchShape
  <2>2. activeUser' = NoUser /\ UNCHANGED <<generation, status, watch, looked, came>>
    BY <1>5 DEF Rejects, Ours
  <2> QED BY <2>1, <2>2, <1>00, <1>02, <1>03 DEF WatchInv, Grounded, NeverFalselySignedIn
<1>6. ASSUME NEW u \in Users, Launch(u) PROVE WatchInv'
  <2>1. /\ generation' = generation + 1 /\ came' = {} /\ status'.state # "confirmed"
        /\ UNCHANGED <<logged, looked, activeUser>>
    BY <1>6, <1>01 DEF Launch, Verdict
  <2>2. \A g \in Generations : g = generation' => looked'[g].state # "confirmed"
    BY <2>1, <1>02, <1>01 DEF WatchShape
  <2>3. \A g \in Generations : g = generation' /\ watch'[g] # NoWatch => Grounded(watch'[g], logged', activeUser', came')
    <3>1. CASE watch' = watch BY <2>1, <3>1, <1>02 DEF WatchShape
    <3>2. ASSUME NEW readable \in BOOLEAN, watch' = [watch EXCEPT ![generation + 1] = NewWatch(u, readable)],
                 NEW g \in Generations, g = generation'
          PROVE Grounded(watch'[g], logged', activeUser', came')
      <4> DEFINE w == watch'[g]
      <4>1. w = NewWatch(u, readable) BY <3>2, <2>1, <1>02 DEF WatchShape
      <4>2. w.user = u /\ w.startedAt = second /\ w.activeMoved = (activeUser # u)
        BY <4>1, <1>02, ANewWatch
      <4>3. logged[u].at <= second /\ logged[u].at \in Int /\ second \in Int
        BY <1>02 DEF WatchShape
      <4> HIDE DEF w
      <4> SUFFICES /\ ~(logged'[w.user].at > w.startedAt)
                   /\ ~(w.activeMoved /\ activeUser' = w.user)
        BY DEF w, Grounded, Heard
      <4> QED BY <4>2, <4>3, <2>1
    <3> QED BY <1>6, <3>1, <3>2 DEF Launch
  <2> QED BY <2>1, <2>2, <2>3, <1>02 DEF WatchInv, NeverFalselySignedIn
<1>7. ASSUME NEW killed \in BOOLEAN, Stops(killed) PROVE WatchInv'
  BY <1>7, <1>02, <1>03, <1>00 DEF Stops, WatchInv, Grounded, Heard, NeverFalselySignedIn, Ours
<1>8. ASSUME NEW g \in Generations, CheckAgain(g) PROVE WatchInv'
  <2>1. watch[g] \in Watches /\ watch[g] # NoWatch
    BY <1>8, <1>02 DEF CheckAgain, WatchShape, NoWatch
  <2> DEFINE old == watch[g]
             w == watch'[g]
  <2>2. /\ w \in Watches /\ w.user = old.user /\ w.startedAt = old.startedAt
        /\ w.activeMoved /\ activeUser = w.user => old.activeMoved
    BY <1>8, <2>1, <1>02, ALook DEF CheckAgain, WatchShape, Watches
  <2>3. /\ watch' = [watch EXCEPT ![g] = w]
        /\ looked' = [looked EXCEPT ![g] = Verdict(Decided(w), w.user)]
        /\ UNCHANGED <<generation, status, came, logged, activeUser>>
    BY <1>8, <1>02 DEF CheckAgain, WatchShape
  <2> HIDE DEF w
  <2>4. g = generation => Grounded(w, logged, activeUser, came) /\ Grounded(w, logged', activeUser', came')
    BY <2>1, <2>2, <2>3 DEF WatchInv, Grounded, Heard, w
  <2>5. g = generation /\ Decided(w) = "confirmed" => w.user \in came
    BY <2>4 DEF Decided, Grounded, Heard
  <2>6. \A h \in Generations : h = generation /\ watch'[h] # NoWatch => Grounded(watch'[h], logged', activeUser', came')
    <3>1. CASE g = generation BY <2>3, <2>4, <3>1 DEF w
    <3>2. CASE g # generation
      BY <2>3, <3>2, <1>02 DEF WatchInv, Grounded, Heard, WatchShape
    <3> QED BY <3>1, <3>2
  <2>7. \A h \in Generations : h = generation /\ looked'[h].state = "confirmed" => looked'[h].user \in came
    BY <2>3, <2>5, <1>02 DEF WatchInv, WatchShape, Verdict
  <2> QED BY <2>3, <2>6, <2>7, <1>02 DEF WatchInv, NeverFalselySignedIn
<1>9. ASSUME NEW g \in Generations, Store(g) PROVE WatchInv'
  <2>1. /\ UNCHANGED <<generation, came, logged, activeUser>>
        /\ \A h \in Generations : watch'[h] \in {watch[h], NoWatch}
        /\ \A h \in Generations : looked'[h] \in {looked[h], NoVerdict}
        /\ status' = status \/ (g = generation /\ status' = looked[g])
    BY <1>9, <1>02 DEF Store, Stored, WatchShape
  <2> QED BY <2>1, <1>01, <1>02 DEF WatchInv, NeverFalselySignedIn, Grounded, Heard
<1>10. CASE UNCHANGED watchVars
  BY <1>10, <1>02 DEF watchVars, WatchInv, Grounded, Heard, NeverFalselySignedIn
<1> QED BY <1>1, <1>2, <1>3, <1>4, <1>5, <1>6, <1>7, <1>8, <1>9, <1>10 DEF WatchNext

\* "Signed in" is claimed only of an account that has signed in since the last launch, whatever
\* the timeouts and however many watches overlap; given that Steam keeps ActiveUser empty while
\* a sign-in is pending.
THEOREM NobodyIsFalselySignedIn == ~EarlyActive => (WatchSpec => []NeverFalselySignedIn)
<1> SUFFICES ASSUME ~EarlyActive PROVE WatchSpec => []NeverFalselySignedIn OBVIOUS
<1>1. WatchInv => NeverFalselySignedIn BY DEF WatchInv
<1>2. WatchInv /\ [WatchNext]_watchVars => WatchInv' BY WatchStep
<1> QED BY <1>1, <1>2, WatchInitially, PTL DEF WatchSpec

-----------------------------------------------------------------------------
(* The refresh of the profiles.                                              *)

Rounds == [step : {"none", "starting", "fetching"}, at : [Profiles -> {"profile", "image", "done"}],
           tries : [Profiles -> Nat], bans : SUBSET Profiles]
Tiles == [Profiles -> [meta : BOOLEAN, picture : BOOLEAN]]

\* A round that has not read the accounts yet is to come: by the timer, by a request that waits for
\* the round in progress, or by one that is over and has not asked yet.
Coming == timer \/ firing > 0 \/ IF Running THEN queued \/ round.step = "starting" ELSE again

\* What the window shows of an account is what the round in progress will still settle.
Owed(p) == tile[p] # Settled => round.step = "fetching" /\ round.at[p] # "done"

RefreshShape ==
    /\ timer \in BOOLEAN /\ firing \in Nat /\ queued \in BOOLEAN /\ again \in BOOLEAN
    /\ round \in Rounds /\ tile \in Tiles /\ cached \subseteq Profiles
    /\ asked \in Nat /\ read \in Nat /\ locked \in BOOLEAN /\ excused \in Nat

\* Nothing is turned away until the app is locked or a round skipped; until then, what no coming
\* round will see has been seen.
RefreshInv ==
    /\ RefreshShape
    /\ excused = 0 => ~locked
    /\ excused = 0 => Coming \/ (read = asked /\ \A p \in Profiles : Owed(p))

\* Before the first request there is nothing to see.
LEMMA RefreshInitially == RefreshInit => RefreshInv
<1> SUFFICES ASSUME RefreshInit PROVE RefreshInv
  OBVIOUS
<1>1. round \in Rounds BY DEF RefreshInit, Rounds, NoRound
<1>2. tile \in Tiles BY DEF RefreshInit, Tiles, Settled
<1>3. \A p \in Profiles : tile[p] = Settled BY DEF RefreshInit
<1> QED BY <1>1, <1>2, <1>3 DEF RefreshInit, RefreshInv, RefreshShape, Owed

\* Every step leaves the round and the tiles well formed.
LEMMA RefreshShapeStep == RefreshShape /\ [RefreshNext]_refreshVars => RefreshShape'
<1> SUFFICES ASSUME RefreshShape, [RefreshNext]_refreshVars PROVE RefreshShape'
  OBVIOUS
<1> USE DEF RefreshShape
<1>1. CASE ClearCaches
  <2>1. timer' \in BOOLEAN BY <1>1 DEF ClearCaches, Asks, StartsRefresh
  <2> QED BY <1>1, <2>1 DEF ClearCaches, Asks, ClearVACProfileCaches
<1>2. CASE AskAnyway BY <1>2 DEF AskAnyway, Asks, StartsRefresh
<1>3. CASE LoadList BY <1>3 DEF LoadList
<1>4. CASE ShowList
  <2>1. tile' \in Tiles BY <1>4 DEF ShowList, Tiles
  <2>2. timer' \in BOOLEAN BY <1>4 DEF ShowList, Asks, StartsRefresh
  <2> QED BY <1>4, <2>1, <2>2 DEF ShowList, Asks
<1>5. CASE TimerFires
  <2>1. firing' \in Nat BY <1>5 DEF TimerFires
  <2> QED BY <1>5, <2>1 DEF TimerFires
<1>6. CASE RunOrQueue
  <2>1. round' \in Rounds BY <1>6 DEF RunOrQueue, NoRound, Rounds
  <2>2. queued' \in BOOLEAN BY <1>6 DEF RunOrQueue
  <2>3. firing' \in Nat BY <1>6 DEF RunOrQueue
  <2> QED BY <1>6, <2>1, <2>2, <2>3 DEF RunOrQueue
<1>7. CASE ReadAccounts
  <2>1. round' \in Rounds BY <1>7 DEF ReadAccounts, Rounds, LoadVacCache
  <2> QED BY <1>7, <2>1 DEF ReadAccounts
<1>8. CASE SkipRound
  <2>1. round' \in Rounds BY <1>8 DEF SkipRound, NoRound, Rounds
  <2>2. again' \in BOOLEAN /\ queued' \in BOOLEAN BY <1>8 DEF SkipRound, TakesQueue
  <2> QED BY <1>8, <2>1, <2>2 DEF SkipRound, Excuses
<1>9. CASE EndRound
  <2>1. round' \in Rounds BY <1>9 DEF EndRound, NoRound, Rounds
  <2>2. cached' \subseteq Profiles BY <1>9 DEF EndRound, SaveVacCache, Rounds
  <2>3. again' \in BOOLEAN /\ queued' \in BOOLEAN BY <1>9 DEF EndRound, TakesQueue
  <2> QED BY <1>9, <2>1, <2>2, <2>3 DEF EndRound
<1>10. CASE AskAgain BY <1>10 DEF AskAgain, StartsRefresh
<1>11. ASSUME NEW p \in Profiles, Retry(p) PROVE RefreshShape'
  <2>1. round' \in Rounds BY <1>11 DEF Retry, Rounds
  <2>2. tile' \in Tiles BY <1>11 DEF Retry, Shows, Tiles
  <2> QED BY <1>11, <2>1, <2>2 DEF Retry, Within
<1>12. ASSUME NEW p \in Profiles, RefusedForGood(p) PROVE RefreshShape'
  <2>1. round' \in Rounds BY <1>12 DEF RefusedForGood, Rounds
  <2>2. tile' \in Tiles BY <1>12 DEF RefusedForGood, Shows, Tiles
  <2> QED BY <1>12, <2>1, <2>2 DEF RefusedForGood, Within
<1>13. ASSUME NEW p \in Profiles, Picture(p) PROVE RefreshShape'
  <2>1. round' \in Rounds BY <1>13 DEF Picture, Rounds
  <2>2. tile' \in Tiles BY <1>13 DEF Picture, Shows, Tiles
  <2> QED BY <1>13, <2>1, <2>2 DEF Picture, Within
<1>14. ASSUME NEW p \in Profiles, NEW fetched \in BOOLEAN, Profile(p, fetched) PROVE RefreshShape'
  <2>1. round' \in Rounds BY <1>14 DEF Profile, Rounds
  <2>2. tile' \in Tiles BY <1>14 DEF Profile, Shows, Tiles
  <2> QED BY <1>14, <2>1, <2>2 DEF Profile, Within
<1>15. CASE LockApp BY <1>15 DEF LockApp, Excuses
<1>16. CASE UnlockApp BY <1>16 DEF UnlockApp
<1>17. CASE UNCHANGED refreshVars BY <1>17 DEF refreshVars
<1> QED BY <1>1, <1>2, <1>3, <1>4, <1>5, <1>6, <1>7, <1>8, <1>9, <1>10, <1>11, <1>12, <1>13, <1>14, <1>15,
           <1>16, <1>17 DEF RefreshNext

\* Every step leaves what is asked for, and every tile, to a round.
LEMMA RefreshStep == RefreshInv /\ [RefreshNext]_refreshVars => RefreshInv'
<1> SUFFICES ASSUME RefreshInv, [RefreshNext]_refreshVars PROVE RefreshInv'
  OBVIOUS
<1>0. RefreshShape /\ RefreshShape' BY RefreshShapeStep DEF RefreshInv
<1> DEFINE Kept == /\ excused = 0 => ~locked
                   /\ excused = 0 => Coming \/ (read = asked /\ \A p \in Profiles : Owed(p))
<1>K. Kept BY DEF RefreshInv
<1> SUFFICES Kept' BY <1>0 DEF RefreshInv
<1> USE <1>0, <1>K DEF RefreshShape
<1>1. CASE ClearCaches BY <1>1 DEF ClearCaches, Asks, StartsRefresh, Coming
<1>2. CASE AskAnyway BY <1>2 DEF AskAnyway, Asks, StartsRefresh, Coming
<1>3. CASE LoadList BY <1>3 DEF LoadList, Coming, Running, Owed
<1>4. CASE ShowList BY <1>4 DEF ShowList, Asks, StartsRefresh, Coming
<1>5. CASE TimerFires BY <1>5 DEF TimerFires, Coming
<1>6. CASE RunOrQueue
  <2>1. excused' = 0 => Coming'
    BY <1>6 DEF RunOrQueue, Coming, Running, NoRound, Rounds
  <2> QED BY <1>6, <2>1 DEF RunOrQueue
<1>7. CASE ReadAccounts
  <2>1. \A p \in Profiles : Owed(p)' BY <1>7 DEF ReadAccounts, Owed
  <2> QED BY <1>7, <2>1 DEF ReadAccounts
<1>8. CASE SkipRound BY <1>8 DEF SkipRound, Excuses
<1>9. CASE EndRound
  <2>1. CASE timer \/ firing > 0 \/ queued
    BY <1>9, <2>1 DEF EndRound, TakesQueue, Coming, Running, NoRound
  <2>2. CASE ~(timer \/ firing > 0 \/ queued)
    <3>1. ~Coming BY <1>9, <2>2 DEF EndRound, Coming, Running
    <3>2. excused' = 0 => \A p \in Profiles : Owed(p)'
      BY <1>9, <3>1 DEF EndRound, Owed
    <3> QED BY <1>9, <3>1, <3>2 DEF EndRound
  <2> QED BY <2>1, <2>2
<1>10. CASE AskAgain BY <1>10 DEF AskAgain, StartsRefresh, Coming
<1>11. ASSUME NEW p \in Profiles, Within, round'.step = round.step,
              \A q \in Profiles \ {p} : tile'[q] = tile[q] /\ round'.at[q] = round.at[q],
              tile'[p] = Settled \/ round'.at[p] # "done"
       PROVE Kept'
  <2>1. Coming' = Coming BY <1>11 DEF Within, Coming, Running
  <2>2. excused' = 0 /\ ~Coming => \A q \in Profiles : Owed(q)'
    BY <1>11 DEF Within, Owed
  <2> QED BY <1>11, <2>1, <2>2 DEF Within
<1> HIDE DEF Kept
<1>12. ASSUME NEW p \in Profiles, Retry(p) PROVE Kept'
  BY <1>11, <1>12 DEF Retry, Within, Shows, Rounds, Tiles
<1>13. ASSUME NEW p \in Profiles, RefusedForGood(p) PROVE Kept'
  BY <1>11, <1>13 DEF RefusedForGood, Within, Shows, Rounds, Tiles, Settled
<1>14. ASSUME NEW p \in Profiles, Picture(p) PROVE Kept'
  BY <1>11, <1>14 DEF Picture, Within, Shows, Rounds, Tiles, Settled
<1>15. ASSUME NEW p \in Profiles, NEW fetched \in BOOLEAN, Profile(p, fetched) PROVE Kept'
  BY <1>11, <1>15 DEF Profile, Within, Shows, Rounds, Tiles, Settled
<1> USE DEF Kept
<1>16. CASE LockApp BY <1>16 DEF LockApp, Excuses
<1>17. CASE UnlockApp BY <1>17 DEF UnlockApp, Coming, Running, Owed
<1>18. CASE UNCHANGED refreshVars BY <1>18 DEF refreshVars, Coming, Running, Owed
<1> QED BY <1>1, <1>2, <1>3, <1>4, <1>5, <1>6, <1>7, <1>8, <1>9, <1>10, <1>12, <1>13, <1>14, <1>15,
           <1>16, <1>17, <1>18 DEF RefreshNext

\* However many requests, timers, rounds and pages overlap: when all is quiet, a round has read the
\* accounts after the last request and no tile still says that something is to come, unless the app
\* was locked or a round skipped.
THEOREM QuietIsAlwaysDone == RefreshSpec => []QuietMeansDone
<1>1. RefreshInv => QuietMeansDone
  BY DEF RefreshInv, RefreshShape, QuietMeansDone, Coming, Running, Owed
<1> QED BY <1>1, RefreshInitially, RefreshStep, PTL DEF RefreshSpec

-----------------------------------------------------------------------------
(* The recent accounts in the tray menu.                                     *)

IsTrayCall(k) ==
    /\ DOMAIN k = {"kind", "at", "id", "rows", "valid", "again"}
    /\ k.at \in {"idle", "load", "repair", "save", "refresh", "list", "set"}

\* Somebody will rebuild the menu from what is there then.
RefreshDue(calls) == \E c \in TrayCallers : calls[c].at = "refresh"
NotIdle(calls) == \E c \in TrayCallers : calls[c].at # "idle"

TrayShape ==
    /\ tray = [c \in TrayCallers |-> tray[c]] /\ \A c \in TrayCallers : IsTrayCall(tray[c])
    /\ gateShut \in BOOLEAN

\* The call that rebuilds the menu has the main thread.
OnMain(calls, main) ==
    /\ \A c \in TrayCallers : calls[c].at \in {"list", "set"} => main = c
    /\ main # NoCaller => main \in TrayCallers /\ calls[main].at \in {"list", "set", "repair"}

\* A rebuild that the lock or a save came between is followed by another.
RebuildCurrent(calls, main, shut, users) ==
    /\ main # NoCaller /\ shut => RefreshDue(calls)
    /\ \A c \in TrayCallers : calls[c].at = "set" => calls[c].rows = users.rows \/ RefreshDue(calls)

\* A menu that is behind the lock or the file is still to be rebuilt.
MenuDue(calls, main, shut, users, display) ==
    /\ display.gate \in BOOLEAN
    /\ shut => display.gate \/ RefreshDue(calls) \/ main # NoCaller
    /\ ~shut => (~display.gate /\ display.rows = users.rows) \/ NotIdle(calls)

MenuInv ==
    /\ TrayShape
    /\ OnMain(tray, mainThread)
    /\ RebuildCurrent(tray, mainThread, gateShut, recent)
    /\ MenuDue(tray, mainThread, gateShut, recent, menu)

\* One call's record is replaced.
Replaced(c, k) == tray' = [tray EXCEPT ![c] = k]

\* Nothing but the call's own record changes with it.
LEMMA ReplacedDoes ==
    ASSUME TrayShape, NEW c \in TrayCallers, NEW k, Replaced(c, k), IsTrayCall(k), gateShut' \in BOOLEAN
    PROVE  /\ TrayShape' /\ tray'[c] = k
           /\ \A d \in TrayCallers : d # c => tray'[d] = tray[d]
BY DEF TrayShape, Replaced

\* A call that asks for a rebuild begins, or does, or goes on to one.
LEMMA DueKeeps ==
    ASSUME MenuInv, NEW c \in TrayCallers, NEW k, Replaced(c, k), IsTrayCall(k), gateShut' \in BOOLEAN,
           tray[c].at \in {"idle", "load", "save"}, k.at \in {"load", "save", "refresh", "repair"},
           UNCHANGED <<mainThread, menu>>,
           k.at = "refresh" \/ UNCHANGED <<recent>>,
           k.at = "refresh" \/ gateShut' = gateShut \/ ~gateShut'
    PROVE  MenuInv'
<1>1. /\ TrayShape' /\ tray'[c] = k /\ \A d \in TrayCallers : d # c => tray'[d] = tray[d]
  BY ReplacedDoes DEF MenuInv
<1>2. OnMain(tray', mainThread)
  BY <1>1, TrayAssumption DEF MenuInv, OnMain
<1>3. RefreshDue(tray) => RefreshDue(tray') BY <1>1 DEF RefreshDue
<1>4. k.at = "refresh" => RefreshDue(tray') BY <1>1 DEF RefreshDue
<1>5. NotIdle(tray') BY <1>1 DEF NotIdle
<1>6. RebuildCurrent(tray', mainThread, gateShut', recent')
  <2>1. CASE RefreshDue(tray') BY <2>1 DEF RebuildCurrent
  <2>2. CASE ~RefreshDue(tray')
    BY <1>1, <1>3, <1>4, <2>2 DEF RebuildCurrent, MenuInv
  <2> QED BY <2>1, <2>2
<1>7. MenuDue(tray', mainThread, gateShut', recent', menu)
  BY <1>3, <1>4, <1>5 DEF MenuDue, MenuInv
<1> QED BY <1>1, <1>2, <1>6, <1>7 DEF MenuInv

\* The app starts with a menu that names no account, and a rebuild to come.
LEMMA TrayInitially == TrayInit => MenuInv
<1> SUFFICES ASSUME TrayInit PROVE MenuInv OBVIOUS
<1> DEFINE first == CHOOSE c \in TrayCallers : TRUE
           k == [TrayIdle EXCEPT !.kind = "start", !.at = IF gateShut THEN "refresh" ELSE "load", !.valid = known]
<1>1. tray = [c \in TrayCallers |-> IF c # first THEN TrayIdle ELSE k] BY DEF TrayInit
<1>2. mainThread = NoCaller /\ menu.gate = TRUE /\ gateShut \in BOOLEAN BY DEF TrayInit
<1>3. IsTrayCall(k) /\ k.at = IF gateShut THEN "refresh" ELSE "load" BY DEF IsTrayCall, TrayIdle
<1>4. IsTrayCall(TrayIdle) /\ TrayIdle.at = "idle" BY DEF IsTrayCall, TrayIdle
<1> HIDE DEF k, first
<1>5. TrayShape BY <1>1, <1>2, <1>3, <1>4 DEF TrayShape
<1>6. \A c \in TrayCallers : tray[c].at \in {"idle", "refresh", "load"} BY <1>1, <1>3, <1>4
<1>7. OnMain(tray, mainThread) BY <1>2, <1>6 DEF OnMain
<1>8. RebuildCurrent(tray, mainThread, gateShut, recent) BY <1>2, <1>6 DEF RebuildCurrent
<1>9. MenuDue(tray, mainThread, gateShut, recent, menu)
  <2>1. first \in TrayCallers BY TrayAssumption DEF first
  <2>2. NotIdle(tray) BY <1>1, <1>3, <2>1 DEF NotIdle
  <2> QED BY <1>2, <2>2 DEF MenuDue
<1> QED BY <1>5, <1>7, <1>8, <1>9 DEF MenuInv

\* Every step leaves a menu that is behind to a rebuild.
LEMMA MenuStep == MenuInv /\ [TrayNext]_trayVars => MenuInv'
<1> SUFFICES ASSUME MenuInv, [TrayNext]_trayVars PROVE MenuInv' OBVIOUS
<1>0. /\ TrayShape /\ OnMain(tray, mainThread)
      /\ RebuildCurrent(tray, mainThread, gateShut, recent)
      /\ MenuDue(tray, mainThread, gateShut, recent, menu)
  BY DEF MenuInv
<1>00. /\ IsTrayCall(TrayIdle) /\ TrayIdle.at = "idle"
  BY DEF IsTrayCall, TrayIdle
<1>1. ASSUME NEW c \in TrayCallers, NEW id, Swapped(c, id) PROVE MenuInv'
  <2> DEFINE k == [TrayIdle EXCEPT !.kind = "swap", !.at = "load", !.id = {id}]
  <2>1. IsTrayCall(k) /\ k.at = "load" BY DEF IsTrayCall, TrayIdle
  <2> HIDE DEF k
  <2>2. /\ Replaced(c, k) /\ tray[c].at = "idle"
        /\ UNCHANGED <<recent, gateShut, mainThread, menu>>
    BY <1>1 DEF Swapped, TrayCall, Replaced, k
  <2> QED BY <1>0, <2>1, <2>2, DueKeeps DEF TrayShape
<1>2. ASSUME NEW c \in TrayCallers, NEW id, RowClicked(c, id) PROVE MenuInv'
  <2> DEFINE k == [TrayIdle EXCEPT !.kind = "swap", !.at = "load", !.id = {id}, !.again = TRUE]
             l == [TrayIdle EXCEPT !.kind = "look", !.at = "refresh"]
  <2>1. IsTrayCall(k) /\ k.at = "load" /\ IsTrayCall(l) /\ l.at = "refresh" BY DEF IsTrayCall, TrayIdle
  <2>2. Replaced(c, k) \/ Replaced(c, l) BY <1>2 DEF RowClicked, TrayCall, Replaced
  <2>3. tray[c].at = "idle" /\ UNCHANGED <<recent, gateShut, mainThread, menu>>
    BY <1>2 DEF RowClicked, TrayCall
  <2> HIDE DEF k, l
  <2>4. CASE Replaced(c, k) BY <1>0, <2>1, <2>3, <2>4, DueKeeps DEF TrayShape
  <2>5. CASE Replaced(c, l) BY <1>0, <2>1, <2>3, <2>5, DueKeeps DEF TrayShape
  <2> QED BY <2>2, <2>4, <2>5
<1>3. ASSUME NEW c \in TrayCallers, Renames(c) PROVE MenuInv'
  <2> DEFINE k == [TrayIdle EXCEPT !.kind = "label", !.at = "load", !.valid = known]
  <2>1. IsTrayCall(k) /\ k.at = "load" BY DEF IsTrayCall, TrayIdle
  <2> HIDE DEF k
  <2>2. Replaced(c, k) /\ tray[c].at = "idle" /\ UNCHANGED <<recent, gateShut, mainThread, menu>>
    BY <1>3 DEF Renames, TrayCall, Replaced, k
  <2> QED BY <1>0, <2>1, <2>2, DueKeeps DEF TrayShape
<1>4. ASSUME NEW c \in TrayCallers, AppIsLocked(c) PROVE MenuInv'
  <2> DEFINE k == [TrayIdle EXCEPT !.kind = "lock", !.at = "refresh"]
  <2>1. IsTrayCall(k) /\ k.at = "refresh" BY DEF IsTrayCall, TrayIdle
  <2> HIDE DEF k
  <2>2. Replaced(c, k) /\ tray[c].at = "idle" /\ gateShut' \in BOOLEAN /\ UNCHANGED <<recent, mainThread, menu>>
    BY <1>4 DEF AppIsLocked, TrayCall, Replaced, k
  <2> QED BY <2>1, <2>2, DueKeeps
<1>5. ASSUME NEW c \in TrayCallers, AppIsUnlocked(c) PROVE MenuInv'
  <2> DEFINE k == [TrayIdle EXCEPT !.kind = "sync", !.at = "load", !.valid = known]
  <2>1. IsTrayCall(k) /\ k.at = "load" BY DEF IsTrayCall, TrayIdle
  <2> HIDE DEF k
  <2>2. /\ Replaced(c, k) /\ tray[c].at = "idle" /\ gateShut' \in BOOLEAN /\ ~gateShut'
        /\ UNCHANGED <<recent, mainThread, menu>>
    BY <1>5 DEF AppIsUnlocked, TrayCall, Replaced, k
  <2> QED BY <2>1, <2>2, DueKeeps
<1>6. ASSUME NEW c \in TrayCallers, CallLoads(c) PROVE MenuInv'
  <2> DEFINE r == [tray[c] EXCEPT !.at = "repair"]
             w == WithRows(c)
  <2>1. tray[c].at = "load" /\ UNCHANGED <<recent, gateShut, mainThread, menu>> /\ (Replaced(c, r) \/ Replaced(c, w))
    BY <1>0, <1>6 DEF CallLoads, LoadsUsers, Replaced, TrayShape
  <2>2. IsTrayCall(tray[c]) BY <1>0 DEF TrayShape
  <2>3. IsTrayCall(r) /\ r.at = "repair" BY <2>2 DEF IsTrayCall
  <2>4. IsTrayCall(w) /\ w.at \in {"save", "refresh"} BY <2>2 DEF IsTrayCall, WithRows
  <2> HIDE DEF r, w
  <2>5. CASE Replaced(c, r) BY <1>0, <2>1, <2>3, <2>5, DueKeeps DEF TrayShape
  <2>6. CASE Replaced(c, w) BY <1>0, <2>1, <2>4, <2>6, DueKeeps DEF TrayShape
  <2> QED BY <2>1, <2>5, <2>6
<1>7. ASSUME NEW c \in TrayCallers, CallSaves(c) PROVE MenuInv'
  <2> DEFINE k == [tray[c] EXCEPT !.at = "refresh", !.rows = <<>>]
  <2>1. IsTrayCall(tray[c]) BY <1>0 DEF TrayShape
  <2>2. IsTrayCall(k) /\ k.at = "refresh" BY <2>1 DEF IsTrayCall
  <2>3. Replaced(c, k) BY <1>0, <1>7, <2>1 DEF CallSaves, Replaced, TrayShape, IsTrayCall
  <2> HIDE DEF k
  <2>4. tray[c].at = "save" /\ UNCHANGED <<gateShut, mainThread, menu>> BY <1>7 DEF CallSaves
  <2> QED BY <1>0, <2>2, <2>3, <2>4, DueKeeps DEF TrayShape
<1>8. ASSUME NEW c \in TrayCallers PROVE IsTrayCall(AfterMenu(c)) /\ AfterMenu(c).at \in {"idle", "refresh"}
  BY DEF AfterMenu, IsTrayCall, TrayIdle
<1>9. ASSUME NEW c \in TrayCallers, RebuildBegins(c) PROVE MenuInv'
  <2>1. tray[c].at = "refresh" /\ mainThread = NoCaller /\ UNCHANGED <<recent, gateShut>>
    BY <1>9 DEF RebuildBegins, MainIsFree
  <2>2. CASE gateShut
    <3> DEFINE k == AfterMenu(c)
    <3>1. Replaced(c, k) /\ mainThread' = mainThread /\ menu'.gate = TRUE
      BY <1>9, <2>2 DEF RebuildBegins, Replaced
    <3>2. IsTrayCall(k) /\ k.at \in {"idle", "refresh"} BY <1>8
    <3> HIDE DEF k
    <3>3. /\ TrayShape' /\ tray'[c] = k /\ \A d \in TrayCallers : d # c => tray'[d] = tray[d]
      BY <1>0, <2>1, <3>1, <3>2, ReplacedDoes DEF TrayShape
    <3>4. OnMain(tray', mainThread') BY <1>0, <2>1, <3>1, <3>2, <3>3 DEF OnMain
    <3>5. \A d \in TrayCallers : tray'[d].at # "set"
      BY <1>0, <2>1, <3>2, <3>3, TrayAssumption DEF OnMain
    <3>6. RebuildCurrent(tray', mainThread', gateShut', recent') BY <2>1, <3>1, <3>5 DEF RebuildCurrent
    <3>7. MenuDue(tray', mainThread', gateShut', recent', menu') BY <2>1, <2>2, <3>1 DEF MenuDue
    <3> QED BY <3>3, <3>4, <3>6, <3>7 DEF MenuInv
  <2>3. CASE ~gateShut
    <3> DEFINE k == [tray[c] EXCEPT !.at = "list"]
    <3>0. IsTrayCall(tray[c]) BY <1>0 DEF TrayShape
    <3>1. Replaced(c, k) /\ mainThread' = c /\ menu' = menu
      BY <1>0, <1>9, <2>3 DEF RebuildBegins, Replaced, TrayShape
    <3>2. IsTrayCall(k) /\ k.at = "list" BY <3>0 DEF IsTrayCall
    <3> HIDE DEF k
    <3>3. /\ TrayShape' /\ tray'[c] = k /\ \A d \in TrayCallers : d # c => tray'[d] = tray[d]
      BY <1>0, <2>1, <3>1, <3>2, ReplacedDoes DEF TrayShape
    <3>4. \A d \in TrayCallers : tray[d].at \notin {"list", "set"}
      BY <1>0, <2>1, TrayAssumption DEF OnMain
    <3>5. OnMain(tray', mainThread') BY <3>1, <3>2, <3>3, <3>4 DEF OnMain
    <3>6. RebuildCurrent(tray', mainThread', gateShut', recent') BY <2>1, <2>3, <3>2, <3>3, <3>4 DEF RebuildCurrent
    <3>7. NotIdle(tray') BY <3>2, <3>3 DEF NotIdle
    <3>8. MenuDue(tray', mainThread', gateShut', recent', menu') BY <1>0, <2>1, <2>3, <3>1, <3>7 DEF MenuDue
    <3> QED BY <3>3, <3>5, <3>6, <3>8 DEF MenuInv
  <2> QED BY <2>2, <2>3
<1>10. ASSUME NEW c \in TrayCallers, RebuildLists(c) PROVE MenuInv'
  <2> DEFINE r == [tray[c] EXCEPT !.at = "repair"]
             s == [tray[c] EXCEPT !.at = "set", !.rows = recent.rows]
  <2>0. IsTrayCall(tray[c]) BY <1>0 DEF TrayShape
  <2>1. /\ tray[c].at = "list" /\ UNCHANGED <<recent, gateShut, mainThread, menu>>
        /\ Replaced(c, r) \/ Replaced(c, s)
    BY <1>0, <1>10 DEF RebuildLists, LoadsUsers, Replaced, TrayShape
  <2>2. /\ IsTrayCall(r) /\ r.at = "repair"
        /\ IsTrayCall(s) /\ s.at = "set" /\ s.rows = recent.rows
    BY <2>0 DEF IsTrayCall
  <2> HIDE DEF r, s
  <2>3. PICK k : Replaced(c, k) /\ IsTrayCall(k) /\ (k.at = "repair" \/ (k.at = "set" /\ k.rows = recent.rows))
    BY <2>1, <2>2
  <2>4. /\ TrayShape' /\ tray'[c] = k /\ \A d \in TrayCallers : d # c => tray'[d] = tray[d]
    BY <1>0, <2>1, <2>3, ReplacedDoes DEF TrayShape
  <2>5. OnMain(tray', mainThread') BY <1>0, <2>1, <2>3, <2>4 DEF OnMain
  <2>6. RefreshDue(tray) => RefreshDue(tray') BY <2>1, <2>4 DEF RefreshDue
  <2>7. RebuildCurrent(tray', mainThread', gateShut', recent') BY <1>0, <2>1, <2>3, <2>4, <2>6 DEF RebuildCurrent
  <2>8. NotIdle(tray') BY <2>3, <2>4 DEF NotIdle
  <2>9. MenuDue(tray', mainThread', gateShut', recent', menu') BY <1>0, <2>1, <2>6, <2>8 DEF MenuDue
  <2> QED BY <2>4, <2>5, <2>7, <2>9 DEF MenuInv
<1>11. ASSUME NEW c \in TrayCallers, RebuildSets(c) PROVE MenuInv'
  <2> DEFINE k == AfterMenu(c)
  <2>1. /\ tray[c].at = "set" /\ Replaced(c, k) /\ mainThread' = NoCaller /\ UNCHANGED <<recent, gateShut>>
        /\ menu'.gate = FALSE /\ menu'.rows = tray[c].rows
    BY <1>11 DEF RebuildSets, Replaced
  <2>2. IsTrayCall(k) /\ k.at \in {"idle", "refresh"} BY <1>8
  <2> HIDE DEF k
  <2>3. /\ TrayShape' /\ tray'[c] = k /\ \A d \in TrayCallers : d # c => tray'[d] = tray[d]
    BY <1>0, <2>1, <2>2, ReplacedDoes DEF TrayShape
  <2>4. mainThread = c /\ c # NoCaller BY <1>0, <2>1, TrayAssumption DEF OnMain
  <2>5. OnMain(tray', mainThread') BY <1>0, <2>1, <2>2, <2>3, <2>4 DEF OnMain
  <2>6. \A d \in TrayCallers : tray'[d].at # "set"
    BY <1>0, <2>2, <2>3, <2>4 DEF OnMain
  <2>7. RefreshDue(tray) => RefreshDue(tray') BY <2>1, <2>3 DEF RefreshDue
  <2>8. RebuildCurrent(tray', mainThread', gateShut', recent') BY <2>1, <2>6 DEF RebuildCurrent
  <2>9. RefreshDue(tray') => NotIdle(tray') BY DEF RefreshDue, NotIdle
  <2>10. MenuDue(tray', mainThread', gateShut', recent', menu')
    BY <1>0, <2>1, <2>4, <2>7, <2>9 DEF MenuDue, RebuildCurrent
  <2> QED BY <2>3, <2>5, <2>8, <2>10 DEF MenuInv
<1>12. CASE UNCHANGED <<tray, mainThread, gateShut, recent, menu>>
  BY <1>0, <1>12 DEF MenuInv, TrayShape
<1>13. CASE KnownChange BY <1>12, <1>13 DEF KnownChange
<1>14. CASE UNCHANGED trayVars BY <1>12, <1>14 DEF trayVars
<1> QED BY <1>1, <1>2, <1>3, <1>4, <1>5, <1>6, <1>7, <1>9, <1>10, <1>11, <1>13, <1>14 DEF TrayNext, TrayStep

\* However many calls switch, rename, lock and unlock at once: with no refresh to come, a locked app's
\* tray names no account, and with no call in progress it shows what the lock and the file say.
THEOREM MenuAlwaysFollows == TraySpec => []MenuFollows
<1>1. MenuInv => MenuFollows
  <2> SUFFICES ASSUME MenuInv PROVE MenuFollows OBVIOUS
  <2>1. (\A c \in TrayCallers : tray[c].at # "refresh") => ~RefreshDue(tray) BY DEF RefreshDue
  <2>2. (\A c \in TrayCallers : tray[c].at = "idle") => ~NotIdle(tray) /\ ~RefreshDue(tray) /\ mainThread = NoCaller
    BY DEF RefreshDue, NotIdle, MenuInv, OnMain
  <2>3. MenuDue(tray, mainThread, gateShut, recent, menu) BY DEF MenuInv
  <2>4. gateShut /\ mainThread = NoCaller /\ (\A c \in TrayCallers : tray[c].at # "refresh") => menu.gate
    BY <2>1, <2>3 DEF MenuDue
  <2>5. (\A c \in TrayCallers : tray[c].at = "idle") => menu.gate = gateShut /\ (gateShut \/ menu.rows = recent.rows)
    BY <2>2, <2>3 DEF MenuDue, MenuInv, TrayShape
  <2> QED BY <2>4, <2>5 DEF MenuFollows
<1> QED BY <1>1, TrayInitially, MenuStep, PTL DEF TraySpec

-----------------------------------------------------------------------------
(* Moving the user data.                                                   *)

MovingShape == [to : Folders, left : SUBSET Files, step : {"copy", "setting", "note", "restart"}]

\* A folder that holds every file.
Full(d) == \A f \in Files : data[d][f] # 0

DataShape ==
    /\ data \in [Folders -> [Files -> Nat]] /\ newest \in [Files -> Nat]
    /\ setting \in Folders /\ root \in Folders
    /\ note \in Moves \cup {NoMove} /\ args \in Moves \cup {NoMove}
    /\ process \in {"up", "down", "cleanup"}
    /\ moving \in MovingShape \cup {NotMoving} /\ remover \in Folders \cup {NoFolder}

\* Whoever takes up a move finds it going from elsewhere to the folder that is set.
LeadsHome(m) == m # NoMove => m.to = setting /\ m.from # m.to

\* A move in progress.
MoveAt ==
    moving # NotMoving => /\ process = "up" /\ remover = NoFolder /\ moving.to # root
                          /\ \A f \in Files \ moving.left : data[moving.to][f] # 0
                          /\ moving.step # "copy" => setting = moving.to

\* The folder that is set holds every file at every moment, and so does the one in use; what is
\* removed is neither.
DataInv ==
    /\ DataShape /\ MoveAt
    /\ Full(setting) /\ (process = "up" => Full(root))
    /\ process = "up" => args = NoMove
    /\ process = "cleanup" => root = setting
    /\ moving = NotMoving \/ moving.step # "note" => LeadsHome(note)
    /\ LeadsHome(args)
    /\ remover # NoFolder => process = "up" /\ root = setting /\ remover # root

\* The app starts out with its files where they are set to be.
LEMMA DataInitially == UserDataInit => DataInv
<1> SUFFICES ASSUME UserDataInit PROVE DataInv OBVIOUS
<1> PICK d \in Folders :
       /\ data = [e \in Folders |-> [f \in Files |-> IF e = d THEN 1 ELSE 0]]
       /\ setting = d /\ root = d /\ note = NoMove
       /\ process = "up" /\ moving = NotMoving /\ args = NoMove
       /\ remover = NoFolder /\ newest = [f \in Files |-> 1] /\ deaths = 0
  BY DEF UserDataInit
<1> QED BY DEF DataInv, DataShape, MoveAt, Full, LeadsHome

\* Without a torn move, a skipped file or a second move during the removal, every step keeps this.
LEMMA DataStep == Faults = {} /\ DataInv /\ [UserDataNext]_dataVars => DataInv'
<1> SUFFICES ASSUME Faults = {}, DataInv, [UserDataNext]_dataVars PROVE DataInv' OBVIOUS
<1> USE UserDataAssumption
<1>0. NotMoving.step = "none" /\ (\A m \in MovingShape : m.step # "none" /\ m # NotMoving)
      /\ NoFolder \notin Folders /\ (\A m \in Moves : m # NoMove /\ m.to \in Folders /\ m.from \in Folders)
  BY DEF NotMoving, MovingShape, NoFolder, Moves, NoMove
<1>1. ASSUME NEW f \in Files, Write(f) PROVE DataInv'
  <2> DEFINE n == newest[f] + 1
  <2>1. /\ data' = [data EXCEPT ![root][f] = n] /\ newest' = [newest EXCEPT ![f] = n] /\ n \in Nat /\ n # 0
        /\ UNCHANGED <<setting, note, process, root, moving, args, remover>> /\ process = "up"
    BY <1>1 DEF Write, DataInv, DataShape
  <2> HIDE DEF n
  <2>2. DataShape' BY <2>1 DEF DataInv, DataShape
  <2>3. \A d \in Folders, g \in Files : data[d][g] # 0 => data'[d][g] # 0
    BY <2>1 DEF DataInv, DataShape
  <2> QED BY <2>1, <2>2, <2>3 DEF DataInv, DataShape, MoveAt, Full, LeadsHome, MovingShape
<1>2. ASSUME NEW f \in Files, CopyOne(f) PROVE DataInv'
  <2>1. moving \in MovingShape /\ moving.step = "copy" /\ process = "up"
    BY <1>0, <1>2 DEF CopyOne, DataInv, DataShape, MoveAt
  <2> DEFINE m == [moving EXCEPT !.left = @ \ {f}]
  <2>2. /\ data' = [data EXCEPT ![moving.to][f] = data[root][f]]
        /\ moving' = m /\ UNCHANGED <<setting, note, process, root, args, remover, newest>>
    BY <1>2 DEF CopyOne, Skipped
  <2>3. m \in MovingShape /\ m.to = moving.to /\ m.left = moving.left \ {f} /\ m.step = "copy"
    BY <2>1 DEF MovingShape
  <2>4. data[root][f] # 0 /\ data[root][f] \in Nat /\ moving.to \in Folders
    BY <2>1 DEF DataInv, DataShape, Full, MovingShape
  <2> HIDE DEF m
  <2>5. DataShape' BY <2>2, <2>3, <2>4 DEF DataInv, DataShape
  <2>6. /\ \A d \in Folders, g \in Files : data[d][g] # 0 => data'[d][g] # 0
        /\ data'[moving.to][f] # 0
    BY <2>2, <2>4 DEF DataInv, DataShape
  <2>7. MoveAt'
    BY <1>0, <2>1, <2>2, <2>3, <2>4, <2>6 DEF DataInv, DataShape, MoveAt
  <2> QED BY <1>0, <2>1, <2>2, <2>3, <2>5, <2>6, <2>7 DEF DataInv, DataShape, Full, LeadsHome
<1>3. ASSUME NEW f \in Files, RemoveOne(f) PROVE DataInv'
  <2>1. /\ data' = [data EXCEPT ![remover][f] = 0] /\ remover # NoFolder
        /\ UNCHANGED <<setting, note, process, root, moving, args, remover, newest>>
    BY <1>3 DEF RemoveOne
  <2>2. DataShape' BY <2>1 DEF DataInv, DataShape
  <2>3. moving = NotMoving BY <2>1 DEF DataInv, MoveAt
  <2>4. setting # remover /\ root # remover BY <2>1 DEF DataInv
  <2>5. data'[setting] = data[setting] /\ data'[root] = data[root]
    BY <2>1, <2>4 DEF DataInv, DataShape
  <2> QED BY <2>1, <2>2, <2>3, <2>5 DEF DataInv, MoveAt, Full, LeadsHome
<1>4. ASSUME NEW to \in Folders, StartMove(to) PROVE DataInv'
  <2> DEFINE m == [to |-> to, left |-> {f \in Files : data[root][f] # 0}, step |-> "copy"]
  <2>1. /\ moving' = m /\ moving = NotMoving /\ remover = NoFolder /\ process = "up" /\ to # root
        /\ UNCHANGED <<data, setting, note, process, root, args, remover, newest>>
    BY <1>4 DEF StartMove
  <2>2. m \in MovingShape /\ m.to = to /\ m.step = "copy" /\ m.left = Files
    BY <2>1 DEF MovingShape, DataInv, Full
  <2> HIDE DEF m
  <2> QED BY <2>1, <2>2 DEF DataInv, DataShape, MoveAt, Full, LeadsHome
<1>5. CASE SaveSetting
  <2>1. moving \in MovingShape /\ moving.step = "copy" /\ moving.left = {}
    BY <1>0, <1>5 DEF SaveSetting, DataInv, DataShape
  <2> DEFINE m == [moving EXCEPT !.step = "note"]
  <2>2. /\ setting' = moving.to /\ moving' = m
        /\ UNCHANGED <<data, note, process, root, args, remover, newest>>
    BY <1>5 DEF SaveSetting
  <2>3. m \in MovingShape /\ m.to = moving.to /\ m.left = moving.left /\ m.step = "note" /\ moving.to \in Folders
    BY <2>1 DEF MovingShape
  <2>4. process = "up" /\ args = NoMove /\ remover = NoFolder /\ Full(moving.to) /\ Full(root) /\ moving.to # root
    BY <1>0, <2>1 DEF DataInv, MoveAt, Full
  <2> HIDE DEF m
  <2> QED BY <1>0, <2>1, <2>2, <2>3, <2>4 DEF DataInv, DataShape, MoveAt, Full, LeadsHome
<1>6. CASE WriteNote
  <2>1. moving \in MovingShape /\ moving.step = "note"
    BY <1>0, <1>6 DEF WriteNote, DataInv, DataShape
  <2> DEFINE m == [moving EXCEPT !.step = "restart"]
             n == [from |-> root, to |-> moving.to]
  <2>2. /\ note' = n /\ moving' = m
        /\ UNCHANGED <<data, setting, process, root, args, remover, newest>>
    BY <1>6 DEF WriteNote, NextNote
  <2>3. m \in MovingShape /\ m.to = moving.to /\ m.left = moving.left /\ m.step = "restart" /\ moving.to \in Folders
    BY <2>1 DEF MovingShape
  <2>4. n \in Moves /\ n.to = moving.to /\ n.from = root
    BY <2>3 DEF Moves, DataInv, DataShape
  <2>5. process = "up" /\ remover = NoFolder /\ setting = moving.to /\ moving.to # root
        /\ \A f \in Files \ moving.left : data[moving.to][f] # 0
    BY <1>0, <2>1 DEF DataInv, MoveAt
  <2> HIDE DEF m, n
  <2> QED BY <1>0, <2>2, <2>3, <2>4, <2>5 DEF DataInv, DataShape, MoveAt, Full, LeadsHome
<1>7. CASE RestartSelf
  <2>1. moving \in MovingShape /\ moving.step = "restart" /\ moving.to \in Folders
    BY <1>0, <1>7 DEF RestartSelf, DataInv, DataShape, MovingShape
  <2> DEFINE n == [from |-> root, to |-> moving.to]
  <2>2. n \in Moves /\ n.to = moving.to /\ n.from = root
    BY <2>1 DEF Moves, DataInv, DataShape
  <2>3. process = "up" /\ remover = NoFolder /\ setting = moving.to /\ moving.to # root /\ args = NoMove
    BY <1>0, <2>1 DEF DataInv, MoveAt
  <2>4. /\ moving' = NotMoving /\ UNCHANGED <<data, setting, note, root, newest>>
        /\ \/ process' = "up" /\ args' = args /\ remover' = remover
           \/ process' = "down" /\ args' = n /\ remover' = NoFolder
    BY <1>7 DEF RestartSelf
  <2> HIDE DEF n
  <2> QED BY <1>0, <2>1, <2>2, <2>3, <2>4 DEF DataInv, DataShape, MoveAt, Full, LeadsHome
<1>8. CASE End
  <2>1. /\ process' = "down" /\ moving' = NotMoving /\ args' = NoMove /\ remover' = NoFolder
        /\ UNCHANGED <<data, setting, note, root, newest>> /\ moving.step # "note"
    BY <1>8 DEF End
  <2> QED BY <2>1 DEF DataInv, DataShape, MoveAt, Full, LeadsHome
<1>9. CASE Start
  BY <1>9 DEF Start, DataInv, DataShape, MoveAt, Full, LeadsHome
<1>10. CASE FinalizeMove
  <2> DEFINE m == Cleanup
  <2>0. /\ process = "cleanup" /\ moving = NotMoving /\ remover = NoFolder /\ root = setting
        /\ process' = "up" /\ args' = NoMove /\ UNCHANGED <<setting, root, moving, newest>>
    BY <1>10 DEF FinalizeMove, DataInv, MoveAt
  <2>1. m \in Moves \cup {NoMove} /\ LeadsHome(m)
    BY <2>0 DEF Cleanup, DataInv, DataShape
  <2>2. \/ UNCHANGED <<data, note, remover>>
        \/ note' = NoMove /\ UNCHANGED <<data, remover>>
        \/ m # NoMove /\ data' = Merged(m) /\ remover' = m.from /\ UNCHANGED note
    BY <1>10 DEF FinalizeMove, Skipped
  <2> HIDE DEF m
  <2>3. CASE UNCHANGED <<data, note, remover>> \/ (note' = NoMove /\ UNCHANGED <<data, remover>>)
    BY <2>0, <2>3 DEF DataInv, DataShape, MoveAt, Full, LeadsHome
  <2>4. CASE m # NoMove /\ data' = Merged(m) /\ remover' = m.from /\ UNCHANGED note
    <3>1. m \in Moves /\ m.to = setting /\ m.from # setting /\ m.from \in Folders
      BY <1>0, <2>1, <2>4 DEF LeadsHome
    <3> DEFINE merged == [f \in Files |-> IF data[m.from][f] # 0 THEN data[m.from][f] ELSE data[setting][f]]
    <3>2. data' = [data EXCEPT ![setting] = merged]
      BY <2>4, <3>1 DEF Merged, DataInv, DataShape
    <3>3. merged \in [Files -> Nat] /\ \A f \in Files : merged[f] # 0
      BY <3>1 DEF DataInv, DataShape, Full
    <3> HIDE DEF merged
    <3>4. data' \in [Folders -> [Files -> Nat]] /\ data'[setting] = merged
      BY <3>2, <3>3 DEF DataInv, DataShape
    <3> QED BY <1>0, <2>0, <2>4, <3>1, <3>3, <3>4 DEF DataInv, DataShape, MoveAt, Full, LeadsHome
  <2> QED BY <2>2, <2>3, <2>4
<1>11. CASE OldRemoved
  BY <1>11 DEF OldRemoved, DataInv, DataShape, MoveAt, Full, LeadsHome
<1>12. CASE GiveUp
  BY <1>12 DEF GiveUp, DataInv, DataShape, MoveAt, Full, LeadsHome
<1>13. CASE UNCHANGED dataVars
  BY <1>13 DEF dataVars, DataInv, DataShape, MoveAt, Full, LeadsHome
<1> QED
  BY <1>1, <1>2, <1>3, <1>4, <1>5, <1>6, <1>7, <1>8, <1>9, <1>10, <1>11, <1>12, <1>13 DEF UserDataNext

\* However many folders and files, however often they are moved back and forth and wherever the process
\* ends, the app that runs finds every file; given that no copy skips one, the process does not
\* end between the setting and the note, and no move starts while the old folder is removed.
THEOREM NoFileGoesMissing == Faults = {} => (UserDataSpec => []FilesStay)
<1> SUFFICES ASSUME Faults = {} PROVE UserDataSpec => []FilesStay OBVIOUS
<1>1. DataInv => FilesStay BY DEF DataInv, FilesStay, Full
<1>2. DataInv /\ [UserDataNext]_dataVars => DataInv' BY DataStep
<1> QED BY <1>1, <1>2, DataInitially, PTL DEF UserDataSpec

-----------------------------------------------------------------------------
(* Restoring a backup.                                                       *)

TaskShape(k) == DOMAIN k = {"at", "next", "from", "staged", "touched"}
IsTask(k) ==
    /\ TaskShape(k)
    /\ k.at \in {"idle", "confirm", "copy", "restored"} /\ k.next \in Nat
    /\ k.at = "confirm" => k.next = 1

\* Unless Steam wrote meanwhile, the files before the next one are the archive's, and nobody's kit is in them.
CopiedSoFar(k, live, on) ==
    k.at = "copy" /\ ~k.touched =>
        ~on /\ \A f \in TreeFiles : f < k.next /\ k.staged[f] # NoFile => live[f] = k.staged[f]

RestoreInv ==
    /\ IsTask(task) /\ tree = [f \in TreeFiles |-> tree[f]]
    /\ CopiedSoFar(task, tree, kitOn)

\* Nothing is being restored in the beginning.
LEMMA RestoreInitially == BackupInit => RestoreInv
<1> SUFFICES ASSUME BackupInit PROVE RestoreInv OBVIOUS
<1>1. IsTask(task) /\ task.at = "idle" BY DEF BackupInit, NoTask, IsTask, TaskShape
<1>2. tree = [f \in TreeFiles |-> tree[f]] BY DEF BackupInit
<1> QED BY <1>1, <1>2 DEF RestoreInv, CopiedSoFar

\* Every step keeps what has been copied.
LEMMA RestoreStep == RestoreInv /\ [BackupNext]_backupVars => RestoreInv'
<1> SUFFICES ASSUME RestoreInv, [BackupNext]_backupVars PROVE RestoreInv' OBVIOUS
<1>0. /\ IsTask(task) /\ tree = [f \in TreeFiles |-> tree[f]]
      /\ CopiedSoFar(task, tree, kitOn)
  BY DEF RestoreInv
<1>00. IsTask(NoTask) /\ NoTask.at = "idle" BY DEF NoTask, IsTask, TaskShape
<1>1. CASE UNCHANGED <<task, tree, kitOn>>
  BY <1>0, <1>1 DEF RestoreInv
<1>2. CASE task' = NoTask /\ UNCHANGED tree
  BY <1>0, <1>00, <1>2 DEF RestoreInv, CopiedSoFar
<1>3. CASE RestoreAsked
  <2> DEFINE k == [NoTask EXCEPT !.at = "confirm"]
  <2>0. TaskShape(k) /\ k.at = "confirm" /\ k.next = 1 BY DEF TaskShape, NoTask
  <2>2. task' = k /\ UNCHANGED tree BY <1>3 DEF RestoreAsked
  <2> HIDE DEF k
  <2>1. IsTask(k) /\ k.at = "confirm" BY <2>0 DEF IsTask, TaskShape
  <2> QED BY <1>0, <2>1, <2>2 DEF RestoreInv, CopiedSoFar
<1>4. CASE Unpacks
  <2> DEFINE k == [task EXCEPT !.at = "copy", !.from = Latest, !.staged = archives[Latest].holds]
  <2>0. TaskShape(k) /\ k.at = "copy" /\ k.next = task.next BY <1>0 DEF IsTask, TaskShape
  <2>2. task' = k /\ UNCHANGED <<tree, kitOn>> /\ ~kitOn /\ task.at = "confirm" BY <1>4 DEF Unpacks
  <2> HIDE DEF k
  <2>1. IsTask(k) /\ k.next = 1 BY <1>0, <2>0, <2>2 DEF IsTask, TaskShape
  <2> QED BY <1>0, <2>1, <2>2 DEF RestoreInv, CopiedSoFar, TreeFiles
<1>5. CASE FileCopied
  <2> DEFINE k == [task EXCEPT !.next = @ + 1]
  <2>0. TaskShape(k) /\ k.next = task.next + 1 /\ k.at = task.at /\ k.staged = task.staged /\ k.touched = task.touched
    BY <1>0 DEF IsTask, TaskShape
  <2>2. task' = k /\ UNCHANGED kitOn /\ task.at = "copy" BY <1>5 DEF FileCopied
  <2> HIDE DEF k
  <2>1. IsTask(k) BY <1>0, <2>0, <2>2 DEF IsTask, TaskShape
  <2>3. tree' = [tree EXCEPT ![task.next] = IF task.staged[task.next] = NoFile THEN @ ELSE task.staged[task.next]]
    BY <1>5 DEF FileCopied
  <2>4. tree' = [f \in TreeFiles |-> tree'[f]] BY <1>0, <2>3
  <2>5. \A f \in TreeFiles : tree'[f] = IF f = task.next /\ task.staged[f] # NoFile THEN task.staged[f] ELSE tree[f]
    BY <1>0, <2>3
  <2>6. \A f \in TreeFiles : f < task.next + 1 => f < task.next \/ f = task.next
    BY <1>0 DEF IsTask, TaskShape, TreeFiles
  <2>7. CopiedSoFar(k, tree', kitOn)
    BY <1>0, <2>0, <2>5, <2>6 DEF CopiedSoFar
  <2> QED BY <2>1, <2>2, <2>4, <2>7 DEF RestoreInv
<1>6. CASE FilesCopied
  <2> DEFINE k == [task EXCEPT !.at = "restored"]
  <2>1. IsTask(k) /\ k.at = "restored" BY <1>0 DEF IsTask, TaskShape
  <2>2. task' = k /\ UNCHANGED tree BY <1>6 DEF FilesCopied
  <2> HIDE DEF k
  <2> QED BY <1>0, <2>1, <2>2 DEF RestoreInv, CopiedSoFar
<1>7. CASE KitComes \/ KitGoes
  <2>1. task.at # "copy" /\ UNCHANGED task BY <1>7 DEF KitComes, KitGoes, EngineIsFree
  <2>2. tree' = [f \in TreeFiles |-> tree'[f]] BY <1>0, <1>7 DEF KitComes, KitGoes
  <2> QED BY <1>0, <2>1, <2>2 DEF RestoreInv, CopiedSoFar
<1>8. CASE SteamWrites
  <2> DEFINE k == [task EXCEPT !.touched = TRUE]
  <2>0. TaskShape(k) /\ k.at = task.at /\ k.next = task.next /\ k.touched BY <1>0 DEF IsTask, TaskShape
  <2> HIDE DEF k
  <2>1. IsTask(k) /\ k.touched BY <1>0, <2>0 DEF IsTask, TaskShape
  <2>2. tree' = [f \in TreeFiles |-> tree'[f]] BY <1>0, <1>8 DEF SteamWrites
  <2>3. IsTask(task') /\ (task'.at = "copy" => task'.touched)
    <3>1. CASE task.at = "copy"
      <4>1. task' = k BY <1>8, <3>1 DEF SteamWrites, k
      <4> QED BY <2>1, <4>1
    <3>2. CASE task.at # "copy" BY <1>0, <1>8, <3>2 DEF SteamWrites
    <3> QED BY <3>1, <3>2
  <2> QED BY <2>2, <2>3 DEF RestoreInv, CopiedSoFar
<1>9. CASE BackupBegins BY <1>1, <1>9 DEF BackupBegins
<1>10. CASE FileAdded BY <1>1, <1>10 DEF FileAdded
<1>11. CASE ArchiveWritten BY <1>1, <1>11 DEF ArchiveWritten
<1>12. CASE FileNotAdded BY <1>1, <1>12 DEF FileNotAdded
<1>13. CASE ArchiveCut BY <1>1, <1>13 DEF ArchiveCut
<1>14. CASE RestoreEnds BY <1>2, <1>14 DEF RestoreEnds
<1>15. CASE RestoreCut BY <1>2, <1>15 DEF RestoreCut
<1>16. CASE AppDies BY <1>2, <1>16 DEF AppDies
<1>17. CASE SteamComesOrGoes BY <1>1, <1>17 DEF SteamComesOrGoes
<1>18. CASE UNCHANGED backupVars BY <1>1, <1>18 DEF backupVars
<1> QED BY <1>3, <1>4, <1>5, <1>6, <1>7, <1>8, <1>9, <1>10, <1>11, <1>12, <1>13, <1>14, <1>15, <1>16, <1>17, <1>18
        DEF BackupNext

\* However many files, archives and versions there are: a restore that reports success has put back
\* every file of the archive over nobody's kit, unless Steam wrote meanwhile.
THEOREM RestoresAreTheArchive == BackupSpec => RestoredIsTheArchive
<1>1. RestoreInv /\ [BackupNext]_backupVars => [Succeeds /\ ~task.touched => PutBack /\ ~kitOn]_backupVars
  <2> SUFFICES ASSUME RestoreInv, BackupNext, Succeeds, ~task.touched PROVE PutBack /\ ~kitOn OBVIOUS
  <2>0. IsTask(task) /\ CopiedSoFar(task, tree, kitOn) BY DEF RestoreInv
  <2>1. FilesCopied
    <3>1. task'.at # "idle" /\ task'.at # task.at /\ task.at = "copy" BY DEF Succeeds
    <3>2. NoTask.at = "idle" /\ [NoTask EXCEPT !.at = "confirm"].at = "confirm" BY DEF NoTask
    <3>3. ~RestoreAsked /\ ~Unpacks BY <3>1 DEF RestoreAsked, Unpacks
    <3>4. ~FileCopied BY <2>0, <3>1 DEF FileCopied, IsTask, TaskShape
    <3>5. ~SteamWrites BY <2>0, <3>1 DEF SteamWrites, IsTask, TaskShape
    <3> QED BY <3>1, <3>2, <3>3, <3>4, <3>5 DEF BackupNext, BackupBegins, FileAdded, ArchiveWritten, FileNotAdded, ArchiveCut,
               RestoreEnds, RestoreCut, AppDies, KitComes, KitGoes, SteamComesOrGoes
  <2>2. \A f \in TreeFiles : f < task.next
    BY <2>0, <2>1, FilesAssumption DEF FilesCopied, IsTask, TaskShape, TreeFiles
  <2> QED BY <2>0, <2>2 DEF CopiedSoFar, PutBack, Succeeds
<1> QED BY <1>1, RestoreInitially, RestoreStep, PTL DEF BackupSpec, RestoredIsTheArchive
=============================================================================
