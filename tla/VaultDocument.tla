---------------------------- MODULE VaultDocument ----------------------------
(***************************************************************************)
(* The vault's one document (internal/vault: store, entries, roster import *)
(* and handoff): every entry, the log of handoff bundles written here and  *)
(* the ledger of those accepted.  It is read whole, kept decrypted until   *)
(* the app locks, and written whole.                                       *)
(*                                                                         *)
(* A call is a goroutine: the window, the scheduler and the tray all reach *)
(* the document.  `mutate` loads, changes and saves under writeMu; reads,  *)
(* the plan of an import and the entry an export is made from take only    *)
(* the cache's own lock.  A step is what happens between two places where  *)
(* another goroutine can come in.  Which secrets an entry has is reduced   *)
(* to its password and its session token.                                  *)
(***************************************************************************)
EXTENDS FiniteSets, SequencesExt

CONSTANTS
    Accounts,     \* SteamIDs
    StandIns,     \* the random keys of entries whose SteamID is not known yet
    Callers,      \* goroutines
    Passwords,
    Inbound,      \* bundles somebody put in the handoff folder
    Outbound,     \* the ids of bundles exported here
    Rosters,      \* the ids of import sessions
    MaxImports,   \* maxImportSessions
    MaxRecords,   \* MaxExportRecords
    NoEntry, NoDoc, NoValue, NoOne,
    Relocks       \* TRUE: the app is unlocked and the document read again;
                  \* FALSE: read once, the app locks at most once more

Ids == Accounts \cup StandIns

VARIABLES
    file,         \* vault.json, sealed
    cached,       \* the document in memory
    unlocked,     \* RequireVaultUnlocked passes and the key is held
    writer,       \* who holds writeMu
    at, doing,    \* each call's next step, and the call
    own,          \* the document a call has read or is about to save
    rosters,      \* the import sessions: the password their rows carry
    handoffs,     \* the bundles in the folder that were exported here
    contents,     \* what is sealed in the inbound bundles
    minted,       \* stand-in keys handed out so far
    accepted      \* how often each inbound bundle was let in

disk  == <<file, handoffs>>
calls == <<writer, at, doing, own>>
vars  == <<disk, cached, unlocked, calls, rosters, contents, minted, accepted>>

Value    == Passwords \cup {NoValue}
Entry    == [password : Value, token : BOOLEAN]
Document == [entries : [Ids -> Entry \cup {NoEntry}],
             log     : Seq(Outbound),
             ledger  : SUBSET Inbound]

ASSUME DocumentAssumption ==
    /\ MaxRecords \in Nat \ {0}
    /\ NoDoc \notin Document /\ NoEntry \notin Entry /\ NoValue \notin Passwords
    /\ NoOne \notin Callers /\ Accounts \cap StandIns = {}

Blank == [password |-> NoValue, token |-> FALSE]
Empty == [entries |-> [i \in Ids |-> NoEntry], log |-> <<>>, ledger |-> {}]

Absent(doc, i)    == doc.entries[i] = NoEntry
Stored(doc, i)    == IF Absent(doc, i) THEN Blank ELSE doc.entries[i]
With(doc, i, e)   == [doc EXCEPT !.entries[i] = e]

\* A call's parameters: what it is about, the value it brings, for an import
\* the mode of every row, for a link the SteamID.
NoModes == [a \in Accounts |-> "skip"]
NoCall  == [op |-> "none", on |-> NoOne, value |-> NoValue, modes |-> NoModes, to |-> NoOne]
Call(op, on) == [NoCall EXCEPT !.op = op, !.on = on]

-----------------------------------------------------------------------------
(* What each call does to the document it is given, and when it refuses.   *)

\* Mutant: any form that names an entry may save one.
PutRefusedNever(call, doc) == FALSE

\* A form left open on a stand-in key must not bring the entry back.
PutRefused(call, doc) ==
    call.op = "put" /\ call.on \in StandIns /\ Absent(doc, call.on)

Refused(call, doc) ==
    \/ PutRefused(call, doc)
    \/ call.op = "delete" /\ Absent(doc, call.on)
    \/ call.op = "link" /\ (Absent(doc, call.on) \/ ~Absent(doc, call.to))
    \/ /\ call.op = "accept" /\ contents[call.on].single
       /\ call.on \in doc.ledger

\* Fill only what is empty, unless the row says overwrite.
Merged(e, password, mode) ==
    [e EXCEPT !.password = IF @ = NoValue \/ mode = "overwrite" THEN password ELSE @]

Imported(call, doc) ==
    [doc EXCEPT !.entries = [i \in Ids |->
        IF i \in Accounts /\ call.modes[i] # "skip"
        THEN Merged(Stored(doc, i), call.value, call.modes[i])
        ELSE doc.entries[i]]]

\* A transfer replaces the entry; a grant adds its session to it.
Accepted(b, doc) ==
    LET a == contents[b].account
        e == IF contents[b].mode = "transfer"
             THEN [password |-> contents[b].password, token |-> contents[b].token]
             ELSE [Stored(doc, a) EXCEPT !.token = TRUE]
    IN  [With(doc, a, e) EXCEPT !.ledger = @ \cup {b}]

\* The last MaxRecords of them.
Logged(b, doc) ==
    LET log == Append(doc.log, b)
    IN  [doc EXCEPT !.log =
            IF Len(log) > MaxRecords
            THEN SubSeq(log, Len(log) - MaxRecords + 1, Len(log)) ELSE log]

Changed(call, doc) ==
    CASE call.op \in {"new", "put"} ->
            With(doc, call.on, [Stored(doc, call.on) EXCEPT !.password = call.value])
      [] call.op = "delete" -> With(doc, call.on, NoEntry)
      [] call.op = "link"   ->
            With(With(doc, call.on, NoEntry), call.to, doc.entries[call.on])
      \* a result for a stand-in key that has moved on is dropped
      [] call.op = "record" ->
            IF call.on \in StandIns /\ Absent(doc, call.on) THEN doc
            ELSE With(doc, call.on, [Stored(doc, call.on) EXCEPT !.token = TRUE])
      [] call.op = "import" -> Imported(call, doc)
      [] call.op = "accept" -> Accepted(call.on, doc)
      [] call.op = "export" -> Logged(call.on, doc)

\* Mutant: a field of the document is forgotten in the copy.
CopiedEntriesOnly(doc) == [Empty EXCEPT !.entries = doc.entries, !.log = doc.log]

\* mutate works on a copy of every field of the document.
Copied(doc) == [entries |-> doc.entries, log |-> doc.log, ledger |-> doc.ledger]

-----------------------------------------------------------------------------
(* A call begins, behind the service's RequireVaultUnlocked.               *)

\* The steps before writeMu: a plan is put with the sessions, a plan, an
\* import, an export and a list read; the others go straight to the lock.
FirstStep(op) == CASE op = "plan" -> "put"
                   [] op \in {"list", "import", "export"} -> "read"
                   [] OTHER -> "enter"

Begin(c, call) ==
    /\ at[c] = "idle" /\ unlocked
    /\ doing' = [doing EXCEPT ![c] = call]
    /\ at' = [at EXCEPT ![c] = FirstStep(call.op)]
    /\ UNCHANGED <<disk, cached, unlocked, writer, own, rosters, contents, accepted>>

\* Put without a SteamID: the entry waits under a new stand-in key.
BeginNew(c) ==
    \E s \in StandIns \ minted, p \in Passwords :
        /\ minted' = minted \cup {s}
        /\ Begin(c, [Call("new", s) EXCEPT !.value = p])

BeginPut(c) ==
    /\ \E i \in Accounts \cup minted, v \in Value :
          Begin(c, [Call("put", i) EXCEPT !.value = v])
    /\ UNCHANGED minted

BeginDelete(c) ==
    /\ \E i \in Accounts \cup minted : Begin(c, Call("delete", i))
    /\ UNCHANGED minted

BeginLink(c) ==
    /\ \E s \in minted, a \in Accounts : Begin(c, [Call("link", s) EXCEPT !.to = a])
    /\ UNCHANGED minted

\* A check's result: the session a sign-in was issued.
BeginRecord(c) ==
    /\ \E i \in Accounts \cup minted : Begin(c, Call("record", i))
    /\ UNCHANGED minted

BeginList(c) == Begin(c, Call("list", NoOne)) /\ UNCHANGED minted

\* PlanImport: a parsed roster with a row for every account.
BeginPlan(c) ==
    /\ \E r \in Rosters, p \in Passwords :
          /\ rosters[r] = NoValue
          /\ \A d \in Callers : doing[d].on # r
          /\ Begin(c, [Call("plan", r) EXCEPT !.value = p])
    /\ UNCHANGED minted

\* CommitImport, with a decision for every row.
BeginImport(c) ==
    /\ \E r \in Rosters, modes \in [Accounts -> {"default", "overwrite", "skip"}] :
          /\ rosters[r] # NoValue
          /\ Begin(c, [Call("import", r) EXCEPT !.value = rosters[r], !.modes = modes])
    /\ UNCHANGED minted

BeginAccept(c) ==
    /\ \E b \in Inbound : Begin(c, Call("accept", b))
    /\ UNCHANGED minted

BeginExport(c) ==
    /\ \E b \in Outbound \ (handoffs \cup ToSet(file.log)), a \in Accounts :
          /\ \A d \in Callers : doing[d].on # b
          /\ Begin(c, [Call("export", b) EXCEPT !.to = a])
    /\ UNCHANGED minted

Begins(c) == \/ BeginNew(c) \/ BeginPut(c) \/ BeginDelete(c) \/ BeginLink(c)
             \/ BeginRecord(c) \/ BeginList(c) \/ BeginPlan(c) \/ BeginImport(c)
             \/ BeginAccept(c) \/ BeginExport(c)

-----------------------------------------------------------------------------
Goto(c, step) == at' = [at EXCEPT ![c] = step]

Return(c) ==
    /\ at' = [at EXCEPT ![c] = "idle"]
    /\ doing' = [doing EXCEPT ![c] = NoCall]
    /\ own' = [own EXCEPT ![c] = NoDoc]
    /\ writer' = IF writer = c THEN NoOne ELSE writer

\* The bundle file an export takes back when it cannot be recorded.
TakenBack(c) == IF doing[c].op = "export" THEN {doing[c].on} ELSE {}

\* The roster DiscardImport drops: of a plan that failed, of a commit done.
Discarded(c) == IF doing[c].op \in {"plan", "import"} THEN {doing[c].on} ELSE {}

Drop(gone) == rosters' = [r \in Rosters |-> IF r \in gone THEN NoValue ELSE rosters[r]]

(* An error: the call returns, and cleans up after itself.                 *)
Fail(c) ==
    /\ Return(c)
    /\ handoffs' = handoffs \ TakenBack(c)
    /\ IF doing[c].op = "plan" THEN Drop(Discarded(c)) ELSE UNCHANGED rosters
    /\ UNCHANGED <<file, cached, unlocked, contents, minted, accepted>>

\* putImportSession
PutRoster(c) ==
    /\ at[c] = "put"
    /\ Cardinality({r \in Rosters : rosters[r] # NoValue}) < MaxImports
    /\ rosters' = [rosters EXCEPT ![doing[c].on] = doing[c].value]
    /\ Goto(c, "read")
    /\ UNCHANGED <<disk, cached, unlocked, writer, doing, own, contents, minted, accepted>>

TooManyImports(c) ==
    /\ at[c] = "put"
    /\ Cardinality({r \in Rosters : rosters[r] # NoValue}) >= MaxImports
    /\ Return(c)
    /\ UNCHANGED <<disk, cached, unlocked, rosters, contents, minted, accepted>>

\* Mutant: writeMu is not taken.
MayWriteAnyway(c) == TRUE

MayWrite(c) == writer = NoOne

(* writeMu.Lock in mutate.                                                 *)
Enter(c) ==
    /\ at[c] = "enter" /\ MayWrite(c)
    /\ writer' = c
    /\ Goto(c, "read")
    /\ UNCHANGED <<disk, cached, unlocked, doing, own, rosters, contents, minted, accepted>>

-----------------------------------------------------------------------------
(* load: the cached document, or the file's.                               *)

\* What a call does with the document it has loaded.
AfterLoad(c, doc) ==
    LET call == doing[c] IN
    IF writer = c THEN "change"
    ELSE CASE call.op = "import" -> IF call.modes = NoModes THEN "done" ELSE "enter"
           [] call.op = "export" -> IF Stored(doc, call.to) = Blank THEN "done" ELSE "bundle"
           [] OTHER              -> "done"

\* Mutant: an import goes on with the document its plan was made from.
LoadedOnce(c) == IF own[c] # NoDoc THEN own[c] ELSE cached

Loaded(c) == cached

LoadCached(c) ==
    /\ at[c] = "read" /\ cached # NoDoc
    /\ own' = [own EXCEPT ![c] = Loaded(c)]
    /\ Goto(c, AfterLoad(c, Loaded(c)))
    /\ UNCHANGED <<disk, cached, unlocked, writer, doing, rosters, contents, minted, accepted>>

LoadFile(c) ==
    /\ at[c] = "read" /\ cached = NoDoc /\ unlocked
    /\ own' = [own EXCEPT ![c] = file]
    /\ Goto(c, "keep")
    /\ UNCHANGED <<disk, cached, unlocked, writer, doing, rosters, contents, minted, accepted>>

LoadRefused(c) == at[c] = "read" /\ cached = NoDoc /\ ~unlocked /\ Fail(c)

\* cached = doc, whatever has happened since the file was read.
Keep(c) ==
    /\ at[c] = "keep"
    /\ cached' = own[c]
    /\ Goto(c, AfterLoad(c, own[c]))
    /\ UNCHANGED <<disk, unlocked, writer, doing, own, rosters, contents, minted, accepted>>

-----------------------------------------------------------------------------
Change(c) ==
    /\ at[c] = "change" /\ ~Refused(doing[c], own[c])
    /\ own' = [own EXCEPT ![c] = Changed(doing[c], Copied(@))]
    /\ Goto(c, "save")
    /\ UNCHANGED <<disk, cached, unlocked, writer, doing, rosters, contents, minted, accepted>>

ChangeRefused(c) == at[c] = "change" /\ Refused(doing[c], own[c]) /\ Fail(c)

(* save: the file is replaced whole, then the cache.                       *)
Save(c) ==
    /\ at[c] = "save" /\ unlocked
    /\ file' = own[c]
    /\ accepted' = IF doing[c].op = "accept"
                   THEN [accepted EXCEPT ![doing[c].on] = IF @ = "no" THEN "once" ELSE "again"]
                   ELSE accepted
    /\ Goto(c, "cache")
    /\ UNCHANGED <<cached, unlocked, writer, doing, own, rosters, handoffs, contents, minted>>

\* The app has locked, or the disk refuses.
SaveFails(c) == at[c] = "save" /\ Fail(c)

Cache(c) ==
    /\ at[c] = "cache"
    /\ cached' = own[c]
    /\ Return(c)
    /\ IF doing[c].op = "import" THEN Drop(Discarded(c)) ELSE UNCHANGED rosters
    /\ UNCHANGED <<disk, unlocked, contents, minted, accepted>>

(* The bundle file is written before it is recorded.                       *)
WriteBundle(c) ==
    /\ at[c] = "bundle"
    /\ handoffs' = handoffs \cup {doing[c].on}
    /\ Goto(c, "enter")
    /\ UNCHANGED <<file, cached, unlocked, writer, doing, own, rosters, contents, minted, accepted>>

(* A call that writes nothing: a list, a plan, an import of no row and an  *)
(* export with nothing to hand over.                                       *)
Done(c) ==
    /\ at[c] = "done"
    /\ Return(c)
    /\ IF doing[c].op = "import" THEN Drop(Discarded(c)) ELSE UNCHANGED rosters
    /\ UNCHANGED <<disk, cached, unlocked, contents, minted, accepted>>

CallStep(c) ==
    \/ PutRoster(c) \/ TooManyImports(c) \/ Enter(c)
    \/ LoadCached(c) \/ LoadFile(c) \/ LoadRefused(c) \/ Keep(c)
    \/ Change(c) \/ ChangeRefused(c) \/ Save(c) \/ SaveFails(c) \/ Cache(c)
    \/ WriteBundle(c) \/ Done(c)

-----------------------------------------------------------------------------
(* The app locks: DropCache.                                               *)
Lock ==
    /\ unlocked
    /\ unlocked' = FALSE
    /\ cached' = NoDoc
    /\ rosters' = [r \in Rosters |-> NoValue]
    /\ UNCHANGED <<disk, calls, contents, minted, accepted>>

Unlock ==
    /\ Relocks /\ ~unlocked
    /\ unlocked' = TRUE
    /\ UNCHANGED <<disk, cached, calls, rosters, contents, minted, accepted>>

(* DiscardImport by the user, and the quarter of an hour a session is kept: *)
(* whoever looks for one drops the old ones first.                         *)
RosterGoes(r) ==
    /\ rosters[r] # NoValue
    /\ Drop({r})
    /\ UNCHANGED <<disk, cached, unlocked, calls, contents, minted, accepted>>

\* A grant is only a session (enforceMode); a transfer is the whole entry.
Bundles == [account : Accounts, mode : {"grant"}, single : BOOLEAN,
            password : {NoValue}, token : {TRUE}]
           \cup [account : Accounts, mode : {"transfer"}, single : BOOLEAN,
                 password : Passwords, token : BOOLEAN]

Init ==
    /\ file \in [entries : [Ids -> Entry \cup {NoEntry}], log : {<<>>}, ledger : {{}}]
    /\ \A i \in StandIns : Absent(file, i)
    /\ unlocked = TRUE
    /\ cached = IF Relocks THEN NoDoc ELSE file
    /\ writer = NoOne
    /\ at = [c \in Callers |-> "idle"]
    /\ doing = [c \in Callers |-> NoCall]
    /\ own = [c \in Callers |-> NoDoc]
    /\ rosters = [r \in Rosters |-> NoValue]
    /\ handoffs = {}
    /\ contents \in [Inbound -> Bundles]
    /\ minted = {}
    /\ accepted = [b \in Inbound |-> "no"]

Next == \/ \E c \in Callers : Begins(c) \/ CallStep(c)
        \/ Lock \/ Unlock
        \/ \E r \in Rosters : RosterGoes(r)

Spec == Init /\ [][Next]_vars

-----------------------------------------------------------------------------
DocumentTypeOK ==
    /\ file \in Document
    /\ cached \in Document \cup {NoDoc}
    /\ unlocked \in BOOLEAN
    /\ writer \in Callers \cup {NoOne}
    /\ own \in [Callers -> Document \cup {NoDoc}]
    /\ rosters \in [Rosters -> Value]
    /\ handoffs \in SUBSET Outbound
    /\ contents \in [Inbound -> Bundles]
    /\ minted \in SUBSET StandIns
    /\ accepted \in [Inbound -> {"no", "once", "again"}]

Saving(c) == at[c] = "save" /\ at'[c] = "cache"

\* The entries a call may change.
About(call) == CASE call.op = "link"   -> {call.on, call.to}
                 [] call.op = "import" -> {a \in Accounts : call.modes[a] # "skip"}
                 [] call.op = "accept" -> {contents[call.on].account}
                 [] OTHER              -> {call.on}

(* mutate: no write "quietly erases data on the next unrelated write".  An *)
(* entry changes only in the save of a call about it, the ledger of single *)
(* use never forgets a bundle, and the log loses its oldest records only.  *)
UnrelatedWritesKeep ==
    [][\A c \in Callers : Saving(c) =>
        /\ \A i \in Ids \ About(doing[c]) : file'.entries[i] = file.entries[i]
        /\ file.ledger \subseteq file'.ledger
        /\ doing[c].op # "export" => file'.log = file.log
       ]_file

(* Put and the recorders: an entry that has left its stand-in key, linked  *)
(* or deleted, does not come back under it, whatever form or check was     *)
(* still open on it.                                                       *)
StandInsStayGone ==
    [][\A s \in minted : Absent(file, s) /\ ~Absent(file', s)
        => \E c \in Callers : Saving(c) /\ doing[c].op = "new" /\ doing[c].on = s]_file

(* Accept: "two concurrent Accepts of one single-use bundle" let it in once. *)
SingleUseOnce ==
    \A b \in Inbound : contents[b].single => accepted[b] # "again"

(* CommitImport: a row on its default fills what is empty and keeps what   *)
(* the entry holds, also what it came to hold after the user reviewed the  *)
(* row.                                                                    *)
ImportKeepsWhatIsThere ==
    [][\A c \in Callers : Saving(c) /\ doing[c].op = "import" =>
        \A a \in Accounts : doing[c].modes[a] = "default" =>
            /\ ~Absent(file', a)
            /\ Stored(file, a).password # NoValue
                 => file'.entries[a].password = file.entries[a].password]_file

(* Export: a bundle the user is told about is in the log, and one whose    *)
(* export failed is not on the disk.                                       *)
ExportIsAllOrNothing ==
    [][\A c \in Callers : doing[c].op = "export" /\ at'[c] = "idle" =>
        (doing[c].on \in handoffs' <=> doing[c].on \in ToSet(file'.log))]_at

(* DropImportSessions: once the app is locked and the calls have returned, *)
(* no roster of plaintext credentials is buffered.  (A save that Lock      *)
(* overtakes keeps the decrypted document, and a plan may then go through: *)
(* LoadOutlivesLock of AppLock is about that.)                             *)
RostersForgotten ==
    ~unlocked /\ cached = NoDoc /\ (\A c \in Callers : at[c] = "idle")
        => \A r \in Rosters : rosters[r] = NoValue

(* What a fn that fails half way, or a save that fails, leaves in memory:  *)
(* the document as it is on disk, unless a save is between the two.        *)
CacheIsSaved ==
    cached # NoDoc /\ (\A c \in Callers : at[c] # "cache") => cached = file
=============================================================================
