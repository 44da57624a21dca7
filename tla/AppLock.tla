------------------------------- MODULE AppLock -------------------------------
(***************************************************************************)
(* The app password (internal/security) and what hangs on its key: the     *)
(* saved sessions it encrypts and the vault document the vault package     *)
(* keeps decrypted in memory.  Three callers run at once: one settings     *)
(* operation (the settings page has one in flight at a time), one lock or  *)
(* unlock (a button or the idle timer), and one call of the vault.  Every  *)
(* one of them reads the security file first and takes the manager's       *)
(* mutex later.  The process may die between any two steps.                *)
(*                                                                         *)
(* A key is a number, one per password ever set.  Only right passwords are *)
(* entered: a wrong one returns before it changes anything.                *)
(***************************************************************************)
EXTENDS Naturals, FiniteSets, Sequences, SequencesExt

CONSTANTS
    Sessions,  \* saved sessions in the login cache
    MaxKeys    \* bound: passwords ever set

ASSUME MaxKeysAssumption == MaxKeys \in Nat

VARIABLES
    \* the disk
    file,        \* the security file: the key it wraps, and whether sessions are encrypted
    plain,       \* each session's folder in the login cache
    blob,        \* each session's sealed copy
    listed,      \* the sessions named in ids.json
    quarantines, \* sealed copies put aside, each with the key its recovery file wraps
    sealed,      \* the key the vault file is sealed under
    made,        \* how many keys have been made
    \* the process
    held,        \* masterKey
    vaultLocked,
    busy,        \* operationBusy
    shared,      \* masterKey and the operation's own key are one array
    cached,      \* the vault package holds the decrypted document
    job,         \* the settings operation in flight
    gate,        \* the lock or unlock in flight
    call,        \* the vault call in flight
    \* history
    forsaken,    \* sessions in a quarantine the user deleted
    astray,      \* sessions whose quarantine was not written whole, or whose
                 \* import was cut short with ids.json already naming them
    raced        \* "lock": a lock decided by what the file no longer says;
                 \* "load": the vault call in flight began before a lock;
                 \* "wiped": a lock overwrote the key of an operation

diskVars == <<file, plain, blob, listed, quarantines, sealed, made>>
keyVars  == <<held, vaultLocked, busy, shared>>
lockVars == <<diskVars, keyVars, cached, job, gate, call, forsaken, astray, raced>>

Keys  == 1 .. MaxKeys
NoKey == 0
Wiped == MaxKeys + 1      \* a key whose array was overwritten with zeros
NoBlob == [key |-> NoKey, what |-> "whole"]
Folders == {"none", "whole", "torn"}
Blobs == [key : Keys \cup {NoKey, Wiped}, what : {"whole", "torn"}]

NoJob == [kind |-> "none", at |-> "idle", key |-> NoKey, todo |-> {},
          done |-> {}, failed |-> {}, id |-> 0]
NoGate == [kind |-> "none", at |-> "idle", key |-> NoKey, enc |-> FALSE]
NoCall == [at |-> "idle", key |-> NoKey, writes |-> FALSE]

JobSteps == {"idle", "write", "install", "share", "adopt", "seal", "clear",
             "extract", "decrypt", "drop", "finish", "unlink", "forget", "import"}

LockTypeOK ==
    /\ file \in [key : Keys \cup {NoKey}, enc : BOOLEAN]
    /\ plain \in [Sessions -> Folders] /\ blob \in [Sessions -> Blobs]
    /\ listed \subseteq Sessions
    /\ quarantines \in Seq([blobs : [Sessions -> Blobs], key : Keys \cup {NoKey}])
    /\ sealed \in Keys \cup {NoKey, Wiped} /\ made \in 0 .. MaxKeys
    /\ held \in Keys \cup {NoKey, Wiped}
    /\ vaultLocked \in BOOLEAN /\ busy \in BOOLEAN /\ shared \in BOOLEAN
    /\ cached \in BOOLEAN
    /\ job \in [kind : {"none", "set", "enable", "disable", "remove", "retry"},
                at : JobSteps, key : Keys \cup {NoKey, Wiped}, todo : SUBSET Sessions,
                done : SUBSET Sessions, failed : SUBSET Sessions, id : Nat]
    /\ gate \in [kind : {"none", "lockVault", "lockApp", "unlockVault", "unlockApp"},
                 at : {"idle", "decide", "install", "hook"},
                 key : Keys \cup {NoKey}, enc : BOOLEAN]
    /\ call \in [at : {"idle", "loadKey", "open", "saveKey", "write"},
                 key : Keys \cup {NoKey, Wiped}, writes : BOOLEAN]
    /\ forsaken \subseteq Sessions /\ astray \subseteq Sessions
    /\ raced \in SUBSET {"lock", "load", "wiped"}

-----------------------------------------------------------------------------
(* What the status says, and what opens.                                   *)

PasswordSet == file.key # NoKey
AppLocked   == PasswordSet /\ held = NoKey /\ ~vaultLocked
VaultLocked == PasswordSet /\ (vaultLocked \/ held = NoKey)

Opens(b, k) == b.key # NoKey /\ b.key = k

\* The hook every change of state ends with: a locked vault drops the
\* document.  `locked` is the status it reads.
HookedOnAppLock(locked) == cached' = (cached /\ ~AppLocked)           \* mutant
Hooked(locked) == cached' = (cached /\ ~locked)
\* A call under way when that happens holds what the lock meant to remove.
Raced(locked)  == raced' = IF locked /\ call.at # "idle" THEN raced \cup {"load"} ELSE raced

-----------------------------------------------------------------------------
LockInit ==
    /\ file = [key |-> NoKey, enc |-> FALSE]
    /\ plain = [s \in Sessions |-> "whole"] /\ blob = [s \in Sessions |-> NoBlob]
    /\ listed = Sessions /\ quarantines = <<>>
    /\ sealed = NoKey /\ made = 0
    /\ held = NoKey /\ vaultLocked = FALSE /\ busy = FALSE
    /\ shared = FALSE /\ cached = FALSE
    /\ job = NoJob /\ gate = NoGate /\ call = NoCall
    /\ forsaken = {} /\ astray = {} /\ raced = {}

(* SetAppPassword.                                                         *)

BeginSet ==
    /\ job = NoJob /\ ~PasswordSet /\ made < MaxKeys
    /\ made' = made + 1
    /\ job' = [NoJob EXCEPT !.kind = "set", !.at = "write", !.key = made']
    /\ UNCHANGED <<file, plain, blob, listed, quarantines, sealed, keyVars,
                   cached, gate, call, forsaken, astray, raced>>

SetWrites ==
    /\ job.at = "write"
    /\ file' = [key |-> job.key, enc |-> FALSE]
    /\ job' = [job EXCEPT !.at = "install"]
    /\ UNCHANGED <<plain, blob, listed, quarantines, sealed, made, keyVars,
                   cached, gate, call, forsaken, astray, raced>>

SetInstalls ==
    /\ job.at = "install"
    /\ held' = job.key
    /\ Hooked(vaultLocked) /\ Raced(vaultLocked)
    /\ job' = NoJob
    /\ UNCHANGED <<diskVars, vaultLocked, busy, shared, gate, call, forsaken, astray>>

(* The operations that rewrite the saved sessions.                         *)

BeginOperation(kind) ==
    /\ job = NoJob /\ PasswordSet
    /\ kind \in {"enable", "disable", "remove"}
    /\ job' = [NoJob EXCEPT !.kind = kind, !.key = file.key,
                            !.at = IF kind = "remove" THEN "share" ELSE "adopt"]
    /\ UNCHANGED <<diskVars, keyVars, cached, gate, call, forsaken, astray, raced>>

\* removeAppPassword puts its own array into the manager, uncopied.
RemoveShares ==
    /\ job.at = "share"
    /\ held' = job.key /\ shared' = TRUE
    /\ job' = [job EXCEPT !.at = IF file.enc THEN "adopt" ELSE "unlink"]
    /\ UNCHANGED <<diskVars, vaultLocked, busy, cached, gate, call, forsaken, astray, raced>>

\* adoptKeyForOperation: the key as a copy and the latch in one section.
AdoptedBare == held' = job.key /\ busy' = FALSE /\ shared' = TRUE   \* mutant
Adopted     == held' = job.key /\ busy' = TRUE /\ shared' = FALSE

Collected(kind) ==
    IF kind = "enable" THEN {s \in listed : plain[s] # "none"}
                       ELSE {s \in listed : blob[s] # NoBlob}

StartOperation ==
    /\ job.at = "adopt" /\ ~busy
    /\ Adopted
    /\ job' = [job EXCEPT
            !.at = IF (job.kind = "enable") = file.enc THEN "finish"
                   ELSE IF job.kind = "enable" THEN "seal" ELSE "extract",
            !.todo = Collected(job.kind)]
    /\ UNCHANGED <<diskVars, vaultLocked, cached, gate, call, forsaken, astray, raced>>

\* writeAccountBlob: sealed, then read back into a scratch folder.
SealSession(s) ==
    /\ job.at = "seal" /\ s \in job.todo
    /\ blob' = [blob EXCEPT ![s] = [key |-> job.key, what |-> plain[s]]]
    /\ job' = [job EXCEPT !.todo = @ \ {s}, !.done = @ \cup {s}]
    /\ UNCHANGED <<file, plain, listed, quarantines, sealed, made, keyVars,
                   cached, gate, call, forsaken, astray, raced>>

\* The copies made so far are taken back; this one stays if it was written
\* and only its reading back failed.
SealFails(s, written) ==
    /\ job.at = "seal" /\ s \in job.todo
    /\ blob' = [t \in Sessions |->
            IF t \in job.done THEN NoBlob
            ELSE IF t = s /\ written THEN [key |-> job.key, what |-> plain[s]]
            ELSE blob[t]]
    /\ job' = [job EXCEPT !.at = "finish", !.todo = {}, !.done = {}]
    /\ UNCHANGED <<file, plain, listed, quarantines, sealed, made, keyVars,
                   cached, gate, call, forsaken, astray, raced>>

EnableEncrypts ==
    /\ job.at = "seal" /\ job.todo = {}
    /\ file' = [file EXCEPT !.enc = TRUE]
    /\ Hooked(VaultLocked) /\ Raced(VaultLocked)
    /\ job' = [job EXCEPT !.at = "clear", !.todo = job.done]
    /\ UNCHANGED <<plain, blob, listed, quarantines, sealed, made, keyVars,
                   gate, call, forsaken, astray>>

\* Best effort: `left` is what remains of the folder.
ClearPlain(s, left) ==
    /\ job.at = "clear" /\ s \in job.todo
    /\ plain' = [plain EXCEPT ![s] = left]
    /\ job' = [job EXCEPT !.todo = @ \ {s},
                          !.at = IF job.todo = {s} THEN "finish" ELSE @]
    /\ UNCHANGED <<file, blob, listed, quarantines, sealed, made, keyVars,
                   cached, gate, call, forsaken, astray, raced>>

NothingToClear ==
    /\ job.at \in {"clear", "drop"} /\ job.todo = {}
    /\ job' = [job EXCEPT !.at = "finish"]
    /\ UNCHANGED <<diskVars, keyVars, cached, gate, call, forsaken, astray, raced>>

\* A copy that does not open leaves the folder alone and is put aside.
ExtractSession(s) ==
    /\ job.at = "extract" /\ s \in job.todo
    /\ plain' = IF Opens(blob[s], job.key)
                THEN [plain EXCEPT ![s] = blob[s].what] ELSE plain
    /\ job' = [job EXCEPT !.todo = @ \ {s}, !.done = @ \cup {s},
            !.failed = IF Opens(blob[s], job.key) THEN @ ELSE @ \cup {s}]
    /\ UNCHANGED <<file, blob, listed, quarantines, sealed, made, keyVars,
                   cached, gate, call, forsaken, astray, raced>>

\* The folder is removed and made again before it is filled.
ExtractFails(s, left) ==
    /\ job.at = "extract" /\ s \in job.todo /\ Opens(blob[s], job.key)
    /\ plain' = [plain EXCEPT ![s] = left]
    /\ job' = [job EXCEPT !.todo = @ \ {s}, !.done = @ \cup {s}, !.failed = @ \cup {s}]
    /\ UNCHANGED <<file, blob, listed, quarantines, sealed, made, keyVars,
                   cached, gate, call, forsaken, astray, raced>>

\* quarantineFailures: a rename that fails is not noticed, and the report
\* names the copy all the same.
PutAside(moved, key) ==
    /\ quarantines' = Append(quarantines,
            [blobs |-> [s \in Sessions |-> IF s \in moved THEN blob[s] ELSE NoBlob],
             key |-> key])
    /\ blob' = [s \in Sessions |-> IF s \in moved THEN NoBlob ELSE blob[s]]

QuarantineFailures(moved) ==
    /\ job.at = "extract" /\ job.todo = {} /\ job.failed # {}
    /\ astray' = astray \cup (job.failed \ moved)
    /\ PutAside(moved, file.key)
    /\ listed' = listed \ job.failed
    /\ job' = [job EXCEPT !.at = "decrypt", !.failed = {}]
    /\ UNCHANGED <<file, plain, sealed, made, keyVars, cached, gate, call,
                   forsaken, raced>>

\* The report or the recovery file is not written: the operation fails with
\* the copies already moved.
QuarantineUnwritten ==
    /\ job.at = "extract" /\ job.todo = {} /\ job.failed # {}
    /\ PutAside(job.failed, NoKey)
    /\ astray' = astray \cup job.failed
    /\ job' = [job EXCEPT !.at = "finish", !.failed = {}, !.kind = "disable"]
    /\ UNCHANGED <<file, plain, listed, sealed, made, keyVars, cached, gate,
                   call, forsaken, raced>>

AllTried     == job.at = "decrypt" \/ (job.at = "extract" /\ job.todo = {})  \* mutant
AllExtracted == job.at = "decrypt"
                \/ (job.at = "extract" /\ job.todo = {} /\ job.failed = {})

DisableDecrypts ==
    /\ AllExtracted
    /\ file' = [file EXCEPT !.enc = FALSE]
    /\ Hooked(VaultLocked) /\ Raced(VaultLocked)
    /\ job' = [job EXCEPT !.at = "drop", !.todo = job.done]
    /\ UNCHANGED <<plain, blob, listed, quarantines, sealed, made, keyVars,
                   gate, call, forsaken, astray>>

\* Best effort too: `gone` says whether the file went.
DropBlob(s, gone) ==
    /\ job.at = "drop" /\ s \in job.todo
    /\ blob' = IF gone THEN [blob EXCEPT ![s] = NoBlob] ELSE blob
    /\ job' = [job EXCEPT !.todo = @ \ {s},
                          !.at = IF job.todo = {s} THEN "finish" ELSE @]
    /\ UNCHANGED <<file, plain, listed, quarantines, sealed, made, keyVars,
                   cached, gate, call, forsaken, astray, raced>>

FinishOperation ==
    /\ job.at = "finish"
    /\ busy' = FALSE
    /\ Hooked(VaultLocked) /\ Raced(VaultLocked)
    /\ job' = IF job.kind = "remove" THEN [job EXCEPT !.at = "unlink", !.done = {}] ELSE NoJob
    /\ UNCHANGED <<diskVars, held, vaultLocked, shared, gate, call, forsaken, astray>>

RemoveUnlinks ==
    /\ job.at = "unlink"
    /\ file' = [key |-> NoKey, enc |-> FALSE]
    /\ job' = [job EXCEPT !.at = "forget"]
    /\ UNCHANGED <<plain, blob, listed, quarantines, sealed, made, keyVars,
                   cached, gate, call, forsaken, astray, raced>>

\* With no password set the status says unlocked, so the hook drops nothing.
RemoveForgets ==
    /\ job.at = "forget"
    /\ held' = NoKey /\ shared' = FALSE
    /\ Hooked(FALSE)
    /\ job' = NoJob
    /\ UNCHANGED <<diskVars, vaultLocked, busy, gate, call, forsaken, astray, raced>>

(* Quarantines.                                                            *)

RetryQuarantineImport(i) ==
    /\ job = NoJob /\ i \in DOMAIN quarantines
    /\ quarantines[i].key # NoKey
    /\ job' = [NoJob EXCEPT !.kind = "retry", !.at = "import", !.id = i,
            !.key = quarantines[i].key,
            !.todo = {s \in Sessions : quarantines[i].blobs[s] # NoBlob}]
    /\ UNCHANGED <<diskVars, keyVars, cached, gate, call, forsaken, astray, raced>>

ImportSession(s) ==
    /\ job.at = "import" /\ s \in job.todo
    /\ LET b == quarantines[job.id].blobs[s]
       IN  IF Opens(b, job.key)
           THEN /\ plain' = [plain EXCEPT ![s] = b.what]
                /\ listed' = listed \cup {s}
                /\ job' = [job EXCEPT !.todo = @ \ {s}]
           ELSE /\ job' = NoJob
                /\ UNCHANGED <<plain, listed>>
    /\ UNCHANGED <<file, blob, quarantines, sealed, made, keyVars, cached, gate,
                   call, forsaken, astray, raced>>

ImportEnds ==
    /\ job.at = "import" /\ job.todo = {}
    /\ quarantines' = RemoveAt(quarantines, job.id)
    /\ Hooked(VaultLocked) /\ Raced(VaultLocked)
    /\ job' = NoJob
    /\ UNCHANGED <<file, plain, blob, listed, sealed, made, keyVars, gate, call,
                   forsaken, astray>>

DeleteQuarantine(i) ==
    /\ job = NoJob /\ i \in DOMAIN quarantines
    /\ forsaken' = forsaken \cup {s \in Sessions : quarantines[i].blobs[s] # NoBlob}
    /\ quarantines' = RemoveAt(quarantines, i)
    /\ UNCHANGED <<file, plain, blob, listed, sealed, made, keyVars, cached, job,
                   gate, call, astray, raced>>

(* Locking and unlocking.                                                  *)

\* The lock reads the file, and with it whether sessions are encrypted,
\* before it takes the mutex.  The buttons and the timer are there only
\* while the status says the vault is open.
BeginLock(kind) ==
    /\ gate = NoGate /\ PasswordSet
    /\ \/ kind = "lockVault" /\ ~VaultLocked
       \/ kind = "lockApp"
    /\ gate' = [NoGate EXCEPT !.kind = kind, !.at = "decide", !.enc = file.enc]
    /\ UNCHANGED <<diskVars, keyVars, cached, job, call, forsaken, astray, raced>>

ZeroKey ==
    /\ held' = NoKey /\ shared' = FALSE
    /\ job' = IF shared THEN [job EXCEPT !.key = Wiped] ELSE job

LockRefused ==
    /\ gate.at = "decide" /\ busy
    /\ gate' = NoGate
    /\ UNCHANGED <<diskVars, keyVars, cached, job, call, forsaken, astray, raced>>

KeyNeverNeeded == FALSE                                              \* mutant
KeyNeeded      == gate.kind = "lockVault" /\ gate.enc

LockDecides ==
    /\ gate.at = "decide" /\ ~busy
    /\ vaultLocked' = (gate.kind = "lockVault")
    /\ IF KeyNeeded THEN UNCHANGED <<held, shared, job>> ELSE ZeroKey
    /\ gate' = [gate EXCEPT !.at = "hook"]
    /\ raced' = raced
            \cup (IF gate.kind = "lockVault" /\ file.enc # gate.enc THEN {"lock"} ELSE {})
            \cup (IF shared /\ job.at # "seal" /\ job'.key = Wiped THEN {"wiped"} ELSE {})
    /\ UNCHANGED <<diskVars, busy, cached, call, forsaken, astray>>

BeginUnlock(kind) ==
    /\ gate = NoGate
    /\ \/ kind = "unlockVault" /\ VaultLocked /\ ~AppLocked
       \/ kind = "unlockApp" /\ AppLocked
    /\ gate' = [NoGate EXCEPT !.kind = kind, !.at = "install", !.key = file.key]
    /\ UNCHANGED <<diskVars, keyVars, cached, job, call, forsaken, astray, raced>>

UnlockInstalls ==
    /\ gate.at = "install"
    /\ IF gate.kind = "unlockVault" /\ busy
       THEN gate' = NoGate /\ UNCHANGED <<held, vaultLocked, shared>>
       ELSE /\ held' = gate.key /\ vaultLocked' = FALSE /\ shared' = FALSE
            /\ gate' = [gate EXCEPT !.at = "hook"]
    /\ UNCHANGED <<diskVars, busy, cached, job, call, forsaken, astray, raced>>

GateHook ==
    /\ gate.at = "hook"
    /\ Hooked(VaultLocked) /\ Raced(VaultLocked)
    /\ gate' = NoGate
    /\ UNCHANGED <<diskVars, keyVars, job, call, forsaken, astray>>

(* The vault package.                                                      *)

\* Every method of the service asks for an unlocked vault first.
BeginCall(writes) ==
    /\ call = NoCall /\ ~VaultLocked
    /\ cached => writes
    /\ call' = [NoCall EXCEPT !.at = IF cached THEN "saveKey" ELSE "loadKey",
                              !.writes = writes]
    /\ raced' = raced \ {"load"}
    /\ UNCHANGED <<diskVars, keyVars, cached, job, gate, forsaken, astray>>

\* SubKey: refused under a lock or without a key, else derived from a copy.
TakeSubKey ==
    /\ call.at \in {"loadKey", "saveKey"}
    /\ call' = IF VaultLocked \/ held = NoKey THEN NoCall
               ELSE [call EXCEPT !.key = held,
                        !.at = IF call.at = "loadKey" THEN "open" ELSE "write"]
    /\ UNCHANGED <<diskVars, keyVars, cached, job, gate, forsaken, astray, raced>>

\* A file that does not open is reported as corrupt.
LoadOpens ==
    /\ call.at = "open"
    /\ IF sealed \in {NoKey, call.key}
       THEN /\ cached' = TRUE
            /\ call' = IF call.writes THEN [call EXCEPT !.at = "saveKey", !.key = NoKey]
                       ELSE NoCall
       ELSE cached' = cached /\ call' = NoCall
    /\ UNCHANGED <<diskVars, keyVars, job, gate, forsaken, astray, raced>>

SaveWrites ==
    /\ call.at = "write"
    /\ sealed' = call.key
    /\ cached' = TRUE
    /\ call' = NoCall
    /\ UNCHANGED <<file, plain, blob, listed, quarantines, made, keyVars, job,
                   gate, forsaken, astray, raced>>

(* The process dies; a folder it was removing or filling is torn.          *)
Restart(torn) ==
    /\ \/ torn = {}
       \/ job.at \in {"extract", "clear", "import"} /\ torn \subseteq job.todo
          /\ Cardinality(torn) = 1
          /\ (job.at = "extract" => \A s \in torn : Opens(blob[s], job.key))
          /\ (job.at = "import" =>
                \A s \in torn : Opens(quarantines[job.id].blobs[s], job.key))
    /\ plain' = [s \in Sessions |-> IF s \in torn THEN "torn" ELSE plain[s]]
    /\ held' = NoKey /\ vaultLocked' = FALSE /\ busy' = FALSE /\ shared' = FALSE
    /\ cached' = FALSE
    /\ job' = NoJob /\ gate' = NoGate /\ call' = NoCall
    /\ raced' = raced \cap {"wiped"}
    /\ astray' = IF job.at = "import" THEN astray \cup (torn \cap listed) ELSE astray
    /\ UNCHANGED <<file, blob, listed, quarantines, sealed, made, forsaken>>

-----------------------------------------------------------------------------
Operations ==
    \/ BeginSet \/ SetWrites \/ SetInstalls
    \/ \E kind \in {"enable", "disable", "remove"} : BeginOperation(kind)
    \/ RemoveShares \/ StartOperation
    \/ \E s \in Sessions : SealSession(s) \/ ClearPlain(s, "none")
                           \/ ExtractSession(s) \/ DropBlob(s, TRUE) \/ ImportSession(s)
    \/ EnableEncrypts \/ NothingToClear
    \/ QuarantineFailures(job.failed)
    \/ DisableDecrypts \/ FinishOperation \/ RemoveUnlinks \/ RemoveForgets
    \/ \E i \in DOMAIN quarantines : RetryQuarantineImport(i) \/ DeleteQuarantine(i)
    \/ ImportEnds

Gates ==
    \/ \E kind \in {"lockVault", "lockApp"} : BeginLock(kind)
    \/ \E kind \in {"unlockVault", "unlockApp"} : BeginUnlock(kind)
    \/ LockRefused \/ LockDecides \/ UnlockInstalls \/ GateHook

Calls ==
    \/ \E writes \in BOOLEAN : BeginCall(writes)
    \/ TakeSubKey \/ LoadOpens \/ SaveWrites

LockFaults ==
    \/ \E s \in Sessions :
        \/ \E written \in BOOLEAN : SealFails(s, written)
        \/ \E left \in Folders : ExtractFails(s, left)
        \/ ClearPlain(s, "torn") \/ ClearPlain(s, "whole")
        \/ DropBlob(s, FALSE)
    \/ QuarantineUnwritten
    \/ \E moved \in (SUBSET job.failed) \ {job.failed} : QuarantineFailures(moved)
    \/ \E torn \in SUBSET Sessions : Restart(torn)

LockNext == Operations \/ Gates \/ Calls \/ LockFaults
LockSpec == LockInit /\ [][LockNext]_lockVars

-----------------------------------------------------------------------------
(* Properties.                                                             *)

Whole(b, k) == Opens(b, k) /\ b.what = "whole"

\* Whole in its folder, in a copy the current password opens, or in a
\* quarantine whose recovery file opens it.
Kept(s) ==
    \/ plain[s] = "whole"
    \/ file.enc /\ Whole(blob[s], file.key)
    \/ \E i \in DOMAIN quarantines :
            Whole(quarantines[i].blobs[s], quarantines[i].key)

\* A saved session stays whole somewhere the app can get it from, wherever an
\* operation fails or the process dies.
\* About the order of sealing, marking the file and removing in
\* EnableSavedAccountEncryption and disableSavedAccountEncryptionWithKey.
\* Not a session whose quarantine was deleted, was not written whole, or was
\* imported a second time and cut short.
SessionsSurvive == \A s \in Sessions \ (forsaken \cup astray) : Kept(s)

\* The same without those two: a rename into a quarantine is not looked at
\* and what stayed behind is then removed; a torn folder ids.json names is
\* sealed as if it were whole, and its copy later replaces the good one.
QuarantinedSurvive == \A s \in Sessions \ forsaken : Kept(s)

\* No saved session and no vault file is sealed under an array of zeros.
NothingSealedUnderZeros == sealed # Wiped /\ \A s \in Sessions : blob[s].key # Wiped

\* No session and no vault file is ever sealed under a key no password
\* wraps, the hole adoptKeyForOperation closes; except where a lock of the
\* whole app meets the array removeAppPassword shares with the manager.
SealedUnderAKey == "wiped" \notin raced => NothingSealedUnderZeros

\* While sessions are encrypted, a vault lock leaves the key that switching
\* needs, unless the file changed between lockVault's read and its mutex.
SwitchingKeepsItsKey ==
    file.enc /\ vaultLocked /\ "lock" \notin raced => held # NoKey

\* Once a lock has finished nothing decrypted stays in memory, unless a
\* vault call was under way when it fell: load and save put the document in
\* the cache without looking again.
LockForgets ==
    VaultLocked /\ gate = NoGate /\ job = NoJob /\ "load" \notin raced => ~cached

\* The same without the exception, which is what the hook in main.go says
\* of itself: "Locking must remove the secrets, not merely refuse to render
\* them."
LockAlwaysForgets ==
    VaultLocked /\ gate = NoGate /\ job = NoJob /\ call = NoCall => ~cached

\* Removing the password makes the vault unreadable, as the test plan has
\* it: neither the document nor a key that opens the file stays.
UnreadableOnceRemoved ==
    ~PasswordSet /\ job = NoJob /\ made > 0 => ~cached /\ held = NoKey

\* The app gate opens for a password only: locking removes access, only
\* unlocking grants it.
OnlyPasswordsOpen ==
    [][AppLocked /\ ~AppLocked' =>
        \/ gate.kind \in {"unlockApp", "unlockVault"}
        \/ job.kind \in {"set", "enable", "disable", "remove"}]_lockVars

=============================================================================
