---------------------------- MODULE AppLockProofs ----------------------------
(* Theorems about AppLock for any set of sessions, any number of passwords *)
(* and locks, and any failures and restarts.                               *)
(*                                                                         *)
(* The invariant has three layers: JobInv, what a settings operation has   *)
(* made of the file, the key and the latch at each of its steps; KeyInv,   *)
(* what a lock or unlock and a vault call have read of them; SessionInv,   *)
(* what folders, copies and quarantines hold of each session.              *)
EXTENDS AppLock, SequenceTheorems, TLAPS

-----------------------------------------------------------------------------
(* A settings operation.                                                   *)

\* The steps under the latch.
Latched == {"seal", "clear", "extract", "decrypt", "drop", "finish"}

\* Which operation is at which step.
JobAt ==
    /\ job.at \in {"write", "install"} => job.kind = "set"
    /\ job.at \in {"seal", "clear"} => job.kind = "enable"
    /\ job.at \in {"extract", "decrypt", "drop"} => job.kind \in {"disable", "remove"}
    /\ job.at \in {"share", "unlink", "forget"} => job.kind = "remove"
    /\ job.at \in {"adopt", "finish"} => job.kind \in {"enable", "disable", "remove"}

\* What the security file says at that step.
FileAt ==
    /\ file.enc => PasswordSet
    /\ job.at = "write" => ~PasswordSet
    /\ job.at = "forget" => ~PasswordSet
    /\ job.at \in Latched \cup {"install", "share", "adopt", "unlink"} => PasswordSet
    /\ job.at \in {"seal", "drop", "unlink"} => ~file.enc
    /\ job.at = "finish" /\ job.kind = "remove" => ~file.enc
    /\ job.at \in {"clear", "extract", "decrypt"} => file.enc

\* Whose key it works with; only the array a removal shares can be wiped.
KeyAt ==
    /\ job.at # "idle" => job.key # NoKey
    /\ job.at \in {"write", "install", "import"} => job.key # Wiped
    /\ job.at \in Latched \cup {"share", "adopt"} => job.key \in {file.key, Wiped}
    /\ job.at \in Latched \cup {"adopt"} /\ job.kind = "enable" => job.key = file.key
    /\ shared => job.kind = "remove" /\ job.at \in {"adopt", "unlink", "forget"}
    /\ job.at \in Latched => busy /\ held # NoKey

\* Only what is there is sealed.
TodoAt == job.at = "seal" => \A s \in job.todo : plain[s] # "none"

\* An import is of a quarantine in the list, with its own key.
ImportAt ==
    job.at = "import" =>
        job.id \in DOMAIN quarantines /\ quarantines[job.id].key = job.key

JobInv == JobAt /\ FileAt /\ KeyAt /\ TodoAt /\ ImportAt

-----------------------------------------------------------------------------
(* Locks, unlocks and calls.                                               *)

\* A key that was wiped is on its way nowhere unless a lock met the array.
NoZeros ==
    "wiped" \notin raced =>
        held # Wiped /\ job.key # Wiped /\ call.key # Wiped /\ NothingSealedUnderZeros

\* What a lock or unlock has read.
GateAt ==
    /\ gate.at = "decide" => gate.kind \in {"lockVault", "lockApp"}
    /\ gate.at = "install" => gate.key # NoKey
    /\ gate.at = "decide" /\ gate.kind = "lockVault" /\ gate.enc /\ file.enc
         => held # NoKey

\* A vault that is locked, with no hook to come, has no document and no call
\* under way that could bring one.
Dropped ==
    VaultLocked /\ gate.at # "hook" /\ job.at # "install" /\ "load" \notin raced
        => ~cached /\ call.at = "idle"

KeyInv == NoZeros /\ GateAt /\ SwitchingKeepsItsKey /\ Dropped

-----------------------------------------------------------------------------
(* The sessions.                                                           *)

\* A copy of a session that did not go astray is whole, and of one that is
\* listed; no copy is sealed under zeros.
CopiesWhole ==
    \A s \in Sessions :
        /\ blob[s].key # Wiped
        /\ s \notin astray =>
              /\ blob[s].what = "whole"
              /\ blob[s].key # NoKey => s \in listed
              /\ \A i \in DOMAIN quarantines : quarantines[i].blobs[s].what = "whole"

\* A torn folder that is listed has its copy beside it.
TornHasCopy ==
    \A s \in listed \ astray :
        plain[s] = "torn" => file.enc /\ Opens(blob[s], file.key)

\* What an operation has done to the sessions so far.
SessionAt ==
    /\ job.at \in {"share", "adopt"} => job.done = {}
    /\ job.at = "seal" => job.todo \cup job.done \subseteq listed
    /\ job.at = "seal" => \A s \in job.done :
            blob[s].key = job.key /\ blob[s].what = plain[s]
    /\ job.at = "clear" => \A s \in job.todo :
            blob[s].key = job.key /\ (plain[s] = "whole" => blob[s].what = "whole")
    /\ job.at = "extract" =>
            /\ \A s \in listed : blob[s] # NoBlob => s \in job.todo \cup job.done
            /\ \A s \in job.done \ (job.failed \cup astray) : plain[s] = "whole"
    /\ job.at = "decrypt" =>
            \A s \in listed \ astray : blob[s] # NoBlob => plain[s] = "whole"
    /\ job.at = "import" =>
            \A s \in Sessions \ (job.todo \cup astray) :
                quarantines[job.id].blobs[s] # NoBlob => plain[s] = "whole"

SessionInv == CopiesWhole /\ TornHasCopy /\ SessionAt /\ SessionsSurvive
-----------------------------------------------------------------------------
(* Types.                                                                  *)

Quarantine == [blobs : [Sessions -> Blobs], key : Keys \cup {NoKey}]

\* The list with one taken out holds the others and nothing else.
LEMMA RemoveAtProperties ==
    ASSUME NEW S, NEW q \in Seq(S), NEW i \in DOMAIN q
    PROVE  /\ RemoveAt(q, i) \in Seq(S)
           /\ \A n \in DOMAIN q \ {i} : \E m \in DOMAIN RemoveAt(q, i) : RemoveAt(q, i)[m] = q[n]
           /\ \A m \in DOMAIN RemoveAt(q, i) : \E n \in DOMAIN q : RemoveAt(q, i)[m] = q[n]
<1> DEFINE a == SubSeq(q, 1, i - 1)
           b == SubSeq(q, i + 1, Len(q))
           r == RemoveAt(q, i)
<1>1. Len(q) \in Nat /\ i \in 1 .. Len(q) /\ DOMAIN q = 1 .. Len(q)
      /\ \A n \in 1 .. Len(q) : q[n] \in S
  BY LenProperties, ElementOfSeq
<1>2. /\ a \in Seq(S) /\ Len(a) = i - 1
      /\ \A n \in 1 .. i - 1 : a[n] = q[n]
  <2>1. i - 1 \in Int /\ 1 \in Int /\ \A n \in 1 .. i - 1 : q[n] \in S BY <1>1
  <2> HIDE DEF a
  <2>2. /\ a \in Seq(S) /\ Len(a) = IF 1 <= i - 1 THEN (i - 1) - 1 + 1 ELSE 0
        /\ \A n \in 1 .. (i - 1) - 1 + 1 : a[n] = q[1 + n - 1]
    BY <2>1, SubSeqProperties DEF a
  <2> QED BY <1>1, <2>2
<1>3. /\ b \in Seq(S) /\ Len(b) = Len(q) - i
      /\ \A n \in 1 .. Len(q) - i : b[n] = q[n + i]
  <2>1. i + 1 \in Int /\ Len(q) \in Int /\ \A n \in i + 1 .. Len(q) : q[n] \in S BY <1>1
  <2> HIDE DEF b
  <2>2. /\ b \in Seq(S) /\ Len(b) = IF i + 1 <= Len(q) THEN Len(q) - (i + 1) + 1 ELSE 0
        /\ \A n \in 1 .. Len(q) - (i + 1) + 1 : b[n] = q[(i + 1) + n - 1]
    BY <2>1, SubSeqProperties DEF b
  <2>3. Len(b) = Len(q) - i BY <1>1, <2>2
  <2>4. ASSUME NEW n \in 1 .. Len(q) - i PROVE b[n] = q[n + i]
    <3>1. n \in 1 .. Len(q) - (i + 1) + 1 BY <1>1
    <3>2. (i + 1) + n - 1 = n + i BY <1>1
    <3> QED BY <2>2, <3>1, <3>2
  <2> QED BY <2>2, <2>3, <2>4
<1>4. r = a \o b BY DEF RemoveAt
<1> HIDE DEF a, b, r
<1>5. /\ r \in Seq(S) /\ Len(r) = Len(q) - 1 /\ DOMAIN r = 1 .. Len(q) - 1
      /\ \A n \in 1 .. Len(q) - 1 : r[n] = IF n <= i - 1 THEN a[n] ELSE b[n - (i - 1)]
  <2>1. /\ a \o b \in Seq(S) /\ Len(a \o b) = Len(a) + Len(b)
        /\ \A n \in 1 .. Len(a) + Len(b) :
              (a \o b)[n] = IF n <= Len(a) THEN a[n] ELSE b[n - Len(a)]
    BY <1>2, <1>3, ConcatProperties
  <2>2. Len(a) = i - 1 /\ Len(a) + Len(b) = Len(q) - 1 BY <1>1, <1>2, <1>3
  <2> QED BY <1>4, <2>1, <2>2, LenProperties
<1>6. \A n \in 1 .. Len(q) - 1 : r[n] = IF n <= i - 1 THEN q[n] ELSE q[n + 1]
  <2> SUFFICES ASSUME NEW n \in 1 .. Len(q) - 1
               PROVE  r[n] = IF n <= i - 1 THEN q[n] ELSE q[n + 1]
    OBVIOUS
  <2>1. CASE n <= i - 1 BY <1>1, <1>2, <1>5, <2>1
  <2>2. CASE ~(n <= i - 1)
    <3>1. n - (i - 1) \in 1 .. Len(q) - i /\ (n - (i - 1)) + i = n + 1 BY <1>1, <2>2
    <3> QED BY <1>3, <1>5, <2>2, <3>1
  <2> QED BY <2>1, <2>2
<1>7. ASSUME NEW n \in DOMAIN q \ {i} PROVE \E m \in DOMAIN r : r[m] = q[n]
  <2>1. CASE n < i BY <1>1, <1>5, <1>6, <2>1
  <2>2. CASE n > i
    <3>1. n - 1 \in 1 .. Len(q) - 1 /\ ~(n - 1 <= i - 1) /\ (n - 1) + 1 = n BY <1>1, <2>2
    <3>2. r[n - 1] = q[n] BY <1>6, <3>1
    <3> QED BY <1>5, <3>1, <3>2
  <2> QED BY <1>1, <2>1, <2>2
<1>8. ASSUME NEW m \in DOMAIN r PROVE \E n \in DOMAIN q : r[m] = q[n]
  <2>1. m \in DOMAIN q /\ m + 1 \in DOMAIN q BY <1>1, <1>5
  <2> QED BY <1>5, <1>6, <2>1
<1> QED BY <1>5, <1>7, <1>8 DEF r

\* What is put aside is a quarantine, added to those that are there.
LEMMA AsideType ==
    ASSUME LockTypeOK, NEW moved, NEW key \in Keys \cup {NoKey}, PutAside(moved, key)
    PROVE  /\ quarantines' \in Seq(Quarantine) /\ blob' \in [Sessions -> Blobs]
           /\ \A i \in DOMAIN quarantines :
                 i \in DOMAIN quarantines' /\ quarantines'[i] = quarantines[i]
           /\ \E i \in DOMAIN quarantines' :
                 quarantines'[i].key = key /\ \A s \in Sessions \cap moved :
                      quarantines'[i].blobs[s] = blob[s]
           /\ \A i \in DOMAIN quarantines', s \in Sessions :
                 \/ i \in DOMAIN quarantines /\ quarantines'[i] = quarantines[i]
                 \/ quarantines'[i].blobs[s] \in {blob[s], NoBlob}
<1> DEFINE q == [blobs |-> [s \in Sessions |-> IF s \in moved THEN blob[s] ELSE NoBlob],
                 key |-> key]
<1>1. NoBlob \in Blobs BY DEF NoBlob, Blobs
<1>2. q \in Quarantine BY <1>1 DEF Quarantine, LockTypeOK
<1>3. quarantines \in Seq(Quarantine) /\ quarantines' = Append(quarantines, q)
  BY DEF LockTypeOK, Quarantine, PutAside
<1>4. /\ \A s \in Sessions : q.blobs[s] \in {blob[s], NoBlob}
      /\ \A s \in Sessions \cap moved : q.blobs[s] = blob[s]
      /\ q.key = key
  OBVIOUS
<1> HIDE DEF q
<1>5. /\ quarantines' \in Seq(Quarantine)
      /\ Len(quarantines) \in Nat /\ DOMAIN quarantines = 1 .. Len(quarantines)
      /\ DOMAIN quarantines' = 1 .. Len(quarantines) + 1
      /\ quarantines'[Len(quarantines) + 1] = q
      /\ \A i \in 1 .. Len(quarantines) : quarantines'[i] = quarantines[i]
  BY <1>2, <1>3
<1>6. blob' \in [Sessions -> Blobs] BY <1>1 DEF PutAside, LockTypeOK
<1> QED BY <1>4, <1>5, <1>6
\* The initial state has its types.
LEMMA InitLock == LockInit => LockTypeOK /\ JobInv
<1> SUFFICES ASSUME LockInit PROVE LockTypeOK /\ JobInv OBVIOUS
<1>1. NoBlob \in Blobs BY DEF NoBlob, Blobs
<1>2. quarantines \in Seq(Quarantine) BY DEF LockInit
<1>3. /\ file \in [key : Keys \cup {NoKey}, enc : BOOLEAN]
      /\ plain \in [Sessions -> Folders] /\ blob \in [Sessions -> Blobs]
      /\ listed \subseteq Sessions
      /\ sealed \in Keys \cup {NoKey, Wiped} /\ made \in 0 .. MaxKeys
  BY <1>1, MaxKeysAssumption DEF LockInit, Folders
<1>4. /\ job = NoJob /\ gate = NoGate /\ call = NoCall /\ held = NoKey
      /\ vaultLocked = FALSE /\ busy = FALSE /\ shared = FALSE /\ cached = FALSE
      /\ forsaken = {} /\ astray = {} /\ raced = {}
  BY DEF LockInit
<1>5. LockTypeOK
  BY <1>2, <1>3, <1>4 DEF LockTypeOK, Quarantine, NoJob, NoGate, NoCall, JobSteps
<1>6. file.enc = FALSE /\ file.key = NoKey BY DEF LockInit
<1> QED
  BY <1>4, <1>5, <1>6
  DEF JobInv, JobAt, FileAt, KeyAt, TodoAt, ImportAt, NoJob, PasswordSet, Latched

\* Which steps write to the disk, and which to the key.
LEMMA Writers ==
    ASSUME [LockNext]_lockVars
    PROVE  /\ file' = file \/ SetWrites \/ EnableEncrypts \/ DisableDecrypts \/ RemoveUnlinks
           /\ \/ plain' = plain
              \/ \E s \in Sessions :
                    \/ \E left \in Folders : ClearPlain(s, left) \/ ExtractFails(s, left)
                    \/ ExtractSession(s) \/ ImportSession(s)
              \/ \E torn \in SUBSET Sessions : Restart(torn)
           /\ \/ blob' = blob
              \/ \E s \in Sessions :
                    \/ SealSession(s) \/ \E written \in BOOLEAN : SealFails(s, written)
                    \/ \E gone \in BOOLEAN : DropBlob(s, gone)
              \/ \E moved \in SUBSET job.failed : QuarantineFailures(moved)
              \/ QuarantineUnwritten
           /\ \/ listed' = listed
              \/ \E s \in Sessions : ImportSession(s)
              \/ \E moved \in SUBSET job.failed : QuarantineFailures(moved)
           /\ \/ quarantines' = quarantines
              \/ \E moved \in SUBSET job.failed : QuarantineFailures(moved)
              \/ QuarantineUnwritten \/ ImportEnds
              \/ \E i \in DOMAIN quarantines : DeleteQuarantine(i)
           /\ sealed' = sealed \/ SaveWrites
           /\ made' = made \/ BeginSet
<1> USE DEF lockVars, diskVars, Folders
<1>1. CASE Operations
  BY <1>1 DEF Operations, BeginSet, SetWrites, SetInstalls, BeginOperation, RemoveShares,
      StartOperation, SealSession, ClearPlain, ExtractSession, DropBlob, ImportSession,
      EnableEncrypts, NothingToClear, QuarantineFailures, DisableDecrypts, FinishOperation,
      RemoveUnlinks, RemoveForgets, RetryQuarantineImport, DeleteQuarantine, ImportEnds
<1>2. CASE Gates \/ Calls
  BY <1>2 DEF Gates, Calls, BeginLock, BeginUnlock, LockRefused, LockDecides, UnlockInstalls,
      GateHook, BeginCall, TakeSubKey, LoadOpens, SaveWrites
<1>3. CASE LockFaults
  BY <1>3 DEF LockFaults, SealFails, ExtractFails, ClearPlain, DropBlob, QuarantineUnwritten,
      QuarantineFailures, Restart
<1>4. CASE UNCHANGED lockVars BY <1>4
<1> QED BY <1>1, <1>2, <1>3, <1>4 DEF LockNext
\* Every step keeps the types of the disk.
LEMMA DiskType ==
    ASSUME LockTypeOK, JobInv, [LockNext]_lockVars
    PROVE  /\ file' \in [key : Keys \cup {NoKey}, enc : BOOLEAN]
           /\ plain' \in [Sessions -> Folders] /\ blob' \in [Sessions -> Blobs]
           /\ listed' \subseteq Sessions
           /\ quarantines' \in Seq(Quarantine)
           /\ sealed' \in Keys \cup {NoKey, Wiped} /\ made' \in 0 .. MaxKeys
<1>0. /\ file \in [key : Keys \cup {NoKey}, enc : BOOLEAN]
      /\ plain \in [Sessions -> Folders] /\ blob \in [Sessions -> Blobs]
      /\ listed \subseteq Sessions /\ quarantines \in Seq(Quarantine)
      /\ sealed \in Keys \cup {NoKey, Wiped} /\ made \in 0 .. MaxKeys
      /\ job.key \in Keys \cup {NoKey, Wiped} /\ NoBlob \in Blobs
      /\ call.key \in Keys \cup {NoKey, Wiped}
  BY DEF LockTypeOK, Quarantine, NoBlob, Blobs
<1>1. file' \in [key : Keys \cup {NoKey}, enc : BOOLEAN]
  <2>1. CASE SetWrites
    <3>1. file' = [key |-> job.key, enc |-> FALSE] /\ job.key \in Keys
      BY <1>0, <2>1 DEF SetWrites, JobInv, KeyAt
    <3> QED BY <3>1
  <2>2. CASE EnableEncrypts \/ DisableDecrypts
    BY <1>0, <2>2 DEF EnableEncrypts, DisableDecrypts
  <2>3. CASE RemoveUnlinks BY <2>3 DEF RemoveUnlinks
  <2> QED BY <1>0, <2>1, <2>2, <2>3, Writers
<1>2. plain' \in [Sessions -> Folders]
  <2>1. ASSUME NEW s \in Sessions, NEW left \in Folders, ClearPlain(s, left) \/ ExtractFails(s, left)
        PROVE  plain' \in [Sessions -> Folders]
    BY <1>0, <2>1 DEF ClearPlain, ExtractFails
  <2>2. ASSUME NEW s \in Sessions, ExtractSession(s) PROVE plain' \in [Sessions -> Folders]
    <3>1. blob[s].what \in Folders BY <1>0 DEF Blobs, Folders
    <3> QED BY <1>0, <2>2, <3>1 DEF ExtractSession
  <2>3. ASSUME NEW s \in Sessions, ImportSession(s) PROVE plain' \in [Sessions -> Folders]
    <3>1. job.id \in DOMAIN quarantines BY <2>3 DEF ImportSession, JobInv, ImportAt
    <3>2. quarantines[job.id] \in Quarantine
      BY <1>0, <3>1, LenProperties, ElementOfSeq
    <3>3. quarantines[job.id].blobs[s].what \in Folders
      BY <3>2 DEF Quarantine, Blobs, Folders
    <3> QED BY <1>0, <2>3, <3>3 DEF ImportSession
  <2>4. ASSUME NEW torn \in SUBSET Sessions, Restart(torn) PROVE plain' \in [Sessions -> Folders]
    BY <1>0, <2>4 DEF Restart, Folders
  <2> QED BY <1>0, <2>1, <2>2, <2>3, <2>4, Writers
<1>3. blob' \in [Sessions -> Blobs] /\ quarantines' \in Seq(Quarantine)
  <2>1. ASSUME NEW s \in Sessions, SealSession(s) \/ \E written \in BOOLEAN : SealFails(s, written)
        PROVE  blob' \in [Sessions -> Blobs] /\ quarantines' = quarantines
    <3>1. s \in job.todo /\ job.at = "seal" /\ quarantines' = quarantines
      BY <2>1 DEF SealSession, SealFails
    <3>2. plain[s] \in {"whole", "torn"} BY <1>0, <3>1 DEF JobInv, TodoAt, Folders
    <3>3. [key |-> job.key, what |-> plain[s]] \in Blobs BY <1>0, <3>2 DEF Blobs
    <3> QED BY <1>0, <2>1, <3>1, <3>3 DEF SealSession, SealFails
  <2>2. ASSUME NEW s \in Sessions, NEW gone \in BOOLEAN, DropBlob(s, gone)
        PROVE  blob' \in [Sessions -> Blobs] /\ quarantines' = quarantines
    BY <1>0, <2>2 DEF DropBlob
  <2>3. ASSUME NEW moved \in SUBSET job.failed, QuarantineFailures(moved)
        PROVE  blob' \in [Sessions -> Blobs] /\ quarantines' \in Seq(Quarantine)
    <3>1. PutAside(moved, file.key) /\ file.key \in Keys \cup {NoKey}
      BY <1>0, <2>3 DEF QuarantineFailures
    <3> QED BY <3>1, AsideType
  <2>4. CASE QuarantineUnwritten
    BY <2>4, AsideType DEF QuarantineUnwritten
  <2>5. CASE ImportEnds \/ \E i \in DOMAIN quarantines : DeleteQuarantine(i)
    <3>1. blob' = blob BY <2>5 DEF ImportEnds, DeleteQuarantine
    <3>2. \E i \in DOMAIN quarantines : quarantines' = RemoveAt(quarantines, i)
      BY <2>5 DEF ImportEnds, DeleteQuarantine, JobInv, ImportAt
    <3> QED BY <1>0, <3>1, <3>2, RemoveAtProperties
  <2> QED BY <1>0, <2>1, <2>2, <2>3, <2>4, <2>5, Writers
<1>4. listed' \subseteq Sessions
  BY <1>0, Writers DEF ImportSession, QuarantineFailures
<1>5. sealed' \in Keys \cup {NoKey, Wiped} /\ made' \in 0 .. MaxKeys
  <2>1. CASE BeginSet
    BY <1>0, <2>1, Writers, MaxKeysAssumption DEF BeginSet, SaveWrites
  <2>2. CASE ~BeginSet
    <3>1. made' = made BY <2>2, Writers
    <3> QED BY <1>0, <3>1, Writers DEF SaveWrites
  <2> QED BY <2>1, <2>2
<1> QED BY <1>1, <1>2, <1>3, <1>4, <1>5
\* And those of the process and of history.
LEMMA MemoryType ==
    ASSUME LockTypeOK, JobInv, [LockNext]_lockVars
    PROVE  /\ held' \in Keys \cup {NoKey, Wiped}
           /\ vaultLocked' \in BOOLEAN /\ busy' \in BOOLEAN /\ shared' \in BOOLEAN
           /\ cached' \in BOOLEAN
           /\ forsaken' \subseteq Sessions /\ astray' \subseteq Sessions
           /\ raced' \in SUBSET {"lock", "load", "wiped"}
<1> USE DEF LockTypeOK, lockVars, diskVars, keyVars, Hooked, Raced, VaultLocked, PasswordSet
<1>1. CASE Operations
  BY <1>1 DEF Operations, BeginSet, SetWrites, SetInstalls, BeginOperation, RemoveShares,
      StartOperation, Adopted, SealSession, ClearPlain, ExtractSession, DropBlob, ImportSession,
      EnableEncrypts, NothingToClear, QuarantineFailures, DisableDecrypts, FinishOperation,
      RemoveUnlinks, RemoveForgets, RetryQuarantineImport, DeleteQuarantine, ImportEnds
<1>2. CASE Gates
  BY <1>2 DEF Gates, BeginLock, BeginUnlock, LockRefused, LockDecides, ZeroKey, UnlockInstalls,
      GateHook
<1>3. CASE Calls
  BY <1>3 DEF Calls, BeginCall, TakeSubKey, LoadOpens, SaveWrites
<1>4. CASE LockFaults
  BY <1>4 DEF LockFaults, SealFails, ExtractFails, ClearPlain, DropBlob, QuarantineUnwritten,
      QuarantineFailures, Restart
<1>5. CASE UNCHANGED lockVars BY <1>5
<1> QED BY <1>1, <1>2, <1>3, <1>4, <1>5 DEF LockNext

\* The records of an operation, of a lock or unlock and of a vault call.
Jobs == [kind : {"none", "set", "enable", "disable", "remove", "retry"},
         at : JobSteps, key : Keys \cup {NoKey, Wiped}, todo : SUBSET Sessions,
         done : SUBSET Sessions, failed : SUBSET Sessions, id : Nat]
GateRecords == [kind : {"none", "lockVault", "lockApp", "unlockVault", "unlockApp"},
                at : {"idle", "decide", "install", "hook"},
                key : Keys \cup {NoKey}, enc : BOOLEAN]
CallRecords == [at : {"idle", "loadKey", "open", "saveKey", "write"},
                key : Keys \cup {NoKey, Wiped}, writes : BOOLEAN]

\* A quarantine's recovery file wraps a password's key, or was not written.
LEMMA QuarantineKeys ==
    ASSUME LockTypeOK, NEW i \in DOMAIN quarantines
    PROVE  i \in Nat /\ quarantines[i].key \in Keys \cup {NoKey} /\ quarantines[i] \in Quarantine
<1>1. quarantines \in Seq(Quarantine) BY DEF LockTypeOK, Quarantine
<1>2. i \in 1 .. Len(quarantines) /\ Len(quarantines) \in Nat BY <1>1, LenProperties
<1>3. quarantines[i] \in Quarantine BY <1>1, <1>2, ElementOfSeq
<1> QED BY <1>2, <1>3 DEF Quarantine

\* Which steps are an operation's, a lock's or a vault call's.
LEMMA Movers ==
    ASSUME [LockNext]_lockVars
    PROVE  /\ \/ job' = job \/ job' = NoJob
              \/ BeginSet \/ SetWrites
              \/ \E kind \in {"enable", "disable", "remove"} : BeginOperation(kind)
              \/ RemoveShares \/ StartOperation
              \/ \E s \in Sessions :
                    \/ SealSession(s) \/ \E written \in BOOLEAN : SealFails(s, written)
                    \/ \E left \in Folders : ClearPlain(s, left) \/ ExtractFails(s, left)
                    \/ ExtractSession(s) \/ ImportSession(s)
                    \/ \E gone \in BOOLEAN : DropBlob(s, gone)
              \/ EnableEncrypts \/ NothingToClear \/ QuarantineUnwritten
              \/ \E moved \in SUBSET job.failed : QuarantineFailures(moved)
              \/ DisableDecrypts \/ FinishOperation \/ RemoveUnlinks
              \/ \E i \in DOMAIN quarantines : RetryQuarantineImport(i)
              \/ LockDecides
           /\ \/ gate' = gate \/ gate' = NoGate
              \/ \E kind \in {"lockVault", "lockApp"} : BeginLock(kind)
              \/ \E kind \in {"unlockVault", "unlockApp"} : BeginUnlock(kind)
              \/ LockDecides \/ UnlockInstalls
           /\ \/ call' = call \/ call' = NoCall
              \/ \E writes \in BOOLEAN : BeginCall(writes)
              \/ TakeSubKey \/ LoadOpens
<1> USE DEF lockVars, Folders
<1>1. CASE Operations
  BY <1>1 DEF Operations, BeginSet, SetWrites, SetInstalls, BeginOperation, RemoveShares,
      StartOperation, SealSession, ClearPlain, ExtractSession, DropBlob, ImportSession,
      EnableEncrypts, NothingToClear, QuarantineFailures, DisableDecrypts, FinishOperation,
      RemoveUnlinks, RemoveForgets, RetryQuarantineImport, DeleteQuarantine, ImportEnds
<1>2. CASE Gates
  BY <1>2 DEF Gates, BeginLock, BeginUnlock, LockRefused, LockDecides, UnlockInstalls, GateHook
<1>3. CASE Calls
  BY <1>3 DEF Calls, BeginCall, TakeSubKey, LoadOpens, SaveWrites
<1>4. CASE LockFaults
  BY <1>4 DEF LockFaults, SealFails, ExtractFails, ClearPlain, DropBlob, QuarantineUnwritten,
      QuarantineFailures, Restart
<1>5. CASE UNCHANGED lockVars BY <1>5
<1> QED BY <1>1, <1>2, <1>3, <1>4, <1>5 DEF LockNext

\* Every step keeps the types of the three callers.
LEMMA CallersType ==
    ASSUME LockTypeOK, JobInv, [LockNext]_lockVars
    PROVE  job' \in Jobs /\ gate' \in GateRecords /\ call' \in CallRecords
<1>0. /\ file.key \in Keys \cup {NoKey} /\ file.enc \in BOOLEAN
      /\ held \in Keys \cup {NoKey, Wiped} /\ listed \subseteq Sessions
      /\ job \in Jobs /\ NoJob \in Jobs
      /\ gate \in GateRecords /\ NoGate \in GateRecords
      /\ call \in CallRecords /\ NoCall \in CallRecords
      /\ job.todo \subseteq Sessions /\ job.done \subseteq Sessions
      /\ job.failed \subseteq Sessions /\ made \in 0 .. MaxKeys
      /\ \A i \in DOMAIN quarantines :
            i \in Nat /\ quarantines[i].key \in Keys \cup {NoKey}
  <2>3. NoJob \in Jobs BY DEF NoJob, JobSteps, Jobs
  <2>4. NoGate \in GateRecords BY DEF NoGate, GateRecords
  <2>5. NoCall \in CallRecords BY DEF NoCall, CallRecords
  <2>6. job \in Jobs /\ gate \in GateRecords /\ call \in CallRecords
    BY DEF LockTypeOK, Jobs, GateRecords, CallRecords
  <2>7. job.todo \subseteq Sessions /\ job.done \subseteq Sessions /\ job.failed \subseteq Sessions
    BY <2>6 DEF Jobs
  <2> QED BY <2>3, <2>4, <2>5, <2>6, <2>7, QuarantineKeys DEF LockTypeOK
<1>1. gate' \in GateRecords
  <2>1. ASSUME NEW kind \in {"lockVault", "lockApp"}, BeginLock(kind) PROVE gate' \in GateRecords
    <3>1. gate' = [kind |-> kind, at |-> "decide", key |-> NoKey, enc |-> file.enc]
      BY <2>1 DEF BeginLock, NoGate
    <3> QED BY <1>0, <3>1 DEF GateRecords
  <2>2. ASSUME NEW kind \in {"unlockVault", "unlockApp"}, BeginUnlock(kind)
        PROVE  gate' \in GateRecords
    <3>1. gate' = [kind |-> kind, at |-> "install", key |-> file.key, enc |-> FALSE]
      BY <2>2 DEF BeginUnlock, NoGate
    <3> QED BY <1>0, <3>1 DEF GateRecords
  <2>3. CASE LockDecides \/ UnlockInstalls
    <3>1. gate' = NoGate \/ gate' = [gate EXCEPT !.at = "hook"]
      BY <2>3 DEF LockDecides, UnlockInstalls
    <3>2. [gate EXCEPT !.at = "hook"] \in GateRecords BY <1>0 DEF GateRecords
    <3> QED BY <1>0, <3>1, <3>2
  <2> QED BY <1>0, <2>1, <2>2, <2>3, Movers
<1>2. call' \in CallRecords
  <2>1. ASSUME NEW writes \in BOOLEAN, BeginCall(writes) PROVE call' \in CallRecords
    <3>1. call' = [at |-> IF cached THEN "saveKey" ELSE "loadKey",
                   key |-> NoKey, writes |-> writes]
      BY <2>1 DEF BeginCall, NoCall
    <3> QED BY <3>1 DEF CallRecords
  <2>2. ASSUME NEW key \in Keys \cup {NoKey, Wiped}, NEW at \in {"open", "write", "saveKey"}
        PROVE  [call EXCEPT !.key = key, !.at = at] \in CallRecords
               /\ [call EXCEPT !.at = at, !.key = key] \in CallRecords
    BY <1>0 DEF CallRecords
  <2>3. CASE TakeSubKey BY <1>0, <2>2, <2>3 DEF TakeSubKey
  <2>4. CASE LoadOpens BY <1>0, <2>2, <2>4 DEF LoadOpens
  <2> QED BY <1>0, <2>1, <2>3, <2>4, Movers
<1>3. job' \in Jobs
  <2>1. ASSUME NEW kind \in {"set", "enable", "disable", "remove", "retry"}, NEW at \in JobSteps,
               NEW key \in Keys \cup {NoKey, Wiped}, NEW todo \in SUBSET Sessions, NEW id \in Nat
        PROVE  [kind |-> kind, at |-> at, key |-> key, todo |-> todo, done |-> {},
                failed |-> {}, id |-> id] \in Jobs
    BY DEF Jobs
  <2>2. ASSUME NEW at \in JobSteps, NEW todo \in SUBSET Sessions, NEW done \in SUBSET Sessions,
               NEW failed \in SUBSET Sessions
        PROVE  /\ [job EXCEPT !.at = at] \in Jobs
               /\ [job EXCEPT !.at = at, !.todo = todo] \in Jobs
               /\ [job EXCEPT !.todo = todo, !.at = at] \in Jobs
               /\ [job EXCEPT !.at = at, !.done = done] \in Jobs
               /\ [job EXCEPT !.at = at, !.failed = failed] \in Jobs
               /\ [job EXCEPT !.at = at, !.failed = failed, !.kind = "disable"] \in Jobs
               /\ [job EXCEPT !.at = at, !.todo = todo, !.done = done] \in Jobs
               /\ [job EXCEPT !.todo = todo] \in Jobs
               /\ [job EXCEPT !.todo = todo, !.done = done] \in Jobs
               /\ [job EXCEPT !.todo = todo, !.done = done, !.failed = failed] \in Jobs
    BY <1>0 DEF Jobs
  <2>3. CASE BeginSet
    <3>1. made + 1 \in Keys \cup {NoKey, Wiped} BY <1>0, <2>3, MaxKeysAssumption DEF BeginSet, Keys
    <3>2. job' = [kind |-> "set", at |-> "write", key |-> made + 1, todo |-> {}, done |-> {},
                  failed |-> {}, id |-> 0]
      BY <2>3 DEF BeginSet, NoJob
    <3> QED BY <2>1, <3>1, <3>2 DEF JobSteps
  <2>4. ASSUME NEW kind \in {"enable", "disable", "remove"}, BeginOperation(kind)
        PROVE  job' \in Jobs
    <3>1. job' = [kind |-> kind, at |-> IF kind = "remove" THEN "share" ELSE "adopt",
                  key |-> file.key, todo |-> {}, done |-> {}, failed |-> {}, id |-> 0]
      BY <2>4 DEF BeginOperation, NoJob
    <3> QED BY <1>0, <2>1, <3>1 DEF JobSteps
  <2>5. ASSUME NEW i \in DOMAIN quarantines, RetryQuarantineImport(i) PROVE job' \in Jobs
    <3> DEFINE todo == {s \in Sessions : quarantines[i].blobs[s] # NoBlob}
    <3>1. job' = [kind |-> "retry", at |-> "import", key |-> quarantines[i].key, todo |-> todo,
                  done |-> {}, failed |-> {}, id |-> i]
      BY <2>5 DEF RetryQuarantineImport, NoJob
    <3>2. todo \in SUBSET Sessions OBVIOUS
    <3> HIDE DEF todo
    <3> QED BY <1>0, <2>1, <3>1, <3>2 DEF JobSteps
  <2>6. CASE SetWrites \/ RemoveShares \/ NothingToClear \/ RemoveUnlinks
    BY <2>2, <2>6 DEF SetWrites, RemoveShares, NothingToClear, RemoveUnlinks, JobSteps
  <2>7. CASE StartOperation
    <3>1. Collected(job.kind) \in SUBSET Sessions BY <1>0 DEF Collected
    <3>2. PICK at \in JobSteps : job' = [job EXCEPT !.at = at, !.todo = Collected(job.kind)]
      BY <2>7 DEF StartOperation, JobSteps
    <3> QED BY <2>2, <3>1, <3>2
  <2>8. CASE EnableEncrypts \/ DisableDecrypts
    <3>1. PICK at \in JobSteps : job' = [job EXCEPT !.at = at, !.todo = job.done]
      BY <2>8 DEF EnableEncrypts, DisableDecrypts, JobSteps
    <3> QED BY <1>0, <2>2, <3>1
  <2>9. CASE FinishOperation BY <1>0, <2>2, <2>9 DEF FinishOperation, JobSteps
  <2>10. ASSUME NEW s \in Sessions, NEW left \in Folders,
                \/ SealSession(s) \/ ExtractSession(s) \/ ImportSession(s) \/ ExtractFails(s, left)
         PROVE  job' \in Jobs
    <3>1. job.todo \ {s} \in SUBSET Sessions /\ job.done \cup {s} \in SUBSET Sessions
          /\ job.failed \cup {s} \in SUBSET Sessions /\ job.failed \in SUBSET Sessions
      BY <1>0
    <3>2. \/ job' = [job EXCEPT !.todo = job.todo \ {s}, !.done = job.done \cup {s}]
          \/ job' = [job EXCEPT !.todo = job.todo \ {s}] \/ job' = NoJob
          \/ \E failed \in {job.failed, job.failed \cup {s}} :
                job' = [job EXCEPT !.todo = job.todo \ {s}, !.done = job.done \cup {s},
                                   !.failed = failed]
      BY <2>10 DEF SealSession, ExtractSession, ImportSession, ExtractFails
    <3>3. "idle" \in JobSteps BY DEF JobSteps
    <3>4. /\ [job EXCEPT !.todo = job.todo \ {s}, !.done = job.done \cup {s}] \in Jobs
          /\ [job EXCEPT !.todo = job.todo \ {s}] \in Jobs
      BY <2>2, <3>1, <3>3
    <3>5. \A failed \in {job.failed, job.failed \cup {s}} :
            [job EXCEPT !.todo = job.todo \ {s}, !.done = job.done \cup {s}, !.failed = failed] \in Jobs
      BY <2>2, <3>1, <3>3
    <3> QED BY <1>0, <3>2, <3>4, <3>5
  <2>11. ASSUME NEW s \in Sessions, NEW left \in Folders, NEW b \in BOOLEAN,
                ClearPlain(s, left) \/ DropBlob(s, b) \/ SealFails(s, b)
         PROVE  job' \in Jobs
    <3>1. job.todo \ {s} \in SUBSET Sessions /\ job.at \in JobSteps BY <1>0 DEF Jobs
    <3>2. \/ \E at \in {"finish", job.at} : job' = [job EXCEPT !.todo = job.todo \ {s}, !.at = at]
          \/ job' = [job EXCEPT !.at = "finish", !.todo = {}, !.done = {}]
      BY <2>11 DEF ClearPlain, DropBlob, SealFails
    <3>3. "finish" \in JobSteps /\ {} \in SUBSET Sessions BY DEF JobSteps
    <3>4. \A at \in JobSteps : [job EXCEPT !.todo = job.todo \ {s}, !.at = at] \in Jobs
      BY <2>2, <3>1, <3>3
    <3>5. [job EXCEPT !.at = "finish", !.todo = {}, !.done = {}] \in Jobs BY <2>2, <3>3
    <3>6. CASE \E at \in {"finish", job.at} : job' = [job EXCEPT !.todo = job.todo \ {s}, !.at = at]
      <4> PICK at \in {"finish", job.at} : job' = [job EXCEPT !.todo = job.todo \ {s}, !.at = at]
        BY <3>6
      <4>1. at \in JobSteps BY <3>1, <3>3
      <4> QED BY <3>4, <4>1
    <3> QED BY <3>2, <3>5, <3>6
  <2>12. ASSUME QuarantineUnwritten \/ \E moved \in SUBSET job.failed : QuarantineFailures(moved)
         PROVE  job' \in Jobs
    <3>1. \/ \E at \in {"decrypt", "finish"} : job' = [job EXCEPT !.at = at, !.failed = {}]
          \/ job' = [job EXCEPT !.at = "finish", !.failed = {}, !.kind = "disable"]
      BY <2>12 DEF QuarantineFailures, QuarantineUnwritten
    <3>2. "decrypt" \in JobSteps /\ "finish" \in JobSteps /\ {} \in SUBSET Sessions
      BY DEF JobSteps
    <3>3. [job EXCEPT !.at = "finish", !.failed = {}, !.kind = "disable"] \in Jobs BY <2>2, <3>2
    <3>4. \A at \in {"decrypt", "finish"} : [job EXCEPT !.at = at, !.failed = {}] \in Jobs
      BY <2>2, <3>2
    <3> QED BY <3>1, <3>3, <3>4
  <2>13. CASE LockDecides
    <3>1. job' = job \/ job' = [job EXCEPT !.key = Wiped] BY <2>13 DEF LockDecides, ZeroKey
    <3>2. [job EXCEPT !.key = Wiped] \in Jobs BY <1>0 DEF Jobs
    <3> QED BY <1>0, <3>1, <3>2
  <2> QED
    <3>1. "none" \in Folders /\ FALSE \in BOOLEAN BY DEF Folders
    <3>2. ASSUME NEW s \in Sessions,
                 \/ SealSession(s) \/ \E written \in BOOLEAN : SealFails(s, written)
                 \/ \E left \in Folders : ClearPlain(s, left) \/ ExtractFails(s, left)
                 \/ ExtractSession(s) \/ ImportSession(s)
                 \/ \E gone \in BOOLEAN : DropBlob(s, gone)
          PROVE  job' \in Jobs
      <4>1. CASE SealSession(s) \/ ExtractSession(s) \/ ImportSession(s) BY <2>10, <3>1, <4>1
      <4>2. CASE \E written \in BOOLEAN : SealFails(s, written) BY <2>11, <3>1, <4>2
      <4>3. CASE \E gone \in BOOLEAN : DropBlob(s, gone) BY <2>11, <3>1, <4>3
      <4>4. CASE \E left \in Folders : ClearPlain(s, left) \/ ExtractFails(s, left)
        BY <2>10, <2>11, <3>1, <4>4
      <4> QED BY <3>2, <4>1, <4>2, <4>3, <4>4
    <3>3. CASE job' = job \/ job' = NoJob BY <1>0, <3>3
    <3>4. CASE \E s \in Sessions :
                 \/ SealSession(s) \/ \E written \in BOOLEAN : SealFails(s, written)
                 \/ \E left \in Folders : ClearPlain(s, left) \/ ExtractFails(s, left)
                 \/ ExtractSession(s) \/ ImportSession(s)
                 \/ \E gone \in BOOLEAN : DropBlob(s, gone)
      BY <3>2, <3>4
    <3>5. CASE \E kind \in {"enable", "disable", "remove"} : BeginOperation(kind) BY <2>4, <3>5
    <3>6. CASE \E i \in DOMAIN quarantines : RetryQuarantineImport(i) BY <2>5, <3>6
    <3> QED BY <2>3, <2>6, <2>7, <2>8, <2>9, <2>12, <2>13, <3>3, <3>4, <3>5, <3>6, Movers
<1> QED BY <1>1, <1>2, <1>3

\* Every step keeps the types.
LEMMA StepType ==
    ASSUME LockTypeOK, JobInv, [LockNext]_lockVars PROVE LockTypeOK'
BY DiskType, MemoryType, CallersType DEF LockTypeOK, Quarantine, Jobs, GateRecords, CallRecords

\* Every step keeps what an operation has made of the file and the key.
LEMMA StepJob ==
    ASSUME LockTypeOK, JobInv, GateAt, [LockNext]_lockVars PROVE JobInv'
<1>0. job \in Jobs /\ file \in [key : Keys \cup {NoKey}, enc : BOOLEAN]
  BY DEF LockTypeOK, Jobs
<1> USE <1>0, MaxKeysAssumption
    DEF JobInv, JobAt, FileAt, KeyAt, TodoAt, ImportAt, Latched, PasswordSet, Jobs,
        diskVars, keyVars
<1>1. CASE BeginSet
  <2>1. /\ job' = [kind |-> "set", at |-> "write", key |-> made + 1, todo |-> {}, done |-> {},
                   failed |-> {}, id |-> 0]
        /\ ~PasswordSet /\ UNCHANGED <<file, plain, quarantines, keyVars>> /\ job = NoJob
    BY <1>1 DEF BeginSet, NoJob
  <2>2. made + 1 # NoKey /\ made + 1 # Wiped BY <1>1 DEF LockTypeOK, BeginSet, NoKey, Wiped
  <2> QED BY <2>1, <2>2 DEF NoJob
<1>2. CASE SetWrites BY <1>2 DEF SetWrites
<1>3. CASE SetInstalls BY <1>3 DEF SetInstalls, NoJob
<1>4. CASE \E kind \in {"enable", "disable", "remove"} : BeginOperation(kind)
  BY <1>4 DEF BeginOperation, NoJob
<1>5. CASE RemoveShares BY <1>5 DEF RemoveShares
<1>6. CASE StartOperation BY <1>6 DEF StartOperation, Adopted, Collected
<1>7. CASE \E s \in Sessions : SealSession(s) BY <1>7 DEF SealSession
<1>8. CASE \E s \in Sessions, left \in Folders : ClearPlain(s, left) BY <1>8 DEF ClearPlain
<1>9. CASE \E s \in Sessions : ExtractSession(s) BY <1>9 DEF ExtractSession
<1>10. CASE \E s \in Sessions, gone \in BOOLEAN : DropBlob(s, gone) BY <1>10 DEF DropBlob
<1>11. CASE \E s \in Sessions : ImportSession(s) BY <1>11 DEF ImportSession, NoJob
<1>12. CASE EnableEncrypts BY <1>12 DEF EnableEncrypts
<1>13. CASE NothingToClear BY <1>13 DEF NothingToClear
<1>14. CASE \E moved \in SUBSET job.failed : QuarantineFailures(moved)
  BY <1>14 DEF QuarantineFailures
<1>15. CASE QuarantineUnwritten BY <1>15 DEF QuarantineUnwritten
<1>16. CASE DisableDecrypts BY <1>16 DEF DisableDecrypts, AllExtracted
<1>17. CASE FinishOperation BY <1>17 DEF FinishOperation, NoJob
<1>18. CASE RemoveUnlinks BY <1>18 DEF RemoveUnlinks
<1>19. CASE RemoveForgets BY <1>19 DEF RemoveForgets, NoJob
<1>20. CASE \E i \in DOMAIN quarantines : RetryQuarantineImport(i)
  <2> PICK i \in DOMAIN quarantines : RetryQuarantineImport(i) BY <1>20
  <2>1. quarantines[i].key # NoKey /\ quarantines[i].key # Wiped
    BY QuarantineKeys DEF RetryQuarantineImport, Wiped, Keys, NoKey
  <2> QED BY <2>1 DEF RetryQuarantineImport, NoJob
<1>21. CASE ImportEnds BY <1>21 DEF ImportEnds, NoJob
<1>22. CASE \E i \in DOMAIN quarantines : DeleteQuarantine(i)
  BY <1>22 DEF DeleteQuarantine, NoJob
<1>23. CASE LockDecides
  <2>1. Wiped # NoKey BY DEF Wiped, NoKey
  <2>2. /\ job' = IF shared /\ ~KeyNeeded THEN [job EXCEPT !.key = Wiped] ELSE job
        /\ ~busy /\ UNCHANGED <<file, plain, quarantines, busy>>
        /\ KeyNeeded => UNCHANGED <<held, shared>>
        /\ ~KeyNeeded => ~shared'
    BY <1>23 DEF LockDecides, ZeroKey
  <2> QED BY <2>1, <2>2
<1>24. CASE UnlockInstalls BY <1>24 DEF UnlockInstalls, GateAt
<1>25. CASE \/ \E kind \in {"lockVault", "lockApp"} : BeginLock(kind)
            \/ \E kind \in {"unlockVault", "unlockApp"} : BeginUnlock(kind)
            \/ LockRefused \/ GateHook
  BY <1>25 DEF BeginLock, BeginUnlock, LockRefused, GateHook
<1>26. CASE Calls
  <2>1. UNCHANGED <<file, plain, quarantines, held, busy, shared, job>>
    BY <1>26 DEF Calls, BeginCall, TakeSubKey, LoadOpens, SaveWrites
  <2> QED BY <2>1
<1>27. CASE \E s \in Sessions, written \in BOOLEAN : SealFails(s, written) BY <1>27 DEF SealFails
<1>28. CASE \E s \in Sessions, left \in Folders : ExtractFails(s, left) BY <1>28 DEF ExtractFails
<1>29. CASE \E torn \in SUBSET Sessions : Restart(torn) BY <1>29 DEF Restart, NoJob
<1>30. CASE UNCHANGED lockVars BY <1>30 DEF lockVars
<1> QED
  BY <1>1, <1>2, <1>3, <1>4, <1>5, <1>6, <1>7, <1>8, <1>9, <1>10, <1>11, <1>12, <1>13, <1>14, <1>15, <1>16, <1>17, <1>18, <1>19, <1>20, <1>21, <1>22, <1>23, <1>24, <1>25, <1>26, <1>27, <1>28, <1>29, <1>30
  DEF LockNext, Operations, Gates, LockFaults, Folders

\* Every step keeps what locks, unlocks and vault calls have read of the key.
LEMMA StepKey ==
    ASSUME LockTypeOK, JobInv, KeyInv, [LockNext]_lockVars PROVE KeyInv'
<1>0. /\ job \in Jobs /\ file \in [key : Keys \cup {NoKey}, enc : BOOLEAN]
      /\ gate \in GateRecords /\ call \in CallRecords /\ blob \in [Sessions -> Blobs]
      /\ vaultLocked \in BOOLEAN /\ shared \in BOOLEAN
  BY DEF LockTypeOK, Jobs, GateRecords, CallRecords
<1>w. Wiped # NoKey /\ Wiped \notin Keys BY MaxKeysAssumption DEF Wiped, NoKey, Keys
<1>m. BeginSet => made + 1 # Wiped BY MaxKeysAssumption DEF LockTypeOK, BeginSet, Wiped
<1>l. ASSUME LoadOpens PROVE call'.key \in {NoKey, call.key}
  <2>1. CASE call' = NoCall BY <2>1 DEF NoCall
  <2>2. CASE call' = [call EXCEPT !.at = "saveKey", !.key = NoKey] BY <1>0, <2>2 DEF CallRecords
  <2> QED BY <1>l, <2>1, <2>2 DEF LoadOpens
<1> USE <1>0, <1>w
    DEF KeyInv, NoZeros, NothingSealedUnderZeros, GateAt, SwitchingKeepsItsKey, Dropped,
        VaultLocked, PasswordSet, Jobs, GateRecords, CallRecords, diskVars, keyVars, Hooked, Raced
<1>1. CASE BeginSet
  <2>1. /\ job' = [kind |-> "set", at |-> "write", key |-> made + 1, todo |-> {}, done |-> {},
                   failed |-> {}, id |-> 0]
        /\ ~PasswordSet
        /\ UNCHANGED <<file, blob, sealed, keyVars, cached, gate, call, raced>>
    BY <1>1 DEF BeginSet, NoJob
  <2> QED BY <1>m, <1>1, <2>1 DEF JobInv, FileAt, NoJob
<1>2. CASE SetWrites
  BY <1>2 DEF JobInv, JobAt, FileAt, KeyAt, Latched, SetWrites
<1>3. CASE SetInstalls
  BY <1>3 DEF JobInv, JobAt, FileAt, KeyAt, Latched, SetInstalls, NoJob
<1>4. CASE \E kind \in {"enable", "disable", "remove"} : BeginOperation(kind)
  BY <1>4 DEF JobInv, JobAt, FileAt, KeyAt, Latched, BeginOperation, NoJob
<1>5. CASE RemoveShares
  BY <1>5 DEF JobInv, JobAt, FileAt, KeyAt, Latched, RemoveShares
<1>6. CASE StartOperation
  BY <1>6 DEF JobInv, JobAt, FileAt, KeyAt, Latched, StartOperation, Adopted
<1>7. CASE \E s \in Sessions : SealSession(s)
  BY <1>7 DEF JobInv, JobAt, FileAt, KeyAt, Latched, SealSession
<1>8. CASE \E s \in Sessions, left \in Folders : ClearPlain(s, left)
  BY <1>8 DEF JobInv, JobAt, FileAt, KeyAt, Latched, ClearPlain
<1>9. CASE \E s \in Sessions : ExtractSession(s)
  BY <1>9 DEF JobInv, JobAt, FileAt, KeyAt, Latched, ExtractSession
<1>10. CASE \E s \in Sessions, gone \in BOOLEAN : DropBlob(s, gone)
  BY <1>10 DEF JobInv, JobAt, FileAt, KeyAt, Latched, DropBlob, NoBlob
<1>11. CASE \E s \in Sessions : ImportSession(s)
  BY <1>11 DEF JobInv, JobAt, FileAt, KeyAt, Latched, ImportSession, NoJob
<1>12. CASE EnableEncrypts
  BY <1>12 DEF JobInv, JobAt, FileAt, KeyAt, Latched, EnableEncrypts
<1>13. CASE NothingToClear
  BY <1>13 DEF JobInv, JobAt, FileAt, KeyAt, Latched, NothingToClear
<1>14. CASE \E moved \in SUBSET job.failed : QuarantineFailures(moved)
  BY <1>14 DEF JobInv, JobAt, FileAt, KeyAt, Latched, QuarantineFailures, PutAside, NoBlob
<1>15. CASE QuarantineUnwritten
  BY <1>15 DEF JobInv, JobAt, FileAt, KeyAt, Latched, QuarantineUnwritten, PutAside, NoBlob
<1>16. CASE DisableDecrypts
  BY <1>16 DEF JobInv, JobAt, FileAt, KeyAt, Latched, DisableDecrypts, AllExtracted
<1>17. CASE FinishOperation
  BY <1>17 DEF JobInv, JobAt, FileAt, KeyAt, Latched, FinishOperation, NoJob
<1>18. CASE RemoveUnlinks
  BY <1>18 DEF JobInv, JobAt, FileAt, KeyAt, Latched, RemoveUnlinks
<1>19. CASE RemoveForgets
  BY <1>19 DEF JobInv, JobAt, FileAt, KeyAt, Latched, RemoveForgets, NoJob
<1>20. CASE \E i \in DOMAIN quarantines : RetryQuarantineImport(i)
  <2> PICK i \in DOMAIN quarantines : RetryQuarantineImport(i) BY <1>20
  <2>1. job' = [kind |-> "retry", at |-> "import", key |-> quarantines[i].key,
                todo |-> {s \in Sessions : quarantines[i].blobs[s] # NoBlob},
                done |-> {}, failed |-> {}, id |-> i]
        /\ job = NoJob
        /\ UNCHANGED <<file, blob, sealed, keyVars, cached, gate, call, raced>>
    BY DEF RetryQuarantineImport, NoJob
  <2>2. quarantines[i].key # Wiped BY QuarantineKeys
  <2>3. job'.key # Wiped /\ job'.at = "import" /\ job.at = "idle" BY <2>1, <2>2 DEF NoJob
  <2> QED BY <2>1, <2>3
<1>21. CASE ImportEnds
  BY <1>21 DEF JobInv, JobAt, FileAt, KeyAt, Latched, ImportEnds, NoJob
<1>22. CASE \E i \in DOMAIN quarantines : DeleteQuarantine(i)
  BY <1>22 DEF JobInv, JobAt, FileAt, KeyAt, Latched, DeleteQuarantine, NoJob
<1>23. CASE LockDecides
  BY <1>23 DEF JobInv, JobAt, FileAt, KeyAt, Latched, LockDecides, ZeroKey, KeyNeeded
<1>24. CASE UnlockInstalls
  BY <1>24 DEF JobInv, JobAt, FileAt, KeyAt, Latched, UnlockInstalls, NoGate
<1>25. CASE LockRefused
  BY <1>25 DEF JobInv, JobAt, FileAt, KeyAt, Latched, LockRefused, NoGate
<1>26. CASE GateHook
  BY <1>26 DEF JobInv, JobAt, FileAt, KeyAt, Latched, GateHook, NoGate
<1>27. CASE \E kind \in {"lockVault", "lockApp"} : BeginLock(kind)
  BY <1>27 DEF JobInv, JobAt, FileAt, KeyAt, Latched, BeginLock, NoGate
<1>28. CASE \E kind \in {"unlockVault", "unlockApp"} : BeginUnlock(kind)
  BY <1>28 DEF JobInv, JobAt, FileAt, KeyAt, Latched, BeginUnlock, NoGate, AppLocked
<1>29. CASE \E writes \in BOOLEAN : BeginCall(writes)
  BY <1>29 DEF JobInv, JobAt, FileAt, KeyAt, Latched, BeginCall, NoCall
<1>30. CASE TakeSubKey
  BY <1>30 DEF JobInv, JobAt, FileAt, KeyAt, Latched, TakeSubKey, NoCall
<1>31. CASE LoadOpens
  <2>1. call.at = "open" /\ UNCHANGED <<file, blob, sealed, keyVars, job, gate, raced>>
    BY <1>31 DEF LoadOpens
  <2> QED BY <1>l, <1>31, <2>1
<1>32. CASE SaveWrites
  BY <1>32 DEF JobInv, JobAt, FileAt, KeyAt, Latched, SaveWrites, NoCall
<1>33. CASE \E s \in Sessions, written \in BOOLEAN : SealFails(s, written)
  BY <1>33 DEF JobInv, JobAt, FileAt, KeyAt, Latched, SealFails, NoBlob
<1>34. CASE \E s \in Sessions, left \in Folders : ExtractFails(s, left)
  BY <1>34 DEF JobInv, JobAt, FileAt, KeyAt, Latched, ExtractFails
<1>35. CASE \E torn \in SUBSET Sessions : Restart(torn)
  BY <1>35 DEF JobInv, JobAt, FileAt, KeyAt, Latched, Restart, NoJob, NoGate, NoCall
<1>36. CASE UNCHANGED lockVars
  BY <1>36 DEF JobInv, JobAt, FileAt, KeyAt, Latched, lockVars
<1> QED
  BY <1>1, <1>2, <1>3, <1>4, <1>5, <1>6, <1>7, <1>8, <1>9, <1>10, <1>11, <1>12, <1>13, <1>14, <1>15, <1>16, <1>17, <1>18, <1>19, <1>20, <1>21, <1>22, <1>23, <1>24, <1>25, <1>26, <1>27, <1>28, <1>29, <1>30, <1>31, <1>32, <1>33, <1>34, <1>35, <1>36
  DEF LockNext, Operations, Gates, Calls, LockFaults, Folders

\* Every step keeps each session whole somewhere.
LEMMA StepSession ==
    ASSUME LockTypeOK, JobInv, SessionInv, [LockNext]_lockVars PROVE SessionInv'
<1>0. /\ job \in Jobs /\ file \in [key : Keys \cup {NoKey}, enc : BOOLEAN]
      /\ blob \in [Sessions -> Blobs] /\ plain \in [Sessions -> Folders]
      /\ listed \subseteq Sessions
      /\ job.todo \subseteq Sessions /\ job.done \subseteq Sessions /\ job.failed \subseteq Sessions
  BY DEF LockTypeOK, Jobs
<1>w. Wiped # NoKey /\ Wiped \notin Keys BY MaxKeysAssumption DEF Wiped, NoKey, Keys
<1>b. NoBlob.key = NoKey /\ NoBlob.what = "whole" BY DEF NoBlob
\* Steps that leave the sessions alone.
<1>1. ASSUME UNCHANGED <<file, plain, blob, listed, quarantines, forsaken, astray>>, SessionAt'
      PROVE  SessionInv'
  BY <1>1 DEF SessionInv, CopiesWhole, TornHasCopy, SessionsSurvive, Kept
<1>2. ASSUME UNCHANGED <<file, plain, blob, listed, quarantines, forsaken, astray, job>>
      PROVE  SessionInv'
  <2>1. SessionAt' BY <1>2 DEF SessionInv, SessionAt
  <2> QED BY <1>1, <1>2, <2>1
\* Steps after which nothing is claimed of the operation's progress.
<1>3. ASSUME job'.at \in {"idle", "write", "install", "drop", "finish", "unlink", "forget"}
      PROVE  SessionAt'
  BY <1>3 DEF SessionAt
<1>i. NoJob.at = "idle" BY DEF NoJob
<1>4. CASE BeginSet \/ SetInstalls \/ NothingToClear \/ FinishOperation \/ RemoveForgets
  <2>1. UNCHANGED <<file, plain, blob, listed, quarantines, forsaken, astray>>
    BY <1>4 DEF BeginSet, SetInstalls, NothingToClear, FinishOperation, RemoveForgets, diskVars
  <2>2. job'.at \in {"idle", "write", "finish", "unlink"}
    <3>1. CASE BeginSet
      <4>1. job' = [kind |-> "set", at |-> "write", key |-> made', todo |-> {}, done |-> {},
                    failed |-> {}, id |-> 0]
        BY <3>1 DEF BeginSet, NoJob
      <4> QED BY <4>1
    <3>2. CASE SetInstalls \/ RemoveForgets
      <4>1. job' = NoJob BY <3>2 DEF SetInstalls, RemoveForgets
      <4> QED BY <1>i, <4>1
    <3>3. CASE NothingToClear BY <1>0, <3>3 DEF NothingToClear, Jobs
    <3>4. CASE FinishOperation
      <4>1. job'.at \in {NoJob.at, "unlink"} BY <1>0, <3>4 DEF FinishOperation, Jobs
      <4> QED BY <1>i, <4>1
    <3> QED BY <1>4, <3>1, <3>2, <3>3, <3>4
  <2> QED BY <1>1, <1>3, <2>1, <2>2
<1>5. CASE \E kind \in {"enable", "disable", "remove"} : BeginOperation(kind)
  <2>1. UNCHANGED <<file, plain, blob, listed, quarantines, forsaken, astray>>
    BY <1>5 DEF BeginOperation, diskVars
  <2>2. job'.at \in {"share", "adopt"} /\ job'.done = {} BY <1>5 DEF BeginOperation, NoJob
  <2>3. SessionAt' BY <2>2 DEF SessionAt
  <2> QED BY <1>1, <2>1, <2>3
<1>6. CASE RemoveShares
  <2>1. UNCHANGED <<file, plain, blob, listed, quarantines, forsaken, astray>>
    BY <1>6 DEF RemoveShares, diskVars
  <2>2. job'.at \in {"adopt", "unlink"} /\ job'.done = {}
    BY <1>0, <1>6 DEF RemoveShares, Jobs, SessionInv, SessionAt
  <2>3. SessionAt' BY <2>2 DEF SessionAt
  <2> QED BY <1>1, <2>1, <2>3
<1>7. CASE StartOperation
  <2>1. UNCHANGED <<file, plain, blob, listed, quarantines, forsaken, astray>>
    BY <1>7 DEF StartOperation, diskVars
  <2>2. /\ job'.at \in {"finish", "seal", "extract"} /\ job'.done = {}
        /\ job'.todo = Collected(job.kind)
        /\ job'.at = "seal" => job.kind = "enable"
        /\ job'.at = "extract" => job.kind # "enable"
    BY <1>0, <1>7 DEF StartOperation, Jobs, SessionInv, SessionAt
  <2>3. SessionAt' BY <2>1, <2>2 DEF SessionAt, Collected
  <2> QED BY <1>1, <2>1, <2>3
<1>8. CASE SetWrites \/ RemoveUnlinks
  <2>1. UNCHANGED <<plain, blob, listed, quarantines, forsaken, astray>>
    BY <1>8 DEF SetWrites, RemoveUnlinks
  <2>2. ~file.enc /\ ~file'.enc
    BY <1>8 DEF SetWrites, RemoveUnlinks, JobInv, FileAt
  <2>3. job'.at \in {"install", "forget"} BY <1>0, <1>8 DEF SetWrites, RemoveUnlinks, Jobs
  <2>4. SessionAt' BY <1>3, <2>3
  <2> QED
    BY <2>1, <2>2, <2>4 DEF SessionInv, CopiesWhole, TornHasCopy, SessionsSurvive, Kept
<1>9. ASSUME NEW s \in Sessions, SealSession(s) PROVE SessionInv'
  <2>1. /\ UNCHANGED <<file, plain, listed, quarantines, forsaken, astray>>
        /\ job.at = "seal" /\ s \in job.todo
        /\ blob' = [blob EXCEPT ![s] = [key |-> job.key, what |-> plain[s]]]
    BY <1>9 DEF SealSession
  <2>2. /\ ~file.enc /\ job.key # Wiped /\ job.key # NoKey
        /\ plain[s] \in {"whole", "torn"}
        /\ s \in listed
        /\ s \notin astray => plain[s] = "whole"
    BY <1>0, <1>w, <2>1
    DEF JobInv, JobAt, FileAt, KeyAt, TodoAt, Latched, PasswordSet, SessionInv, SessionAt,
        TornHasCopy, Folders
  <2>3. /\ blob'[s].key = job.key /\ blob'[s].what = plain[s]
        /\ \A t \in Sessions \ {s} : blob'[t] = blob[t]
    BY <1>0, <2>1
  <2>4. /\ job'.at = "seal" /\ job'.key = job.key /\ job'.todo = job.todo \ {s}
        /\ job'.done = job.done \cup {s}
    BY <1>0, <1>9 DEF SealSession, Jobs
  <2>5. CopiesWhole' BY <2>1, <2>2, <2>3 DEF SessionInv, CopiesWhole
  <2>6. TornHasCopy' BY <2>1, <2>2, <2>3 DEF SessionInv, TornHasCopy
  <2>7. SessionAt' BY <1>0, <2>1, <2>2, <2>3, <2>4 DEF SessionInv, SessionAt
  <2>8. SessionsSurvive' BY <2>1, <2>2 DEF SessionInv, SessionsSurvive, Kept
  <2> QED BY <2>5, <2>6, <2>7, <2>8 DEF SessionInv
<1>10. ASSUME NEW s \in Sessions, NEW written \in BOOLEAN, SealFails(s, written) PROVE SessionInv'
  <2>1. /\ UNCHANGED <<file, plain, listed, quarantines, forsaken, astray>>
        /\ job.at = "seal" /\ s \in job.todo /\ job'.at = "finish"
        /\ \A t \in Sessions :
              \/ blob'[t] = NoBlob \/ blob'[t] = blob[t]
              \/ t = s /\ blob'[t] = [key |-> job.key, what |-> plain[s]]
    BY <1>0, <1>10 DEF SealFails, Jobs
  <2>2. /\ ~file.enc /\ job.key # Wiped
        /\ s \in listed
        /\ s \notin astray => plain[s] = "whole"
    BY <1>0, <1>w, <2>1
    DEF JobInv, JobAt, FileAt, KeyAt, TodoAt, Latched, PasswordSet, SessionInv, SessionAt,
        TornHasCopy, Folders
  <2>3. CopiesWhole' BY <1>w, <1>b, <2>1, <2>2 DEF SessionInv, CopiesWhole
  <2>4. TornHasCopy' BY <2>1, <2>2 DEF SessionInv, TornHasCopy
  <2>5. SessionsSurvive' BY <2>1, <2>2 DEF SessionInv, SessionsSurvive, Kept
  <2> QED BY <1>3, <2>1, <2>3, <2>4, <2>5 DEF SessionInv
<1>11. CASE EnableEncrypts
  <2>1. /\ UNCHANGED <<plain, blob, listed, quarantines, forsaken, astray>>
        /\ job.at = "seal" /\ ~file.enc /\ file'.enc
        /\ job'.at = "clear" /\ job'.todo = job.done /\ job'.key = job.key
    BY <1>0, <1>11 DEF EnableEncrypts, Jobs, JobInv, FileAt
  <2>2. SessionAt' BY <2>1 DEF SessionInv, SessionAt
  <2> QED
    BY <2>1, <2>2 DEF SessionInv, CopiesWhole, TornHasCopy, SessionsSurvive, Kept
<1>12. ASSUME NEW s \in Sessions, NEW left \in Folders, ClearPlain(s, left) PROVE SessionInv'
  <2>1. /\ UNCHANGED <<file, blob, listed, quarantines, forsaken, astray>>
        /\ job.at = "clear" /\ s \in job.todo
        /\ plain'[s] = left /\ \A t \in Sessions \ {s} : plain'[t] = plain[t]
        /\ job'.at \in {"clear", "finish"} /\ job'.todo = job.todo \ {s} /\ job'.key = job.key
    BY <1>0, <1>12 DEF ClearPlain, Jobs
  <2>2. /\ file.enc /\ file.key # NoKey /\ blob[s].key = file.key
        /\ plain[s] = "whole" => blob[s].what = "whole"
    BY <2>1 DEF JobInv, JobAt, FileAt, KeyAt, Latched, PasswordSet, SessionInv, SessionAt
  <2>3. CopiesWhole' BY <2>1 DEF SessionInv, CopiesWhole
  <2>4. TornHasCopy' BY <1>0, <2>1, <2>2 DEF SessionInv, TornHasCopy, Opens
  <2>5. SessionAt' BY <1>0, <2>1 DEF SessionInv, SessionAt
  <2>6. ASSUME NEW t \in Sessions \ (forsaken \cup astray) PROVE Kept(t)'
    <3>1. Kept(t) BY DEF SessionInv, SessionsSurvive
    <3>2. CASE t # s BY <2>1, <3>1, <3>2 DEF Kept
    <3>3. CASE t = s /\ plain[s] = "whole" BY <2>1, <2>2, <3>3 DEF Kept, Whole, Opens
    <3>4. CASE t = s /\ plain[s] # "whole" BY <2>1, <3>1, <3>4 DEF Kept
    <3> QED BY <3>2, <3>3, <3>4
  <2> QED BY <2>1, <2>3, <2>4, <2>5, <2>6 DEF SessionInv, SessionsSurvive
<1>13. ASSUME NEW s \in Sessions, ExtractSession(s) PROVE SessionInv'
  <2>1. /\ UNCHANGED <<file, blob, listed, quarantines, forsaken, astray>>
        /\ job.at = "extract" /\ s \in job.todo
        /\ \A t \in Sessions \ {s} : plain'[t] = plain[t]
        /\ plain'[s] = IF Opens(blob[s], job.key) THEN blob[s].what ELSE plain[s]
        /\ job'.at = "extract" /\ job'.todo = job.todo \ {s} /\ job'.done = job.done \cup {s}
        /\ job'.failed = IF Opens(blob[s], job.key) THEN job.failed ELSE job.failed \cup {s}
    BY <1>0, <1>13 DEF ExtractSession, Jobs
  <2>2. s \notin astray => blob[s].what = "whole" BY DEF SessionInv, CopiesWhole
  <2>3. CopiesWhole' BY <2>1 DEF SessionInv, CopiesWhole
  <2>4. TornHasCopy' BY <1>0, <2>1, <2>2 DEF SessionInv, TornHasCopy
  <2>5. SessionAt'
    <3>1. \A t \in listed : blob[t] # NoBlob => t \in job'.todo \cup job'.done
      BY <2>1 DEF SessionInv, SessionAt
    <3>2. \A t \in job'.done \ (job'.failed \cup astray) : plain'[t] = "whole"
      BY <1>0, <2>1, <2>2 DEF SessionInv, SessionAt
    <3> QED BY <2>1, <3>1, <3>2 DEF SessionAt
  <2>6. SessionsSurvive' BY <1>0, <2>1, <2>2 DEF SessionInv, SessionsSurvive, Kept
  <2> QED BY <2>3, <2>4, <2>5, <2>6 DEF SessionInv
<1>14. ASSUME NEW s \in Sessions, NEW left \in Folders, ExtractFails(s, left) PROVE SessionInv'
  <2>1. /\ UNCHANGED <<file, blob, listed, quarantines, forsaken, astray>>
        /\ job.at = "extract" /\ s \in job.todo /\ Opens(blob[s], job.key)
        /\ plain'[s] = left /\ \A t \in Sessions \ {s} : plain'[t] = plain[t]
        /\ job'.at = "extract" /\ job'.todo = job.todo \ {s} /\ job'.done = job.done \cup {s}
        /\ job'.failed = job.failed \cup {s}
    BY <1>0, <1>14 DEF ExtractFails, Jobs
  <2>2. /\ file.enc /\ Opens(blob[s], file.key)
        /\ s \notin astray => blob[s].what = "whole"
    BY <2>1 DEF JobInv, FileAt, KeyAt, Latched, SessionInv, CopiesWhole, Opens
  <2>3. CopiesWhole' BY <2>1 DEF SessionInv, CopiesWhole
  <2>4. TornHasCopy' BY <1>0, <2>1, <2>2 DEF SessionInv, TornHasCopy, Opens
  <2>5. SessionAt'
    <3>1. \A t \in listed : blob[t] # NoBlob => t \in job'.todo \cup job'.done
      BY <2>1 DEF SessionInv, SessionAt
    <3>2. \A t \in job'.done \ (job'.failed \cup astray) : plain'[t] = "whole"
      BY <1>0, <2>1 DEF SessionInv, SessionAt
    <3> QED BY <2>1, <3>1, <3>2 DEF SessionAt
  <2>6. SessionsSurvive' BY <2>1, <2>2 DEF SessionInv, SessionsSurvive, Kept, Whole
  <2> QED BY <2>3, <2>4, <2>5, <2>6 DEF SessionInv
<1>15. ASSUME NEW moved \in SUBSET job.failed, QuarantineFailures(moved) PROVE SessionInv'
  <2>1. /\ UNCHANGED <<file, plain, forsaken>>
        /\ job.at = "extract" /\ job.todo = {}
        /\ astray' = astray \cup (job.failed \ moved)
        /\ listed' = listed \ job.failed /\ job'.at = "decrypt"
        /\ \A t \in Sessions : blob'[t] = IF t \in moved THEN NoBlob ELSE blob[t]
        /\ PutAside(moved, file.key)
    BY <1>0, <1>15 DEF QuarantineFailures, PutAside, Jobs
  <2>2. /\ \A i \in DOMAIN quarantines :
              i \in DOMAIN quarantines' /\ quarantines'[i] = quarantines[i]
        /\ \E i \in DOMAIN quarantines' :
              quarantines'[i].key = file.key /\ \A t \in Sessions \cap moved :
                   quarantines'[i].blobs[t] = blob[t]
        /\ \A i \in DOMAIN quarantines', t \in Sessions :
              \/ i \in DOMAIN quarantines /\ quarantines'[i] = quarantines[i]
              \/ quarantines'[i].blobs[t] \in {blob[t], NoBlob}
    <3>1. file.key \in Keys \cup {NoKey} BY <1>0
    <3> QED BY <2>1, <3>1, AsideType
  <2>3. CopiesWhole' BY <1>w, <1>b, <2>1, <2>2 DEF SessionInv, CopiesWhole
  <2>4. TornHasCopy' BY <1>0, <2>1 DEF SessionInv, TornHasCopy
  <2>5. SessionAt' BY <1>0, <2>1 DEF SessionInv, SessionAt
  <2>6. ASSUME NEW t \in Sessions \ (forsaken \cup astray') PROVE Kept(t)'
    <3>1. Kept(t) BY <2>1 DEF SessionInv, SessionsSurvive
    <3>2. CASE t \in moved /\ Whole(blob[t], file.key) BY <2>2, <3>2 DEF Kept
    <3>3. CASE t \notin moved /\ file.enc /\ Whole(blob[t], file.key) BY <2>1, <3>3 DEF Kept
    <3>4. CASE plain[t] = "whole" BY <2>1, <3>4 DEF Kept
    <3>5. CASE \E i \in DOMAIN quarantines : Whole(quarantines[i].blobs[t], quarantines[i].key)
      BY <2>2, <3>5 DEF Kept
    <3> QED BY <3>1, <3>2, <3>3, <3>4, <3>5 DEF Kept
  <2> QED BY <2>1, <2>3, <2>4, <2>5, <2>6 DEF SessionInv, SessionsSurvive
<1>16. CASE QuarantineUnwritten
  <2>1. /\ UNCHANGED <<file, plain, listed, forsaken>>
        /\ astray' = astray \cup job.failed /\ job'.at = "finish"
        /\ \A t \in Sessions : blob'[t] = IF t \in job.failed THEN NoBlob ELSE blob[t]
        /\ PutAside(job.failed, NoKey)
    BY <1>0, <1>16 DEF QuarantineUnwritten, PutAside, Jobs
  <2>2. /\ \A i \in DOMAIN quarantines :
              i \in DOMAIN quarantines' /\ quarantines'[i] = quarantines[i]
        /\ \A i \in DOMAIN quarantines', t \in Sessions :
              \/ i \in DOMAIN quarantines /\ quarantines'[i] = quarantines[i]
              \/ quarantines'[i].blobs[t] \in {blob[t], NoBlob}
    BY <2>1, AsideType
  <2>3. CopiesWhole' BY <1>w, <1>b, <2>1, <2>2 DEF SessionInv, CopiesWhole
  <2>4. TornHasCopy' BY <1>0, <2>1 DEF SessionInv, TornHasCopy
  <2>5. SessionsSurvive' BY <2>1, <2>2 DEF SessionInv, SessionsSurvive, Kept
  <2> QED BY <1>3, <2>1, <2>3, <2>4, <2>5 DEF SessionInv
<1>17. CASE DisableDecrypts
  <2>1. /\ UNCHANGED <<plain, blob, listed, quarantines, forsaken, astray>>
        /\ job.at = "decrypt" \/ (job.at = "extract" /\ job.todo = {} /\ job.failed = {})
        /\ ~file'.enc /\ file'.key = file.key /\ job'.at = "drop"
    BY <1>0, <1>17 DEF DisableDecrypts, AllExtracted, Jobs
  <2>2. \A t \in listed \ astray : blob[t] # NoBlob => plain[t] = "whole"
    BY <2>1 DEF SessionInv, SessionAt
  <2>3. \A t \in Sessions \ astray : Opens(blob[t], file.key) => plain[t] = "whole"
    BY <1>b, <2>2 DEF SessionInv, CopiesWhole, Opens
  <2>4. CopiesWhole' BY <2>1 DEF SessionInv, CopiesWhole
  <2>5. TornHasCopy' BY <1>0, <2>1, <2>3 DEF SessionInv, TornHasCopy
  <2>6. SessionsSurvive' BY <2>1, <2>3 DEF SessionInv, SessionsSurvive, Kept, Whole
  <2> QED BY <1>3, <2>1, <2>4, <2>5, <2>6 DEF SessionInv
<1>18. ASSUME NEW s \in Sessions, NEW gone \in BOOLEAN, DropBlob(s, gone) PROVE SessionInv'
  <2>1. /\ UNCHANGED <<file, plain, listed, quarantines, forsaken, astray>>
        /\ ~file.enc /\ job'.at \in {"drop", "finish"}
        /\ \A t \in Sessions : blob'[t] \in {NoBlob, blob[t]}
    BY <1>0, <1>18 DEF DropBlob, Jobs, JobInv, FileAt
  <2>2. CopiesWhole' BY <1>w, <1>b, <2>1 DEF SessionInv, CopiesWhole
  <2>3. TornHasCopy' BY <2>1 DEF SessionInv, TornHasCopy
  <2>4. SessionsSurvive' BY <2>1 DEF SessionInv, SessionsSurvive, Kept
  <2> QED BY <1>3, <2>1, <2>2, <2>3, <2>4 DEF SessionInv
<1>19. ASSUME NEW i \in DOMAIN quarantines, RetryQuarantineImport(i) PROVE SessionInv'
  <2>1. UNCHANGED <<file, plain, blob, listed, quarantines, forsaken, astray>>
    BY <1>19 DEF RetryQuarantineImport, diskVars
  <2>2. /\ job'.at = "import" /\ job'.id = i
        /\ job'.todo = {s \in Sessions : quarantines[i].blobs[s] # NoBlob}
    BY <1>19 DEF RetryQuarantineImport, NoJob
  <2>3. SessionAt' BY <2>1, <2>2 DEF SessionAt
  <2> QED BY <1>1, <2>1, <2>3
<1>20. ASSUME NEW s \in Sessions, ImportSession(s) PROVE SessionInv'
  <2> DEFINE b == quarantines[job.id].blobs[s]
  <2>1. CASE ~Opens(b, job.key)
    <3>1. UNCHANGED <<file, plain, blob, listed, quarantines, forsaken, astray>> /\ job' = NoJob
      BY <1>20, <2>1 DEF ImportSession
    <3> QED BY <1>1, <1>3, <1>i, <3>1
  <2>2. CASE Opens(b, job.key)
    <3>1. /\ UNCHANGED <<file, blob, quarantines, forsaken, astray>>
          /\ job.at = "import" /\ s \in job.todo
          /\ plain'[s] = b.what /\ \A t \in Sessions \ {s} : plain'[t] = plain[t]
          /\ listed' = listed \cup {s}
          /\ job'.at = "import" /\ job'.todo = job.todo \ {s} /\ job'.id = job.id
      BY <1>0, <1>20, <2>2 DEF ImportSession, Jobs
    <3>2. s \notin astray => plain'[s] = "whole"
      BY <3>1 DEF JobInv, ImportAt, SessionInv, CopiesWhole
    <3> HIDE DEF b
    <3>3. CopiesWhole' BY <3>1 DEF SessionInv, CopiesWhole
    <3>4. TornHasCopy' BY <1>0, <3>1, <3>2 DEF SessionInv, TornHasCopy
    <3>5. SessionAt' BY <3>1, <3>2 DEF SessionInv, SessionAt
    <3>6. SessionsSurvive' BY <3>1, <3>2 DEF SessionInv, SessionsSurvive, Kept
    <3> QED BY <3>3, <3>4, <3>5, <3>6 DEF SessionInv
  <2> QED BY <2>1, <2>2
<1>21. ASSUME NEW i \in DOMAIN quarantines, quarantines' = RemoveAt(quarantines, i),
              UNCHANGED <<file, plain, blob, listed, astray>>,
              forsaken \subseteq forsaken', job'.at = "idle",
              \A s \in Sessions \ (forsaken' \cup astray) :
                  quarantines[i].blobs[s] # NoBlob => plain[s] = "whole"
       PROVE  SessionInv'
  <2>1. /\ \A n \in DOMAIN quarantines \ {i} : \E m \in DOMAIN quarantines' :
              quarantines'[m] = quarantines[n]
        /\ \A m \in DOMAIN quarantines' : \E n \in DOMAIN quarantines :
              quarantines'[m] = quarantines[n]
    <3>1. quarantines \in Seq(Quarantine) BY DEF LockTypeOK, Quarantine
    <3> QED BY <1>21, <3>1, RemoveAtProperties
  <2>2. CopiesWhole' BY <1>21, <2>1 DEF SessionInv, CopiesWhole
  <2>3. TornHasCopy' BY <1>21 DEF SessionInv, TornHasCopy
  <2>4. ASSUME NEW s \in Sessions \ (forsaken' \cup astray) PROVE Kept(s)'
    <3>1. Kept(s) BY <1>21 DEF SessionInv, SessionsSurvive
    <3>2. CASE plain[s] = "whole" \/ (file.enc /\ Whole(blob[s], file.key))
      BY <1>21, <3>2 DEF Kept
    <3>3. ASSUME NEW n \in DOMAIN quarantines, Whole(quarantines[n].blobs[s], quarantines[n].key)
          PROVE  Kept(s)'
      <4>1. CASE n = i BY <1>21, <1>b, <3>3, <4>1 DEF Kept, Whole, Opens
      <4>2. CASE n # i BY <2>1, <3>3, <4>2 DEF Kept
      <4> QED BY <4>1, <4>2
    <3> QED BY <3>1, <3>2, <3>3 DEF Kept
  <2> QED BY <1>3, <1>21, <2>2, <2>3, <2>4 DEF SessionInv, SessionsSurvive
<1>22. CASE ImportEnds
  <2>1. /\ job.id \in DOMAIN quarantines /\ quarantines' = RemoveAt(quarantines, job.id)
        /\ UNCHANGED <<file, plain, blob, listed, forsaken, astray>> /\ job'.at = "idle"
    BY <1>22 DEF ImportEnds, JobInv, ImportAt, NoJob
  <2>2. \A s \in Sessions \ (forsaken' \cup astray) :
            quarantines[job.id].blobs[s] # NoBlob => plain[s] = "whole"
    BY <1>22 DEF ImportEnds, SessionInv, SessionAt
  <2> QED BY <1>21, <2>1, <2>2
<1>23. ASSUME NEW i \in DOMAIN quarantines, DeleteQuarantine(i) PROVE SessionInv'
  <2>1. /\ quarantines' = RemoveAt(quarantines, i)
        /\ UNCHANGED <<file, plain, blob, listed, astray>> /\ job'.at = "idle"
        /\ forsaken' = forsaken \cup {s \in Sessions : quarantines[i].blobs[s] # NoBlob}
    BY <1>23 DEF DeleteQuarantine, NoJob
  <2> QED BY <1>21, <2>1
<1>24. ASSUME NEW torn \in SUBSET Sessions, Restart(torn) PROVE SessionInv'
  <2>1. /\ UNCHANGED <<file, blob, listed, quarantines, forsaken>> /\ job'.at = "idle"
        /\ \A t \in Sessions : plain'[t] = IF t \in torn THEN "torn" ELSE plain[t]
        /\ astray' = IF job.at = "import" THEN astray \cup (torn \cap listed) ELSE astray
        /\ torn = {} \/ (job.at \in {"extract", "clear", "import"} /\ torn \subseteq job.todo)
        /\ job.at = "extract" => \A t \in torn : Opens(blob[t], job.key)
        /\ job.at = "import" => \A t \in torn : Opens(quarantines[job.id].blobs[t], job.key)
    BY <1>24, <1>i DEF Restart
  <2>2. ASSUME NEW t \in torn, job.at # "import"
        PROVE  /\ file.enc /\ Opens(blob[t], file.key)
               /\ t \notin astray /\ plain[t] = "whole" => blob[t].what = "whole"
    <3>1. CASE job.at = "extract"
      BY <2>1, <2>2, <3>1 DEF JobInv, FileAt, KeyAt, Latched, SessionInv, CopiesWhole, Opens
    <3>2. CASE job.at = "clear"
      BY <2>1, <2>2, <3>2
      DEF JobInv, JobAt, FileAt, KeyAt, Latched, PasswordSet, SessionInv, SessionAt, Opens
    <3> QED BY <2>1, <2>2, <3>1, <3>2
  <2>3. ASSUME NEW t \in torn \ astray', job.at = "import"
        PROVE  /\ t \notin listed
               /\ \E i \in DOMAIN quarantines : Whole(quarantines[i].blobs[t], quarantines[i].key)
    BY <2>1, <2>3 DEF JobInv, ImportAt, SessionInv, CopiesWhole, Whole
  <2>4. CopiesWhole' BY <2>1 DEF SessionInv, CopiesWhole
  <2>5. TornHasCopy' BY <1>0, <2>1, <2>2, <2>3 DEF SessionInv, TornHasCopy
  <2>6. ASSUME NEW t \in Sessions \ (forsaken \cup astray') PROVE Kept(t)'
    <3>1. Kept(t) BY <2>1 DEF SessionInv, SessionsSurvive
    <3>2. CASE t \notin torn BY <2>1, <3>1, <3>2 DEF Kept
    <3>3. CASE t \in torn /\ job.at = "import" BY <2>1, <2>3, <3>3 DEF Kept
    <3>4. CASE t \in torn /\ job.at # "import"
      <4>1. CASE plain[t] = "whole" BY <2>1, <2>2, <3>4, <4>1 DEF Kept, Whole
      <4>2. CASE plain[t] # "whole" BY <2>1, <3>1, <4>2 DEF Kept
      <4> QED BY <4>1, <4>2
    <3> QED BY <3>2, <3>3, <3>4
  <2> QED BY <1>3, <2>1, <2>4, <2>5, <2>6 DEF SessionInv, SessionsSurvive
<1>25. CASE Gates
  <2>1. UNCHANGED <<file, plain, blob, listed, quarantines, forsaken, astray>>
    BY <1>25 DEF Gates, BeginLock, BeginUnlock, LockRefused, LockDecides, UnlockInstalls, GateHook,
       diskVars
  <2>2. job' = job \/ (job' = [job EXCEPT !.key = Wiped] /\ shared)
    BY <1>25 DEF Gates, BeginLock, BeginUnlock, LockRefused, LockDecides, ZeroKey, UnlockInstalls,
       GateHook
  <2>3. /\ UNCHANGED <<job>> \/ job.at \in {"adopt", "unlink", "forget"}
        /\ job'.at = job.at /\ job'.done = job.done
    BY <1>0, <2>2 DEF JobInv, KeyAt, Jobs
  <2>4. SessionAt' BY <2>1, <2>3 DEF SessionInv, SessionAt
  <2> QED BY <1>1, <2>1, <2>4
<1>26. CASE Calls \/ UNCHANGED lockVars
  BY <1>2, <1>26 DEF Calls, BeginCall, TakeSubKey, LoadOpens, SaveWrites, lockVars, diskVars
<1> QED
  BY <1>4, <1>5, <1>6, <1>7, <1>8, <1>9, <1>10, <1>11, <1>12, <1>13, <1>14, <1>15, <1>16, <1>17,
     <1>18, <1>19, <1>20, <1>22, <1>23, <1>24, <1>25, <1>26
  DEF LockNext, Operations, LockFaults, Folders


\* At the start every session is whole in its folder.
LEMMA InitKeyAndSession == LockInit => KeyInv /\ SessionInv
<1> SUFFICES ASSUME LockInit PROVE KeyInv /\ SessionInv OBVIOUS
<1>1. /\ file.key = NoKey /\ ~file.enc /\ held = NoKey /\ sealed = NoKey /\ ~vaultLocked
      /\ plain = [s \in Sessions |-> "whole"] /\ blob = [s \in Sessions |-> NoBlob]
      /\ listed = Sessions /\ quarantines = <<>>
      /\ job = NoJob /\ gate = NoGate /\ call = NoCall
  BY DEF LockInit
<1>2. Wiped # NoKey BY MaxKeysAssumption DEF Wiped, NoKey
<1>3. KeyInv
  BY <1>1, <1>2
  DEF KeyInv, NoZeros, NothingSealedUnderZeros, GateAt, SwitchingKeepsItsKey, Dropped,
      VaultLocked, PasswordSet, NoJob, NoGate, NoCall, NoBlob
<1>4. SessionInv
  BY <1>1, <1>2
  DEF SessionInv, CopiesWhole, TornHasCopy, SessionAt, SessionsSurvive, Kept, NoJob, NoBlob
<1> QED BY <1>3, <1>4

LockInv == LockTypeOK /\ JobInv /\ KeyInv /\ SessionInv

\* The invariant holds from the start and every step keeps it.
LEMMA LockInvariant == LockSpec => []LockInv
<1>1. LockInit => LockInv BY InitLock, InitKeyAndSession DEF LockInv
<1>2. LockInv /\ [LockNext]_lockVars => LockInv'
  <2> SUFFICES ASSUME LockInv, [LockNext]_lockVars PROVE LockInv' OBVIOUS
  <2>1. LockTypeOK' BY StepType DEF LockInv
  <2>2. JobInv' BY StepJob DEF LockInv, KeyInv
  <2>3. KeyInv' BY StepKey DEF LockInv
  <2>4. SessionInv' BY StepSession DEF LockInv
  <2> QED BY <2>1, <2>2, <2>3, <2>4 DEF LockInv
<1> QED BY <1>1, <1>2, PTL DEF LockSpec

-----------------------------------------------------------------------------
(* The theorems.                                                           *)

\* What the security file, the login cache, the manager and the three callers
\* hold always has its type: the tables of sessions stay total and a job's
\* key is one some password wrapped or an array of zeros.
THEOREM LockTypeCorrect == LockSpec => []LockTypeOK
BY LockInvariant, PTL DEF LockInv

\* A saved session stays whole somewhere the app can get it from, for any
\* number of sessions, whichever step of sealing, clearing, extracting or
\* putting aside fails and wherever the process dies.
THEOREM SessionsAlwaysSurvive == LockSpec => []SessionsSurvive
BY LockInvariant, PTL DEF LockInv, SessionInv

\* However many locks and operations meet, nothing is sealed under zeros
\* unless a lock of the whole app fell on the array a removal shares.
THEOREM NothingSealedUnderNoKey == LockSpec => []SealedUnderAKey
<1>1. LockInv => SealedUnderAKey BY DEF LockInv, KeyInv, NoZeros, SealedUnderAKey
<1> QED BY <1>1, LockInvariant, PTL

\* A vault lock leaves the key that switching to an encrypted account needs,
\* unless the file changed between what lockVault read and its mutex.
THEOREM SwitchingAlwaysKeepsItsKey == LockSpec => []SwitchingKeepsItsKey
BY LockInvariant, PTL DEF LockInv, KeyInv

\* Once a lock has finished no decrypted document is in memory, unless a
\* vault call was under way when it fell.
THEOREM LocksForget == LockSpec => []LockForgets
<1>1. LockInv => LockForgets
  BY DEF LockInv, KeyInv, Dropped, LockForgets, NoGate, NoJob
<1> QED BY <1>1, LockInvariant, PTL

\* From the invariant: an operation under its latch always holds the key it
\* works with, and no lock can take it from the manager meanwhile, for
\* adoptKeyForOperation takes key and latch in one section.
THEOREM LatchHoldsKey ==
    LockSpec => [](job.at \in Latched => busy /\ held # NoKey)
<1>1. LockInv => (job.at \in Latched => busy /\ held # NoKey) BY DEF LockInv, JobInv, KeyAt
<1> QED BY <1>1, LockInvariant, PTL
=============================================================================
