---------------------------- MODULE SnapshotStore ----------------------------
(***************************************************************************)
(* The Session Kit's snapshot store (internal/sessionkit/store.go) and the *)
(* record that names what is in it: the journal, the pointer to it         *)
(* (journal.go) and the last-known-good pointers.  Every Enter adds a copy *)
(* of Home's settings and one of the shared account's and then prunes both *)
(* accounts to a cap; what a transaction or a last-known-good pointer      *)
(* names must outlive that, also where a removal fails or is cut short and *)
(* where the process dies between two steps.                               *)
(*                                                                         *)
(* A snapshot is a number: snapshots are numbered in the order they were   *)
(* taken, which is their order by CreatedAt.  What a snapshot holds is for *)
(* SessionKit; here it is whole or not.                                    *)
(***************************************************************************)
EXTENDS Naturals, FiniteSets

CONSTANTS
    Accounts,    \* the accounts that are, or have been, Home or shared
    Cap,         \* maxSnapshotsPerAccount
    MaxSnapshots \* bound: snapshots ever taken

ASSUME CapAssumption == Cap \in Nat
ASSUME MaxSnapshotsAssumption == MaxSnapshots \in Nat

VARIABLES
    \* the disk
    dir,      \* dir[a][s]: the directory of snapshot s under account a
    lkg,      \* the last-known-good pointer of each account; 0: none
    pointer,  \* active.json
    record,   \* the journal of the transaction begun last
    taken,    \* how many snapshots have been taken
    \* the call that holds Engine.mu
    pc,       \* its next step
    visit,    \* the accounts and snapshots it has in hand
    \* history
    missed    \* a removal of this Enter's pruning did not go through

storeVars == <<dir, lkg, pointer, record, taken, pc, visit, missed>>

Snapshots == 1 .. MaxSnapshots
None      == 0

\* "torn": a removal took part of the payload but snapshot.json and
\* manifest.json still read; "unreadable": it took one of those too.
DirStates == {"none", "whole", "torn", "unreadable"}

\* "gone": the pointer names a transaction whose journal is missing, or is
\* a finished one of an earlier transaction.  Both read as none in flight.
PointerStates == {"none", "names", "gone", "spoilt"}

\* "open" stands for the phases that need recovery.
RecordStates == {"none", "open", "resting", "complete", "spoilt"}

Visit == [to : Accounts, home : Accounts, kit : Snapshots \cup {None},
          their : Snapshots \cup {None}]

Steps == {"idle", "kitSource", "write", "setActive", "theirSetup",
          "recordTheirs", "setLKG", "pruneTarget", "pruneHome", "apply",
          "restore", "clearActive", "dropTx"}

StoreTypeOK ==
    /\ dir \in [Accounts -> [Snapshots -> DirStates]]
    /\ lkg \in [Accounts -> Snapshots \cup {None}]
    /\ pointer \in PointerStates
    /\ record \in [state : RecordStates, of : Visit]
    /\ taken \in 0 .. MaxSnapshots
    /\ pc \in Steps
    /\ visit \in Visit
    /\ missed \in BOOLEAN

-----------------------------------------------------------------------------
(* What the record names and what reading it gives.                        *)

Whole(a, s)  == s # None => dir[a][s] = "whole"
Live         == pointer = "names" /\ record.state \in {"open", "resting", "complete"}
Unparsable   == pointer = "spoilt" \/ (pointer = "names" /\ record.state = "spoilt")
NeedsAnswer  == Unparsable \/ (Live /\ record.state = "open")
Named(v)     == {v.kit, v.their}

-----------------------------------------------------------------------------
(* Snapshots.                                                              *)

\* The snapshot appears under its final name with one rename.
Committed(a, s) == [dir EXCEPT ![a][s] = "whole"]

\* MUTANT: what an earlier visit saved is not protected.
ProtectedByVisit(a) == Named(visit) \ {None}

\* protectedSnapshots: by identity only, whichever account they belong to.
ProtectedSnapshots(a) == ({lkg[a]} \cup Named(visit)) \ {None}

Candidates(a) ==
    {s \in Snapshots \ ProtectedSnapshots(a) : dir[a][s] \in {"whole", "torn"}}

Keep(a) == LET n == Cardinality(ProtectedSnapshots(a))
           IN  IF n > Cap THEN 0 ELSE Cap - n

\* What prune removes: all but the newest Keep(a) candidates.
Doomed(a) ==
    {s \in Candidates(a) :
        Cardinality({n \in Candidates(a) : n > s}) >= Keep(a)}

\* RemoveAll, best effort: a directory in `gone` is removed, one in `torn`
\* or `unread` only in part, any other is as it was.
Removed(a, gone, torn, unread) ==
    [dir EXCEPT ![a] = [s \in Snapshots |->
        IF s \in gone THEN "none"
        ELSE IF s \in torn THEN "torn"
        ELSE IF s \in unread THEN "unreadable" ELSE @[s]]]

-----------------------------------------------------------------------------
StoreInit ==
    /\ dir = [a \in Accounts |-> [s \in Snapshots |-> "none"]]
    /\ lkg = [a \in Accounts |-> None]
    /\ pointer = "none"
    /\ taken = 0
    /\ pc = "idle"
    /\ visit \in [to : Accounts, home : Accounts, kit : {None}, their : {None}]
    /\ record = [state |-> "none", of |-> visit]
    /\ missed = FALSE

(* Enter, up to where the target may be written.                           *)

StartEnter(home, to) ==
    /\ pc = "idle" /\ home # to
    /\ ~NeedsAnswer
    /\ ~(Live /\ record.state = "resting")       \* that one is left, or signed in to
    /\ taken + 2 <= MaxSnapshots
    /\ visit' = [to |-> to, home |-> home, kit |-> None, their |-> None]
    /\ pc' = "kitSource"
    /\ UNCHANGED <<dir, lkg, pointer, record, taken, missed>>

SnapshotKitSource ==
    /\ pc = "kitSource"
    /\ taken < MaxSnapshots
    /\ taken' = taken + 1
    /\ dir' = Committed(visit.home, taken')
    /\ visit' = [visit EXCEPT !.kit = taken']
    /\ pc' = "write"
    /\ UNCHANGED <<lkg, pointer, record, missed>>

\* The first write of the journal, under a new transaction id.
WriteJournal ==
    /\ pc = "write"
    /\ record' = [state |-> "open", of |-> visit]
    /\ pointer' = IF pointer = "names" THEN "gone" ELSE pointer
    /\ pc' = "setActive"
    /\ UNCHANGED <<dir, lkg, taken, visit, missed>>

SetActive ==
    /\ pc = "setActive"
    /\ pointer' = "names"
    /\ pc' = "theirSetup"
    /\ UNCHANGED <<dir, lkg, record, taken, visit, missed>>

SnapshotTheirSetup ==
    /\ pc = "theirSetup"
    /\ taken < MaxSnapshots
    /\ taken' = taken + 1
    /\ dir' = Committed(visit.to, taken')
    /\ visit' = [visit EXCEPT !.their = taken']
    /\ pc' = "recordTheirs"
    /\ UNCHANGED <<lkg, pointer, record, missed>>

RecordTheirSetup ==
    /\ pc = "recordTheirs"
    /\ record' = [record EXCEPT !.of = visit]
    /\ pc' = "setLKG"
    /\ UNCHANGED <<dir, lkg, pointer, taken, visit, missed>>

SavedSetup(v) == v.their

SetLastKnownGood ==
    /\ pc = "setLKG"
    /\ lkg' = [lkg EXCEPT ![visit.to] = SavedSetup(visit)]
    /\ missed' = FALSE
    /\ pc' = "pruneTarget"
    /\ UNCHANGED <<dir, pointer, record, taken, visit>>

PruneAt(step, a, next) ==
    /\ pc = step
    /\ dir' = Removed(a, Doomed(a), {}, {})
    /\ pc' = next
    /\ UNCHANGED <<lkg, pointer, record, taken, visit, missed>>

PruneTarget == PruneAt("pruneTarget", visit.to, "pruneHome")
PruneHome   == PruneAt("pruneHome", visit.home, "apply")

\* The rest of Enter, for SessionKit: here only its last journal write.
KitApplied ==
    /\ pc = "apply"
    /\ record' = [record EXCEPT !.state = "resting"]
    /\ pc' = "idle"
    /\ UNCHANGED <<dir, lkg, pointer, taken, visit, missed>>

-----------------------------------------------------------------------------
(* The ends of a transaction.                                              *)

\* Leave, or RestoreTheirs: their setup is read from the snapshot.
StartRestore ==
    /\ pc = "idle" /\ Live /\ record.state \in {"open", "resting"}
    /\ record.of.their # None => dir[record.of.to][record.of.their] \in {"whole", "torn"}
    /\ visit' = record.of
    /\ record' = [record EXCEPT !.state = "open"]
    /\ pc' = "restore"
    /\ UNCHANGED <<dir, lkg, pointer, taken, missed>>

RestoreDone ==
    /\ pc = "restore"
    /\ record' = [record EXCEPT !.state = "complete"]
    /\ pc' = "clearActive"
    /\ UNCHANGED <<dir, lkg, pointer, taken, visit, missed>>

\* Leave or KeepCurrent that keeps what is there: kept-active.
KeepTracked ==
    /\ pc = "idle" /\ Live /\ record.state = "open"
    /\ record' = [record EXCEPT !.state = "resting"]
    /\ UNCHANGED <<dir, lkg, pointer, taken, pc, visit, missed>>

\* Abandon, AcceptCurrent, or KeepCurrent where nothing had landed.
GiveUpRecord ==
    /\ pc = "idle" /\ Live /\ record.state = "open"
    /\ visit' = record.of
    /\ pc' = "clearActive"
    /\ UNCHANGED <<dir, lkg, pointer, record, taken, missed>>

\* finish, which does not look at whether these go through.
ClearActivePointer ==
    /\ pc = "clearActive"
    /\ pointer' = "none"
    /\ pc' = "dropTx"
    /\ UNCHANGED <<dir, lkg, record, taken, visit, missed>>

DropTxDir ==
    /\ pc = "dropTx"
    /\ record' = [record EXCEPT !.state = "none"]
    /\ pointer' = IF pointer = "names" THEN "gone" ELSE pointer
    /\ pc' = "idle"
    /\ UNCHANGED <<dir, lkg, taken, visit, missed>>

\* MUTANT: only a journal the pointer still names can be abandoned.
AbandonNamed ==
    /\ pc = "idle" /\ Unparsable /\ pointer = "names"
    /\ pointer' = "none"
    /\ UNCHANGED <<dir, lkg, record, taken, pc, visit, missed>>

\* Resolve on a record that does not parse takes one answer, Abandon, and
\* it only removes the pointer.
AbandonUnparsable ==
    /\ pc = "idle" /\ Unparsable
    /\ pointer' = "none"
    /\ UNCHANGED <<dir, lkg, record, taken, pc, visit, missed>>

-----------------------------------------------------------------------------
(* What goes wrong.                                                        *)

\* An error return or the end of the process between two steps.  A snapshot
\* that was not renamed yet is a temporary directory nobody reads.
Die ==
    /\ pc # "idle"
    /\ pc' = "idle"
    /\ UNCHANGED <<dir, lkg, pointer, record, taken, visit, missed>>

FinishMisses ==
    /\ pc \in {"clearActive", "dropTx"}
    /\ pc' = IF pc = "clearActive" THEN "dropTx" ELSE "idle"
    /\ UNCHANGED <<dir, lkg, pointer, record, taken, visit, missed>>

\* The directory sync after the rename failed: Enter is told there is no
\* snapshot, and there is.
CommittedUnseen ==
    /\ pc \in {"kitSource", "theirSetup"} /\ taken < MaxSnapshots
    /\ taken' = taken + 1
    /\ dir' = Committed(IF pc = "kitSource" THEN visit.home ELSE visit.to, taken')
    /\ pc' = "idle"
    /\ UNCHANGED <<lkg, pointer, record, visit, missed>>

\* Some removals fail or stop in the middle; prune looks at none of them.
PruneMisses(next) ==
    \E a \in {visit.to, visit.home} :
        /\ pc = IF a = visit.to THEN "pruneTarget" ELSE "pruneHome"
        /\ \E gone, torn, unread \in SUBSET Doomed(a) :
              /\ gone \cap torn = {} /\ gone \cap unread = {} /\ torn \cap unread = {}
              /\ dir' = Removed(a, gone, torn, unread)
        /\ missed' = TRUE
        /\ pc' = next
        /\ UNCHANGED <<lkg, pointer, record, taken, visit>>

PruneFails ==
    \/ PruneMisses("idle")                        \* and the process ends there
    \/ PruneMisses(IF pc = "pruneTarget" THEN "pruneHome" ELSE "apply")

\* Something outside the program spoils the journal or the pointer.
Spoil ==
    /\ pc = "idle" /\ Live
    /\ \/ pointer' = "spoilt" /\ UNCHANGED record
       \/ record' = [record EXCEPT !.state = "spoilt"] /\ UNCHANGED pointer
    /\ UNCHANGED <<dir, lkg, taken, pc, visit, missed>>

-----------------------------------------------------------------------------
EnterStep ==
    \/ SnapshotKitSource \/ WriteJournal \/ SetActive \/ SnapshotTheirSetup
    \/ RecordTheirSetup \/ SetLastKnownGood \/ PruneTarget \/ PruneHome
    \/ KitApplied

EndStep == RestoreDone \/ ClearActivePointer \/ DropTxDir

Answers == StartRestore \/ KeepTracked \/ GiveUpRecord \/ AbandonUnparsable

StoreFault == Die \/ FinishMisses \/ CommittedUnseen \/ PruneFails \/ Spoil

StoreNext ==
    \/ \E home, to \in Accounts : StartEnter(home, to)
    \/ EnterStep \/ EndStep \/ Answers \/ StoreFault

StoreSpec == StoreInit /\ [][StoreNext]_storeVars

\* A call that holds the lock goes on; the dialog is answered, and it offers
\* no answer but Abandon for a record that does not parse.
StoreFairness ==
    /\ WF_storeVars(EnterStep)
    /\ WF_storeVars(EndStep)
    /\ WF_storeVars(AbandonUnparsable)
    /\ WF_storeVars(StartRestore)

-----------------------------------------------------------------------------
(* Properties.                                                             *)

\* What a restore would read is there and whole: the setup and the kit a
\* transaction names, from the journal write that names them until the
\* transaction ends, and each account's last-known-good setup, through
\* every pruning (store.go prune, protectedSnapshots; engine.go:449-466).
NamedIsWhole ==
    /\ Live /\ record.state # "complete" =>
          Whole(record.of.to, record.of.their) /\ Whole(record.of.home, record.of.kit)
    /\ \A a \in Accounts : Whole(a, lkg[a])

\* The setup saved last is never lost: once last-known-good names a setup,
\* it names that one, whole, until a later one is saved.  Abandoning a
\* record that does not parse, or a crash, does not change that
\* (store.go:228-253, recovery.go:146-152).
LastKnownGoodAdvances ==
    [][\A a \in Accounts : lkg'[a] # lkg[a] => lkg'[a] > lkg[a] /\ dir'[a][lkg'[a]] = "whole"]_storeVars

\* Pruning bounds the store: when Enter has pruned both accounts, and every
\* removal went through, neither holds more than the cap, whatever earlier
\* failures and crashes had left (store.go:277-331).
StoreBounded ==
    pc = "apply" /\ ~missed =>
        \A a \in {visit.to, visit.home} :
            Cardinality({s \in Snapshots : dir[a][s] \in {"whole", "torn"}}) <= Cap

\* A record that blocks switching can always be answered: also one that does
\* not parse (journal.go:388-440, recovery.go:68-78, recovery.go:146-152).
RecordIsAnswered == NeedsAnswer /\ pc = "idle" ~> ~NeedsAnswer
=============================================================================
