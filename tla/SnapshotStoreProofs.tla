------------------------- MODULE SnapshotStoreProofs -------------------------
(***************************************************************************)
(* What a transaction or a last-known-good pointer names is whole, for     *)
(* every cap (also one too small for what is protected), every set of      *)
(* accounts and any number of snapshots, failures and crashes.             *)
(***************************************************************************)
EXTENDS SnapshotStore, TLAPS

\* The steps of Enter at which the journal on disk is the call's own.
Recorded == {"setActive", "theirSetup", "recordTheirs", "setLKG",
             "pruneTarget", "pruneHome", "apply"}

\* The call's snapshots are whole from their commit on; the journal on disk
\* names what the call has in hand, but for the step that has just saved
\* their setup and not written that yet; ids grow.
Inv ==
    /\ StoreTypeOK
    /\ NamedIsWhole
    /\ pc \in Recorded \cup {"write"} =>
          Whole(visit.home, visit.kit) /\ Whole(visit.to, visit.their)
    /\ pc \in Recorded => record.state = "open"
    /\ pc \in Recorded \ {"recordTheirs"} => record.of = visit
    /\ pc = "restore" => record.state = "open"
    /\ pc \in {"kitSource", "write", "setActive", "theirSetup"} => visit.their = None
    /\ \A a \in Accounts : lkg[a] <= taken
    /\ pc \in {"recordTheirs", "setLKG"} =>
          visit.their = taken /\ \A a \in Accounts : lkg[a] < taken

Harmless(a, D) == D \cap ({lkg[a], visit.kit, visit.their} \ {None}) = {}

\* Pruning removes nothing that is protected: not the account's last known
\* good, nor a snapshot the transaction names.
LEMMA DoomedIsHarmless ==
  ASSUME NEW a \in Accounts
  PROVE  Harmless(a, Doomed(a)) /\ Doomed(a) \subseteq Snapshots
BY DEF Doomed, Candidates, ProtectedSnapshots, Named, Harmless

\* A removal that touches nothing protected, whether it goes through or not,
\* keeps what is named whole.
LEMMA RemovalKeepsNamed ==
  ASSUME Inv, pc \in {"pruneTarget", "pruneHome"},
         NEW a \in Accounts,
         NEW gone, NEW torn, NEW unread,
         gone \subseteq Doomed(a), torn \subseteq Doomed(a), unread \subseteq Doomed(a),
         dir' = Removed(a, gone, torn, unread),
         UNCHANGED <<lkg, pointer, record, taken, visit>>
  PROVE  /\ dir' \in [Accounts -> [Snapshots -> DirStates]]
         /\ NamedIsWhole'
         /\ Whole(visit.home, visit.kit)' /\ Whole(visit.to, visit.their)'
<1> USE DEF Inv, StoreTypeOK
<1>1. \A b \in Accounts : \A s \in Snapshots :
        dir'[b][s] = IF b # a THEN dir[b][s]
                     ELSE IF s \in gone THEN "none"
                     ELSE IF s \in torn THEN "torn"
                     ELSE IF s \in unread THEN "unreadable" ELSE dir[b][s]
  BY DEF Removed
<1>2. dir' \in [Accounts -> [Snapshots -> DirStates]]
  BY DEF Removed, DirStates
<1>3. /\ \A s \in Snapshots : s = lkg[a] \/ s = visit.kit \/ s = visit.their
              => s \notin gone \cup torn \cup unread
      /\ \A b \in Accounts, s \in Snapshots :
              b # a \/ s = lkg[b] \/ s = visit.kit \/ s = visit.their
              => dir'[b][s] = dir[b][s]
  <2>1. Harmless(a, Doomed(a)) BY DoomedIsHarmless
  <2>2. \A s \in Snapshots : s # None BY DEF Snapshots, None
  <2> QED BY <1>1, <2>1, <2>2 DEF Harmless
<1>4. visit \in Visit /\ visit.kit \in Snapshots \cup {None}
      /\ visit.their \in Snapshots \cup {None} /\ visit.home \in Accounts
      /\ visit.to \in Accounts
  BY DEF Visit
<1>5. Whole(visit.home, visit.kit)' /\ Whole(visit.to, visit.their)'
  BY <1>3, <1>4 DEF Whole, Recorded
<1>6. \A b \in Accounts : Whole(b, lkg[b])'
  BY <1>3 DEF Whole, NamedIsWhole
<1>7. record.of = visit BY DEF Recorded
<1> QED BY <1>2, <1>5, <1>6, <1>7 DEF NamedIsWhole, Live, Whole

\* A commit adds a whole snapshot and touches no other.
LEMMA CommitKeepsNamed ==
  ASSUME Inv, NEW a \in Accounts, taken < MaxSnapshots,
         taken' = taken + 1, dir' = Committed(a, taken'),
         UNCHANGED <<lkg, pointer, record>>
  PROVE  /\ dir' \in [Accounts -> [Snapshots -> DirStates]]
         /\ taken' \in 0 .. MaxSnapshots /\ taken' \in Snapshots
         /\ dir'[a][taken'] = "whole"
         /\ \A b \in Accounts, s \in Snapshots :
               dir[b][s] = "whole" => dir'[b][s] = "whole"
         /\ NamedIsWhole'
         /\ \A b \in Accounts : lkg'[b] < taken'
<1> USE DEF Inv, StoreTypeOK
<1>1. taken' \in 0 .. MaxSnapshots /\ taken' \in Snapshots
  BY MaxSnapshotsAssumption DEF Snapshots
<1>2. /\ dir' \in [Accounts -> [Snapshots -> DirStates]]
      /\ dir'[a][taken'] = "whole"
      /\ \A b \in Accounts, s \in Snapshots :
            dir[b][s] = "whole" => dir'[b][s] = "whole"
  BY <1>1 DEF Committed, DirStates
<1>3. \A b \in Accounts : lkg'[b] < taken'
  BY MaxSnapshotsAssumption DEF Snapshots, None
<1>4. (Live' <=> Live) /\ record' = record /\ lkg' = lkg BY DEF Live
<1>5. record.of \in Visit OBVIOUS
<1>6. NamedIsWhole'
  BY <1>2, <1>4, <1>5 DEF NamedIsWhole, Whole, Visit
<1> QED BY <1>1, <1>2, <1>3, <1>6

\* An empty store names nothing.
LEMMA InitInv == StoreInit => Inv
<1> SUFFICES ASSUME StoreInit PROVE Inv
  OBVIOUS
<1>1. visit \in Visit /\ visit.kit = None /\ visit.their = None
  BY DEF StoreInit, Visit
<1>2. StoreTypeOK
  <2>1. record \in [state : RecordStates, of : Visit]
    BY <1>1 DEF StoreInit, RecordStates
  <2>2. dir \in [Accounts -> [Snapshots -> DirStates]]
    BY DEF StoreInit, DirStates
  <2> QED
    <3>1. 0 \in 0 .. MaxSnapshots BY MaxSnapshotsAssumption
    <3>2. lkg \in [Accounts -> Snapshots \cup {None}] BY DEF StoreInit
    <3> QED
      BY <1>1, <2>1, <2>2, <3>1, <3>2
         DEF StoreInit, StoreTypeOK, PointerStates, Steps
<1>3. \A a \in Accounts : lkg[a] = None BY DEF StoreInit
<1>4. NamedIsWhole BY <1>3 DEF StoreInit, NamedIsWhole, Live, Whole
<1> QED
  BY <1>1, <1>2, <1>3, <1>4 DEF StoreInit, Inv, Recorded, None

\* Every step keeps the invariant.
LEMMA StepInv == Inv /\ [StoreNext]_storeVars => Inv'
<1> SUFFICES ASSUME Inv, [StoreNext]_storeVars PROVE Inv'
  OBVIOUS
<1> USE DEF PointerStates, RecordStates, Steps, Recorded
<1>0. CASE UNCHANGED storeVars
  BY <1>0 DEF storeVars, Inv, StoreTypeOK, NamedIsWhole, Whole, Live
<1>1. ASSUME NEW home \in Accounts, NEW to \in Accounts, StartEnter(home, to)
      PROVE  Inv'
  BY <1>1 DEF StartEnter, Inv, StoreTypeOK, NamedIsWhole, Whole, Live, Visit, None
<1>2. CASE SnapshotKitSource
  <2>1. /\ visit.home \in Accounts /\ taken < MaxSnapshots /\ taken' = taken + 1
        /\ dir' = Committed(visit.home, taken') /\ pc = "kitSource" /\ pc' = "write"
        /\ visit' = [visit EXCEPT !.kit = taken']
        /\ UNCHANGED <<lkg, pointer, record, missed>>
    BY <1>2 DEF SnapshotKitSource, Inv, StoreTypeOK, Visit
  <2>2. /\ dir' \in [Accounts -> [Snapshots -> DirStates]]
        /\ taken' \in 0 .. MaxSnapshots /\ taken' \in Snapshots
        /\ dir'[visit.home][taken'] = "whole" /\ NamedIsWhole'
        /\ \A b \in Accounts : lkg'[b] < taken'
    BY <2>1, CommitKeepsNamed
  <2>3. visit' \in Visit /\ visit'.home = visit.home /\ visit'.kit = taken'
        /\ visit'.their = None
    BY <2>1, <2>2 DEF Inv, StoreTypeOK, Visit
  <2>4. StoreTypeOK' BY <2>1, <2>2, <2>3 DEF Inv, StoreTypeOK
  <2>5. Whole(visit.home, visit.kit)' /\ Whole(visit.to, visit.their)'
    BY <2>1, <2>2, <2>3 DEF Whole
  <2>6. \A a \in Accounts : lkg'[a] <= taken'
    BY <2>2, <2>4 DEF StoreTypeOK, Snapshots, None
  <2> QED BY <2>1, <2>2, <2>3, <2>4, <2>5, <2>6 DEF Inv
<1>3. CASE WriteJournal
  BY <1>3 DEF WriteJournal, Inv, StoreTypeOK, NamedIsWhole, Whole, Live
<1>4. CASE SetActive
  BY <1>4 DEF SetActive, Inv, StoreTypeOK, NamedIsWhole, Whole, Live
<1>5. CASE SnapshotTheirSetup
  <2>1. /\ visit.to \in Accounts /\ taken < MaxSnapshots /\ taken' = taken + 1
        /\ dir' = Committed(visit.to, taken') /\ pc = "theirSetup" /\ pc' = "recordTheirs"
        /\ visit' = [visit EXCEPT !.their = taken']
        /\ UNCHANGED <<lkg, pointer, record, missed>>
    BY <1>5 DEF SnapshotTheirSetup, Inv, StoreTypeOK, Visit
  <2>2. /\ dir' \in [Accounts -> [Snapshots -> DirStates]]
        /\ taken' \in 0 .. MaxSnapshots /\ taken' \in Snapshots
        /\ dir'[visit.to][taken'] = "whole" /\ NamedIsWhole'
        /\ \A b \in Accounts, s \in Snapshots :
               dir[b][s] = "whole" => dir'[b][s] = "whole"
        /\ \A b \in Accounts : lkg'[b] < taken'
    BY <2>1, CommitKeepsNamed
  <2>3. /\ visit' \in Visit /\ visit'.home = visit.home /\ visit'.kit = visit.kit
        /\ visit'.their = taken' /\ visit'.to = visit.to
        /\ visit.home \in Accounts /\ visit.kit \in Snapshots \cup {None}
    BY <2>1, <2>2 DEF Inv, StoreTypeOK, Visit
  <2>4. StoreTypeOK' BY <2>1, <2>2, <2>3 DEF Inv, StoreTypeOK
  <2>5. Whole(visit.home, visit.kit)' /\ Whole(visit.to, visit.their)'
    BY <2>1, <2>2, <2>3 DEF Whole, Inv
  <2>6. \A a \in Accounts : lkg'[a] <= taken'
    BY <2>2, <2>4 DEF StoreTypeOK, Snapshots, None
  <2>7. record'.state = "open" BY <2>1 DEF Inv
  <2> QED BY <2>1, <2>2, <2>3, <2>4, <2>5, <2>6, <2>7 DEF Inv
<1>6. CASE RecordTheirSetup
  BY <1>6 DEF RecordTheirSetup, Inv, StoreTypeOK, NamedIsWhole, Whole, Live
<1>7. CASE SetLastKnownGood
  <2>1. /\ visit.to \in Accounts /\ visit.their \in Snapshots \cup {None}
        /\ visit.their = taken /\ record.of = visit /\ record.state = "open"
        /\ Whole(visit.to, visit.their)
    BY <1>7 DEF SetLastKnownGood, SavedSetup, Inv, StoreTypeOK, Visit
  <2>2. /\ lkg' \in [Accounts -> Snapshots \cup {None}]
        /\ \A a \in Accounts : lkg'[a] = IF a = visit.to THEN taken ELSE lkg[a]
    BY <1>7, <2>1 DEF SetLastKnownGood, SavedSetup, Inv, StoreTypeOK
  <2>3. NamedIsWhole'
    BY <1>7, <2>1, <2>2 DEF SetLastKnownGood, SavedSetup, Inv, NamedIsWhole, Whole, Live
  <2>4. \A a \in Accounts : lkg'[a] <= taken'
    BY <1>7, <2>2, MaxSnapshotsAssumption DEF SetLastKnownGood, SavedSetup, Inv, StoreTypeOK
  <2> QED
    BY <1>7, <2>1, <2>2, <2>3, <2>4 DEF SetLastKnownGood, SavedSetup, Inv, StoreTypeOK, Whole
<1>8. CASE PruneTarget \/ PruneHome \/ PruneFails
  <2>1. PICK a \in Accounts, gone, torn, unread \in SUBSET Snapshots :
             /\ gone \subseteq Doomed(a) /\ torn \subseteq Doomed(a)
             /\ unread \subseteq Doomed(a)
             /\ dir' = Removed(a, gone, torn, unread)
             /\ pc \in {"pruneTarget", "pruneHome"}
             /\ pc' \in {"pruneHome", "apply", "idle"}
             /\ missed' \in BOOLEAN
             /\ UNCHANGED <<lkg, pointer, record, taken, visit>>
    <3>1. /\ visit.to \in Accounts /\ visit.home \in Accounts /\ missed \in BOOLEAN
          /\ \A a \in Accounts : Doomed(a) \subseteq Snapshots
      BY DoomedIsHarmless DEF Inv, StoreTypeOK, Visit
    <3>2. CASE PruneTarget
      BY <3>1, <3>2 DEF PruneTarget, PruneAt
    <3>3. CASE PruneHome
      BY <3>1, <3>3 DEF PruneHome, PruneAt
    <3>4. CASE PruneMisses("idle")
      BY <3>1, <3>4 DEF PruneMisses
    <3>5. CASE PruneMisses(IF pc = "pruneTarget" THEN "pruneHome" ELSE "apply")
      BY <3>1, <3>5 DEF PruneMisses
    <3> QED BY <1>8, <3>2, <3>3, <3>4, <3>5 DEF PruneFails
  <2>2. /\ dir' \in [Accounts -> [Snapshots -> DirStates]]
        /\ NamedIsWhole'
        /\ Whole(visit.home, visit.kit)' /\ Whole(visit.to, visit.their)'
    BY <2>1, RemovalKeepsNamed
  <2> QED BY <2>1, <2>2 DEF Inv, StoreTypeOK
<1>9. CASE KitApplied
  BY <1>9 DEF KitApplied, Inv, StoreTypeOK, NamedIsWhole, Whole, Live
<1>10. CASE EndStep
  BY <1>10 DEF EndStep, RestoreDone, ClearActivePointer, DropTxDir, Inv,
               StoreTypeOK, NamedIsWhole, Whole, Live
<1>11. CASE Answers
  BY <1>11 DEF Answers, StartRestore, KeepTracked, GiveUpRecord,
               AbandonUnparsable, Inv, StoreTypeOK, NamedIsWhole, Whole, Live
<1>12. CASE CommittedUnseen
  <2>1. PICK a \in Accounts : dir' = Committed(a, taken')
    BY <1>12 DEF CommittedUnseen, Inv, StoreTypeOK, Visit
  <2>2. pc' = "idle" /\ taken < MaxSnapshots /\ taken' = taken + 1
        /\ UNCHANGED <<lkg, pointer, record, visit, missed>>
    BY <1>12 DEF CommittedUnseen
  <2> HIDE DEF Recorded
  <2>3. /\ dir' \in [Accounts -> [Snapshots -> DirStates]]
        /\ taken' \in 0 .. MaxSnapshots /\ NamedIsWhole'
        /\ \A b \in Accounts : lkg'[b] < taken'
    BY <2>1, <2>2, CommitKeepsNamed DEF Inv
  <2>4. \A b \in Accounts : lkg'[b] <= taken'
    BY <2>2, <2>3, MaxSnapshotsAssumption DEF Inv, StoreTypeOK, Snapshots, None
  <2> QED BY <2>2, <2>3, <2>4 DEF Inv, StoreTypeOK, Recorded
<1>13. CASE Die \/ FinishMisses \/ Spoil
  BY <1>13 DEF Die, FinishMisses, Spoil, Inv, StoreTypeOK, NamedIsWhole, Whole, Live
<1> QED
  BY <1>0, <1>1, <1>2, <1>3, <1>4, <1>5, <1>6, <1>7, <1>8, <1>9, <1>10, <1>11,
     <1>12, <1>13
     DEF StoreNext, EnterStep, StoreFault

\* The invariant holds in every reachable state.
LEMMA SpecInv == StoreSpec => []Inv
BY InitInv, StepInv, PTL DEF StoreSpec

\* What a live transaction and every last-known-good pointer name is whole
\* in every reachable state.
THEOREM NothingNamedIsPruned == StoreSpec => []NamedIsWhole
<1>1. Inv => NamedIsWhole BY DEF Inv
<1> QED BY SpecInv, <1>1, PTL

\* A last-known-good pointer moves only forward, to a whole snapshot.
THEOREM LastKnownGoodIsNewest == StoreSpec => LastKnownGoodAdvances
<1> DEFINE Advances == \A a \in Accounts : lkg'[a] # lkg[a]
                          => lkg'[a] > lkg[a] /\ dir'[a][lkg'[a]] = "whole"
<1>1. Inv /\ [StoreNext]_storeVars => [Advances]_storeVars
  <2> SUFFICES ASSUME Inv, StoreNext PROVE Advances
    OBVIOUS
  <2>1. CASE SetLastKnownGood
    BY <2>1, MaxSnapshotsAssumption
       DEF SetLastKnownGood, SavedSetup, Inv, StoreTypeOK, Whole, Visit, Recorded, Snapshots, None
  <2>2. CASE ~SetLastKnownGood
    <3>1. UNCHANGED lkg
      BY <2>2 DEF StoreNext, StartEnter, EnterStep, EndStep, Answers, StoreFault,
         SnapshotKitSource, WriteJournal, SetActive, SnapshotTheirSetup,
         RecordTheirSetup, PruneTarget, PruneHome, PruneAt, KitApplied,
         RestoreDone, ClearActivePointer, DropTxDir, StartRestore, KeepTracked,
         GiveUpRecord, AbandonUnparsable, Die, FinishMisses, CommittedUnseen,
         PruneFails, PruneMisses, Spoil
    <3> QED BY <3>1
  <2> QED BY <2>1, <2>2
<1> QED BY SpecInv, <1>1, PTL DEF StoreSpec, LastKnownGoodAdvances
=============================================================================
