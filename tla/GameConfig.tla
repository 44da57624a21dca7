------------------------------ MODULE GameConfig ------------------------------
(***************************************************************************)
(* The manual tool that copies one game's settings between accounts        *)
(* (internal/steam/gameconfig.go): copy, apply a saved config, undo, and   *)
(* the library of saved configs and automatic revert points it takes       *)
(* before it overwrites anything.  Every writer holds dotaWriteMu from its *)
(* first check to its last write, so one runs at a time; a write may fail  *)
(* in the middle, so may the rollback, the application may end at any step *)
(* and Steam, where it runs, changes the files of the account signed in.   *)
(*                                                                         *)
(* A part's files are a value: what an account began with, what Steam      *)
(* brought, Empty (no directory, or nothing in it) or Torn (a copy or a    *)
(* removal stopped in the middle).  Whether a kit is live, which every     *)
(* writer asks first (guardManualConfigWrite), is for KitGuard.            *)
(***************************************************************************)
EXTENDS Naturals, FiniteSets, SequencesExt

CONSTANTS
    Accounts,     \* the accounts loginusers.vdf lists
    LocalSynced,  \* partCloudSynced(appID, "local"): not established otherwise
    Synced,       \* names of what Steam Cloud may bring
    Selections,   \* the selections of parts a caller makes
    MaxAuto,      \* maxAutoRevertSnapshots
    MaxTaken      \* bound: snapshots ever taken

ASSUME SelectionsAssumption ==
    Selections \subseteq SUBSET {"local", "remote", "globalcfg"}
ASSUME MaxAutoAssumption == MaxAuto \in Nat \ {0}
ASSUME MaxTakenAssumption == MaxTaken \in Nat

VARIABLES
    live,       \* live[place]: the files Steam and the game use
    inventory,  \* inventory[a]: remotecache.vdf, by the files it describes
    library,    \* library[id]: a saved config, a revert point, or NoSnapshot
    taken,      \* how many snapshots have been taken; orders them by CreatedAt
    client,     \* the account the running client is signed in to, or NoAccount
    playing,    \* the game runs
    op,         \* the operation that holds dotaWriteMu, or what it returned
    before      \* history: what each revert point was taken of

configVars == <<live, inventory, library, taken, client, playing, op, before>>

Parts     == {"local", "remote", "globalcfg"}
Machine   == "machine"
NoAccount == "nobody"

\* gamePartPath: the machine-wide folder is the same for every account.
Place(a, p) == IF p = "globalcfg" THEN <<Machine, p>> ELSE <<a, p>>
Places      == {Place(a, p) : a \in Accounts, p \in Parts}

Empty    == <<"empty">>
Torn     == <<"torn">>
Brought  == {<<"steam", c>> : c \in Synced}
Contents == {Empty, Torn} \cup Brought \cup Places    \* a place: what it began with

Ids        == 1 .. MaxTaken
NoSnapshot == [auto |-> FALSE, of |-> NoAccount, holds |-> [p \in {} |-> Empty],
               empty |-> {}, inv |-> Empty]
Exists(id) == library[id] # NoSnapshot

PartCloudSynced(p) == p = "remote" \/ (p = "local" /\ LocalSynced)

InOrder(parts) ==
    LET Just(p) == IF p \in parts THEN <<p>> ELSE <<>>
    IN  Just("local") \o Just("remote") \o Just("globalcfg")

-----------------------------------------------------------------------------
(* The library.                                                            *)

Autos == {id \in Ids : library[id].auto}

\* Mutant: the newest go first.
PrunedNewest ==
    [id \in Ids |->
        IF id \in Autos /\ Cardinality({n \in Autos : n < id}) >= MaxAuto
        THEN NoSnapshot ELSE library[id]]

\* pruneAutoSnapshots: by age over the whole game, whichever the account.
Pruned ==
    [id \in Ids |->
        IF id \in Autos /\ Cardinality({n \in Autos : n > id}) >= MaxAuto
        THEN NoSnapshot ELSE library[id]]

\* Mutant: no inventory is kept.
CaptureNoInventory(a, parts, auto) ==
    LET held == {p \in parts : live[Place(a, p)] # Empty}
    IN  [auto |-> auto, of |-> a, holds |-> [p \in held |-> live[Place(a, p)]],
         empty |-> IF auto THEN parts \ held ELSE {}, inv |-> Empty]

\* captureGameSnapshot: a revert point remembers what there was nothing of
\* and, where a cloud-synced part is at stake, Steam's inventory.
Capture(a, parts, auto) ==
    LET held == {p \in parts : live[Place(a, p)] # Empty}
    IN  [auto |-> auto, of |-> a,
         holds |-> [p \in held |-> live[Place(a, p)]],
         empty |-> IF auto THEN parts \ held ELSE {},
         inv |-> IF auto /\ \E p \in parts : PartCloudSynced(p)
                 THEN inventory[a] ELSE Empty]

\* What captureGameSnapshot of a revert point found, for the properties.
Found(a, parts) ==
    [files |-> [p \in parts |-> live[Place(a, p)]], inv |-> inventory[a]]

-----------------------------------------------------------------------------
(* The guards, which read the processes before the first write.            *)

\* accountIsIdle: the client is known to be signed in to another account.
AccountIsIdle(a) == client \notin {NoAccount, a}

DestCloudGuard(a, parts, allowCloudRisk) ==
    \/ AccountIsIdle(a)
    \/ \A p \in parts : ~PartCloudSynced(p)
    \/ allowCloudRisk
    \/ client = NoAccount

Idle == op.pc \in {"idle", "returned"}

\* `disturbed` is history: Steam changed the destination meanwhile.
NoOp == [pc |-> "idle", kind |-> "none", dest |-> NoAccount, source |-> NoAccount,
         from |-> 0, todo |-> <<>>, drop |-> <<>>, touched |-> <<>>,
         cloud |-> FALSE, revert |-> 0, putInv |-> Empty, result |-> "none",
         disturbed |-> FALSE]

\* The parts there is something to write from, once applyGameParts looks.
SourceOf(o, p) ==
    IF o.kind = "copy" THEN live[Place(o.source, p)]
    ELSE IF p \in DOMAIN library[o.from].holds THEN library[o.from].holds[p] ELSE Empty

ConfigInit ==
    /\ \E held \in SUBSET Places :
          live = [pl \in Places |-> IF pl \in held THEN pl ELSE Empty]
    /\ inventory = [a \in Accounts |-> live[Place(a, "remote")]]
    /\ library = [id \in Ids |-> NoSnapshot]
    /\ taken = 0
    /\ client \in Accounts \cup {NoAccount}
    /\ playing = FALSE
    /\ op = NoOp
    /\ before = [id \in Ids |-> [files |-> [p \in {} |-> Empty], inv |-> Empty]]

\* Everything up to applyGameParts' refusal of a write of nothing.
Begin(o, writes, removes) ==
    /\ Idle /\ ~playing /\ taken < MaxTaken
    /\ \E allow \in BOOLEAN : DestCloudGuard(o.dest, writes \cup removes, allow)
    /\ LET there == {p \in writes : SourceOf(o, p) # Empty}
       IN  /\ there \cup removes # {}
           /\ op' = [o EXCEPT !.pc = "capture", !.todo = InOrder(there),
                              !.drop = InOrder(removes)]
    /\ UNCHANGED <<live, inventory, library, taken, client, playing, before>>

\* CopyGameConfigBetween: never the machine-wide folder.
CopyGameConfigBetween(src, dst, parts) ==
    /\ src # dst
    /\ Begin([NoOp EXCEPT !.kind = "copy", !.dest = dst, !.source = src],
             parts \ {"globalcfg"}, {})

\* ApplyGameConfigSnapshot: what the revert point found empty is removed,
\* and Steam's inventory put back, only on the account it was taken from.
ApplyGameConfigSnapshot(id, dst, parts) ==
    /\ Exists(id)
    /\ LET snap      == library[id]
           removable == snap.auto /\ snap.of = dst
           usable    == parts \cap DOMAIN snap.holds
           removes   == IF removable THEN parts \cap snap.empty ELSE {}
           all       == usable = DOMAIN snap.holds /\ removes = snap.empty
       IN  Begin([NoOp EXCEPT !.kind = "apply", !.dest = dst, !.from = id,
                              !.putInv = IF removable /\ all THEN snap.inv ELSE Empty],
                 usable, removes)

\* UndoGameConfigCopy.
UndoGameConfigCopy(id) ==
    /\ Exists(id) /\ library[id].auto
    /\ LET snap == library[id]
       IN  Begin([NoOp EXCEPT !.kind = "undo", !.dest = snap.of, !.from = id,
                              !.putInv = snap.inv],
                 DOMAIN snap.holds, snap.empty)

-----------------------------------------------------------------------------
(* applyGameParts.                                                         *)

CaptureRevertPoint ==
    /\ op.pc = "capture" /\ taken < MaxTaken
    /\ taken' = taken + 1
    /\ LET parts == Range(op.todo) \cup Range(op.drop)
       IN  /\ library' = [library EXCEPT ![taken'] = Capture(op.dest, parts, TRUE)]
           /\ before' = [before EXCEPT ![taken'] = Found(op.dest, parts)]
    /\ op' = [op EXCEPT !.pc = "write", !.revert = taken']
    /\ UNCHANGED <<live, inventory, client, playing>>

\* captureGameSnapshot removes what it had copied and nothing is written.
CaptureFails ==
    /\ op.pc = "capture"
    /\ op' = [op EXCEPT !.pc = "returned", !.result = "refused"]
    /\ UNCHANGED <<live, inventory, library, taken, client, playing, before>>

Touch(o, p) == [o EXCEPT !.touched = Append(@, p)]

\* replaceDir: nothing is done where the source has become empty.
WritePart ==
    /\ op.pc = "write" /\ op.todo # <<>>
    /\ LET p    == Head(op.todo)
           from == SourceOf(op, p)
           dst  == Place(op.dest, p)
       IN  /\ live' = IF from = Empty THEN live ELSE [live EXCEPT ![dst] = from]
           /\ op' = [Touch(op, p) EXCEPT !.todo = Tail(@), !.cloud = @ \/ PartCloudSynced(p)]
    /\ UNCHANGED <<inventory, library, taken, client, playing, before>>

RemovePart ==
    /\ op.pc = "write" /\ op.todo = <<>> /\ op.drop # <<>>
    /\ LET p == Head(op.drop)
       IN  /\ live' = [live EXCEPT ![Place(op.dest, p)] = Empty]
           /\ op' = [Touch(op, p) EXCEPT !.drop = Tail(@), !.cloud = @ \/ PartCloudSynced(p)]
    /\ UNCHANGED <<inventory, library, taken, client, playing, before>>

\* What a removal or a copy that failed can have left of one part.
Half(dst) == {[live EXCEPT ![dst] = c] : c \in {Torn, Empty, live[dst]}}

WriteFails ==
    /\ op.pc = "write" /\ op.todo \o op.drop # <<>>
    /\ LET p == Head(op.todo \o op.drop)
       IN  /\ live' \in Half(Place(op.dest, p))
           /\ op' = [Touch(op, p) EXCEPT !.pc = "rollback", !.todo = <<>>, !.drop = <<>>]
    /\ UNCHANGED <<inventory, library, taken, client, playing, before>>

\* Steam's inventory goes where a cloud-synced part was written.
ForgetInventory ==
    /\ op.pc = "write" /\ op.todo = <<>> /\ op.drop = <<>>
    /\ inventory' = IF op.cloud THEN [inventory EXCEPT ![op.dest] = Empty] ELSE inventory
    /\ op' = [op EXCEPT !.pc = "prune"]
    /\ UNCHANGED <<live, library, taken, client, playing, before>>

PruneAutoSnapshots ==
    /\ op.pc = "prune"
    /\ library' = Pruned
    /\ op' = [op EXCEPT !.pc = "putInventory"]
    /\ UNCHANGED <<live, inventory, taken, client, playing, before>>

\* restoringRemoteCache: what was read before the write.
PutInventory ==
    /\ op.pc = "putInventory"
    /\ inventory' = IF op.putInv # Empty
                    THEN [inventory EXCEPT ![op.dest] = op.putInv] ELSE inventory
    /\ op' = [op EXCEPT !.pc = "returned", !.result = "done"]
    /\ UNCHANGED <<live, library, taken, client, playing, before>>

\* MUTANT: what the copy created is left.
RolledBackKept(p) ==
    LET kept == library[op.revert].holds
    IN  IF p \in DOMAIN kept THEN kept[p] ELSE live[Place(op.dest, p)]

\* rollBackGameParts, one touched part at a time.
RolledBack(p) ==
    LET kept == library[op.revert].holds
    IN  IF p \in DOMAIN kept THEN kept[p] ELSE Empty

RollBackPart ==
    /\ op.pc = "rollback" /\ op.touched # <<>>
    /\ LET p == Head(op.touched)
       IN  /\ live' = [live EXCEPT ![Place(op.dest, p)] = RolledBack(p)]
           /\ op' = [op EXCEPT !.touched = Tail(@)]
    /\ UNCHANGED <<inventory, library, taken, client, playing, before>>

RollBackFails ==
    /\ op.pc = "rollback" /\ op.touched # <<>>
    /\ live' \in Half(Place(op.dest, Head(op.touched)))
    /\ op' = [op EXCEPT !.pc = "returned", !.result = "notRolledBack"]
    /\ UNCHANGED <<inventory, library, taken, client, playing, before>>

RollBackDone ==
    /\ op.pc = "rollback" /\ op.touched = <<>>
    /\ op' = [op EXCEPT !.pc = "returned", !.result = "rolledBack"]
    /\ UNCHANGED <<live, inventory, library, taken, client, playing, before>>

-----------------------------------------------------------------------------
(* The library's own operations.                                           *)

\* SnapshotGameConfig: a saved config of nothing is refused.
SnapshotGameConfig(a, parts) ==
    /\ Idle /\ taken < MaxTaken
    /\ \E p \in parts : live[Place(a, p)] # Empty
    /\ taken' = taken + 1
    /\ library' = [library EXCEPT ![taken'] = Capture(a, parts, FALSE)]
    /\ op' = NoOp
    /\ UNCHANGED <<live, inventory, client, playing, before>>

\* RenameGameConfigSnapshot makes a saved config of a revert point.
RenameGameConfigSnapshot(id) ==
    /\ Idle /\ Exists(id)
    /\ library' = [library EXCEPT ![id].auto = FALSE, ![id].empty = {}]
    /\ op' = NoOp
    /\ UNCHANGED <<live, inventory, taken, client, playing, before>>

DeleteGameConfigSnapshot(id) ==
    /\ Idle /\ Exists(id)
    /\ library' = [library EXCEPT ![id] = NoSnapshot]
    /\ op' = NoOp
    /\ UNCHANGED <<live, inventory, taken, client, playing, before>>

-----------------------------------------------------------------------------
(* Around it: Steam, the game, the end of the process.                     *)

StartClient(a) ==
    /\ client = NoAccount /\ client' = a
    /\ UNCHANGED <<live, inventory, library, taken, playing, op, before>>

StopClient ==
    /\ client # NoAccount /\ ~playing /\ client' = NoAccount
    /\ UNCHANGED <<live, inventory, library, taken, playing, op, before>>

StartGame ==
    /\ client # NoAccount /\ ~playing /\ playing' = TRUE
    /\ UNCHANGED <<live, inventory, library, taken, client, op, before>>

StopGame ==
    /\ playing /\ playing' = FALSE
    /\ UNCHANGED <<live, inventory, library, taken, client, op, before>>

\* Cloud or the game changes what the account signed in has, at any time:
\* the guards only looked before the first write.
ClientWrites ==
    /\ client # NoAccount
    /\ \E c \in Brought :
          /\ live' = [live EXCEPT ![Place(client, "remote")] = c]
          /\ inventory' = [inventory EXCEPT ![client] = c]
    /\ op' = IF Idle THEN NoOp
             ELSE [op EXCEPT !.disturbed = @ \/ client = op.dest]
    /\ UNCHANGED <<library, taken, client, playing, before>>

\* The process ends inside an operation; a step it was in is half done.
ConfigCrash ==
    /\ ~Idle
    /\ \/ UNCHANGED live
       \/ /\ op.pc = "write" /\ op.todo \o op.drop # <<>>
          /\ live' \in Half(Place(op.dest, Head(op.todo \o op.drop)))
    /\ op' = NoOp
    /\ UNCHANGED <<inventory, library, taken, client, playing, before>>

-----------------------------------------------------------------------------
ApplyStep ==
    \/ CaptureRevertPoint \/ CaptureFails \/ WritePart \/ RemovePart
    \/ WriteFails \/ ForgetInventory \/ PruneAutoSnapshots \/ PutInventory
    \/ RollBackPart \/ RollBackFails \/ RollBackDone

LibraryStep ==
    \/ \E a \in Accounts, parts \in Selections : SnapshotGameConfig(a, parts)
    \/ \E id \in Ids : RenameGameConfigSnapshot(id) \/ DeleteGameConfigSnapshot(id)

Around ==
    \/ \E a \in Accounts : StartClient(a)
    \/ StopClient \/ StartGame \/ StopGame \/ ClientWrites \/ ConfigCrash

ConfigNext ==
    \/ \E src, dst \in Accounts, parts \in Selections :
          CopyGameConfigBetween(src, dst, parts)
    \/ \E id \in Ids, dst \in Accounts, parts \in Selections :
          ApplyGameConfigSnapshot(id, dst, parts)
    \/ \E id \in Ids : UndoGameConfigCopy(id)
    \/ ApplyStep \/ LibraryStep \/ Around

ConfigSpec == ConfigInit /\ [][ConfigNext]_configVars

-----------------------------------------------------------------------------
(* Properties.                                                             *)

Files == UNION {[ps -> Contents] : ps \in SUBSET Parts}

ConfigTypeOK ==
    /\ live \in [Places -> Contents]
    /\ inventory \in [Accounts -> Contents]
    /\ taken \in 0 .. MaxTaken
    /\ client \in Accounts \cup {NoAccount}
    /\ playing \in BOOLEAN
    /\ \A id \in Ids :
          /\ library[id].holds \in Files
          /\ library[id].empty \subseteq Parts \ DOMAIN library[id].holds
          /\ library[id].inv \in Contents

\* A copy that reports that it was rolled back left the destination exactly
\* as it found it, Steam's inventory of the cloud files included
\* (gameconfig.go:741-787).
RolledBackIsAsFound ==
    op.result = "rolledBack" /\ ~op.disturbed =>
        LET found == before[op.revert]
        IN  /\ \A p \in DOMAIN found.files : live[Place(op.dest, p)] = found.files[p]
            /\ inventory[op.dest] = found.inv

\* An undo that reports success put back what its revert point was taken of,
\* with what the copy created gone and Steam's inventory as it was, also
\* where its own pruning has removed that revert point (gameconfig.go:424-446,
\* gameconfig.go:921-951).
UndoPutsBack ==
    op.kind = "undo" /\ op.result = "done" /\ ~op.disturbed =>
        LET found == before[op.from]
        IN  /\ \A p \in DOMAIN found.files : live[Place(op.dest, p)] = found.files[p]
            /\ (\E p \in DOMAIN found.files : PartCloudSynced(p)) =>
                   inventory[op.dest] = found.inv

\* The undo that a result offers exists: the revert point it names has not
\* been pruned by the operation that took it (gameconfig.go:392-423,
\* gameconfig.go:768).
OfferedUndoExists ==
    op.pc = "returned" /\ op.result # "refused" => Exists(op.revert) /\ library[op.revert].auto

\* A saved config goes only when it is deleted; a revert point the user has
\* named has become one (gameconfig.go:569-628).
SavedConfigStays ==
    [][\A id \in Ids :
          Exists(id) /\ ~library[id].auto /\ library'[id] # library[id]
              => Idle]_configVars
=============================================================================
