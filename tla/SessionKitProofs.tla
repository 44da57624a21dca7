-------------------------- MODULE SessionKitProofs --------------------------
(***************************************************************************)
(* Theorems about SessionKit for every set of parts and of accounts, every *)
(* number of failures and crashes, and every answer the recovery dialog    *)
(* offers: its types, that the engine writes only while Steam is closed,   *)
(* what it owes the account (nothing of the kit is stranded on it, the     *)
(* snapshot is the owner's), and that it implements KitPromise.            *)
(*                                                                         *)
(* What it owes needs an invariant in three layers, each proved with the   *)
(* ones before it: CallInv, where a call is and what its journal says      *)
(* there; PassInv, what a pass and a rollback have done to which part;     *)
(* LoanInv, what the trees on the disk are to the owner.                   *)
(***************************************************************************)
EXTENDS SessionKitPromise, TLAPS

-----------------------------------------------------------------------------
(* Type correctness.                                                       *)

\* The steps of ReplacePart act on the part the pass has started.
PartSteps == PassSteps \ {"next-part"}
AtIsAPart  == pc \in PartSteps => at \in Parts
IdleIsIdle == op = "idle" => pc = "idle"
TypeInv    == TypeOK /\ AtIsAPart /\ IdleIsIdle

\* What a removal leaves is a tree.
LEMMA RemainsType == /\ \A t \in Tree : Remains(t) \in Tree
                     /\ \A t \in Aside : Remains(t) \in Aside
                     /\ Remains("absent") = "absent"
  BY DEF Remains, Tree, Aside, Blank

\* What the game makes of a tree is one.
LEMMA PlayedType == \A t \in Tree : Played(t) \in Tree
  BY DEF Played, Tree, Overlay

\* What a capture records of a tree is one.
LEMMA CapturedType == \A t \in Tree : Captured(t) \in Tree
  BY DEF Captured, Tree, Blank

\* The journal a call begins with is one.
LEMMA NewJournalType ==
    ASSUME NEW kit \in [Parts -> Tree], NEW from \in Accounts \cup {NoAccount}
    PROVE  NewJournal(kit, from) \in Journal
  BY DEF NewJournal, Journal, AllPending, Phases, BeforeKitLanded, ReplaceStates,
         Tree

\* After a phase comes a step.
LEMMA AfterAdvanceType ==
    ASSUME NEW phase \in Phases \ RestingPhases
    PROVE  AfterAdvance(phase) \in Steps \ PartSteps
  BY DEF AfterAdvance, Phases, RestingPhases, KitPhases, BeforeKitLanded, Steps,
         PassSteps, RollbackSteps, FinishSteps, PartSteps

\* Advancing a journal leaves it a journal.
LEMMA AdvancedType ==
    ASSUME TypeOK, NEW phase \in Phases
    PROVE  Advanced(phase) \in Journal
  BY DEF TypeOK, Advanced, Journal, AllPending, ReplaceStates

\* The names of the phases are not names of steps of a pass or a rollback.
LEMMA PhasesApart == /\ Phases \cap PassSteps = {}
                     /\ Phases \subseteq Steps
                     /\ "idle" \notin Phases
  BY DEF Phases, RestingPhases, KitPhases, BeforeKitLanded, PassSteps, Steps

\* The initial states have their types.
LEMMA InitTypeInv == Init => TypeInv
<1> SUFFICES ASSUME Init PROVE TypeInv
  OBVIOUS
<1>1. j \in Journal
  <2>1. [p \in Parts |-> "absent"] \in [Parts -> Tree]
    BY DEF Tree
  <2> QED
    BY <2>1, NewJournalType DEF Init, NoJournal
<1>2. /\ live \in [Parts -> Tree] /\ orig \in [Parts -> Tree]
      /\ rollback \in [Parts -> Aside]
      /\ staged \in Tree
  BY DEF Init, NoScratch, Tree, Aside
<1> QED
  BY <1>1, <1>2 DEF Init, TypeInv, TypeOK, AtIsAPart, IdleIsIdle, Ops, Steps, PartSteps, PassSteps

\* A call that starts or returns, and what the world does, keeps the types.
LEMMA BeginTypeInv ==
    ASSUME TypeInv, NEW call \in Ops \ {"idle"}, NEW step \in Steps \ PartSteps,
           NEW target \in Accounts \cup {NoAccount},
           Begin(call, step, target), todo' \in SUBSET Parts,
           orig' = orig, accepted' \in BOOLEAN
    PROVE  TypeInv'
  BY DEF TypeInv, TypeOK, AtIsAPart, IdleIsIdle, Begin, disk

\* A call that returns leaves the types in place.
LEMMA ReturnTypeInv ==
    ASSUME TypeInv, Return, UNCHANGED <<login, ghosts>>, steam' \in BOOLEAN,
           live' \in [Parts -> Tree], rollback' \in [Parts -> Aside],
           active' \in BOOLEAN, j' \in Journal
    PROVE  TypeInv'
  BY DEF TypeInv, TypeOK, AtIsAPart, IdleIsIdle, Return, ghosts, Tree, Ops, Steps, PartSteps, PassSteps

\* A step inside a call.
LEMMA GotoTypeInv ==
    ASSUME TypeInv, NEW step \in Steps, Goto(step), pc # "idle",
           step \in PartSteps => pc \in PartSteps,
           live' \in [Parts -> Tree], rollback' \in [Parts -> Aside],
           active' \in BOOLEAN, j' \in Journal,
           login' \in Accounts \cup {NoAccount}, steam' \in BOOLEAN,
           orig' \in [Parts -> Tree], accepted' = accepted
    PROVE  TypeInv'
  BY DEF TypeInv, TypeOK, AtIsAPart, IdleIsIdle, Goto

\* One lemma for each group of actions: the calls,
LEMMA BeginsTypeInv ==
    ASSUME TypeInv, Begins \/ Resolve
    PROVE  TypeInv'
<1> USE BeginTypeInv DEF Ops, Steps, PartSteps, PassSteps, RollbackSteps
<1>1. CASE BeginEnter
  BY <1>1, SharedAssumption DEF BeginEnter, ghosts, TypeInv, TypeOK
<1>2. ASSUME NEW a \in Accounts, BeginPlainSwitch(a)
      PROVE  TypeInv'
  BY <1>2 DEF BeginPlainSwitch, ghosts, TypeInv, TypeOK
<1>3. ASSUME NEW a \in Accounts, NEW call \in {"Leave", "LeaveKeepMine"},
             BeginLeave(a, call)
      PROVE  TypeInv'
  BY <1>3 DEF BeginLeave, ghosts, TypeInv, TypeOK
<1>4. CASE ResolveRestoreTheirs
  BY <1>4 DEF ResolveRestoreTheirs, ghosts, TypeInv, TypeOK
<1>5. CASE ResolveKeepCurrent
  BY <1>5, PhasesApart DEF ResolveKeepCurrent, ghosts, TypeInv, TypeOK, Phases, KitPhases, RestingPhases
<1>6. CASE ResolveAcceptCurrent
  BY <1>6 DEF ResolveAcceptCurrent, FinishSteps, TypeInv, TypeOK
<1>7. CASE ResolveAbandon
  BY <1>7 DEF ResolveAbandon, Incomplete, ghosts, TypeInv, TypeOK
<1> QED
  BY <1>1, <1>2, <1>3, <1>4, <1>5, <1>6, <1>7 DEF Begins, Resolve

\* the steps that lead up to a pass and follow it,
LEMMA CallTypeInv ==
    ASSUME TypeInv,
           \/ EnsureClosed \/ Publish \/ Advance \/ AdvanceToRest
           \/ SaveTheirSetup \/ CheckExternalChange \/ ReleaseVerified
           \/ ReleaseVerifiedFails \/ RollbackDone
           \/ WriteLogin \/ LaunchSteam \/ ReconcileLogin \/ ReconcileLoginFails
           \/ ClearActive \/ ClearActiveFails \/ DropTransaction
           \/ DropTransactionFails \/ ReleaseScratch
    PROVE  TypeInv'
<1>1. CASE EnsureClosed
  BY <1>1 DEF EnsureClosed, Incomplete, TypeInv, TypeOK, AtIsAPart, IdleIsIdle, disk, ghosts,
         Steps, PartSteps, PassSteps, RollbackSteps, Phases
<1>2. CASE Publish
  <2>1. PICK kit \in KitSources : j' = NewJournal(kit, login)
    BY <1>2 DEF Publish
  <2>2. kit \in [Parts -> Tree]
    BY DEF KitSources, Tree
  <2>3. j' \in Journal
    BY <2>1, <2>2, NewJournalType DEF TypeInv, TypeOK
  <2>4. AfterAdvance("planned") \in Steps \ PartSteps
    BY AfterAdvanceType DEF Phases, BeforeKitLanded, RestingPhases, KitPhases
  <2>5. rollback' \in [Parts -> Aside]
    BY <1>2 DEF Publish, NoScratch, Aside, Tree
  <2> QED
    BY <1>2, <2>3, <2>4, <2>5, GotoTypeInv DEF Publish, ghosts, TypeInv, TypeOK
<1>3. CASE Advance
  <2>1. pc' \in Steps \ PartSteps
    BY <1>3, AfterAdvanceType DEF Advance
  <2>2. j' \in Journal
    BY <1>3, AdvancedType DEF Advance, TypeInv
  <2> QED
    BY <1>3, <2>1, <2>2, PhasesApart DEF Advance, TypeInv, TypeOK, AtIsAPart, IdleIsIdle, ghosts
<1>4. CASE AdvanceToRest
  <2>1. j' \in Journal
    BY <1>4, AdvancedType DEF AdvanceToRest, TypeInv, Phases
  <2>2. CASE pc = "complete"
    BY <1>4, <2>1, <2>2, GotoTypeInv DEF AdvanceToRest, TypeInv, TypeOK, ghosts,
           Steps, FinishSteps, PartSteps, PassSteps
  <2>3. CASE pc # "complete"
    BY <1>4, <2>1, <2>3, ReturnTypeInv DEF AdvanceToRest, TypeInv, TypeOK, ghosts
  <2> QED
    BY <2>2, <2>3
<1>5. CASE SaveTheirSetup
  <2>1. [p \in Parts |-> Captured(live[p])] \in [Parts -> Tree]
    BY CapturedType DEF TypeInv, TypeOK
  <2>2. j' \in Journal
    BY <1>5, <2>1 DEF SaveTheirSetup, TypeInv, TypeOK, Journal
  <2> QED
    BY <1>5, <2>2, GotoTypeInv, PhasesApart
    DEF SaveTheirSetup, TypeInv, TypeOK, Phases, BeforeKitLanded, PartSteps, PassSteps
<1>6. CASE CheckExternalChange
  BY <1>6, GotoTypeInv, PhasesApart
  DEF CheckExternalChange, TypeInv, TypeOK, disk, ghosts, Phases, RestingPhases,
      Steps, PartSteps, PassSteps
<1>7. CASE ReleaseVerified \/ ReleaseVerifiedFails
  <2>1. rollback' \in [Parts -> Aside]
    BY <1>7, RemainsType DEF ReleaseVerified, ReleaseVerifiedFails, TypeInv, TypeOK, Aside, Tree
  <2> QED
    BY <1>7, <2>1, GotoTypeInv, PhasesApart
    DEF ReleaseVerified, ReleaseVerifiedFails, TypeInv, TypeOK, ghosts, Phases,
        PartSteps, PassSteps
<1>8. CASE RollbackDone
  <2>1. j' \in Journal
    BY <1>8 DEF RollbackDone, TypeInv, TypeOK, Journal, ReplaceStates
  <2> QED
    BY <1>8, <2>1, GotoTypeInv, PhasesApart
    DEF RollbackDone, TypeInv, TypeOK, ghosts, Steps, Phases, RestingPhases,
        KitPhases, FinishSteps, PartSteps, PassSteps
<1>9. CASE WriteLogin
  BY <1>9, GotoTypeInv, PhasesApart
  DEF WriteLogin, TypeInv, TypeOK, ghosts, Steps, Phases, PartSteps, PassSteps
<1>10. CASE LaunchSteam
  <2>1. CASE op = "plainSwitch"
    BY <1>10, <2>1, ReturnTypeInv DEF LaunchSteam, TypeInv, TypeOK, disk, ghosts
  <2>2. CASE op # "plainSwitch"
    <3>1. PICK phase \in {"kit-active", "kept-active", "complete"} : Goto(phase)
      BY <1>10, <2>2 DEF LaunchSteam
    <3>2. phase \in Steps \ PartSteps
      BY PhasesApart DEF Phases, RestingPhases, KitPhases, PartSteps
    <3> QED
      BY <1>10, <3>1, <3>2, GotoTypeInv DEF LaunchSteam, TypeInv, TypeOK, disk, ghosts
  <2> QED
    BY <2>1, <2>2
<1>11. CASE ReconcileLogin \/ ReconcileLoginFails
  <2>1. LoginAfterRestore \in Accounts \cup {NoAccount}
    BY DEF LoginAfterRestore, TypeInv, TypeOK, Journal
  <2> QED
    BY <1>11, <2>1, GotoTypeInv, PhasesApart
    DEF ReconcileLogin, ReconcileLoginFails, TypeInv, TypeOK, disk, ghosts,
        Phases, RestingPhases, PartSteps, PassSteps
<1>12. CASE ClearActive \/ ClearActiveFails \/ DropTransaction \/ DropTransactionFails
  <2>1. NoJournal \in Journal
    BY NewJournalType DEF NoJournal, Tree
  <2> QED
    BY <1>12, <2>1, GotoTypeInv
    DEF ClearActive, ClearActiveFails, DropTransaction, DropTransactionFails, Forget,
        TypeInv, TypeOK, disk, ghosts, Steps, FinishSteps, PartSteps, PassSteps
<1>13. CASE ReleaseScratch
  BY <1>13, ReturnTypeInv
  DEF ReleaseScratch, NoScratch, TypeInv, TypeOK, ghosts, Aside, Tree
<1> QED
  BY <1>1, <1>2, <1>3, <1>4, <1>5, <1>6, <1>7, <1>8, <1>9, <1>10, <1>11, <1>12, <1>13

\* the pass that replaces one part after another,
LEMMA PassTypeInv ==
    ASSUME TypeInv,
           \/ \E p \in Parts : StartPart(p) \/ SkipPart(p)
           \/ Stage \/ StageShort \/ LogStaged \/ ClearRollback \/ MoveAside
           \/ LogOldMoved \/ Install \/ LogInstalled \/ LogVerified \/ VerifyFails
           \/ ReleaseRollback \/ ReleaseRollbackFails \/ RecordPass
    PROVE  TypeInv'
<1> USE DEF TypeInv, ghosts, Steps, PartSteps, PassSteps
<1>1. ASSUME NEW p \in Parts, StartPart(p) \/ SkipPart(p)
      PROVE  TypeInv'
  BY <1>1 DEF StartPart, SkipPart, TypeOK, AtIsAPart, IdleIsIdle, disk
<1>2. CASE Stage \/ StageShort
  <2>1. at \in Parts
    BY <1>2 DEF Stage, StageShort, StageCopy, AtIsAPart, IdleIsIdle
  <2>2. Source(at) \in Tree
    BY <2>1 DEF Source, TypeOK, Journal
  <2>3. staged' \in Tree
    BY <1>2, <2>2 DEF Stage, StageShort, StageCopy, Tree
  <2> QED
    BY <1>2, <2>1, <2>3 DEF Stage, StageShort, StageCopy, TypeOK, AtIsAPart, IdleIsIdle, disk
<1>3. CASE LogStaged \/ LogOldMoved \/ LogInstalled \/ LogVerified
  <2>1. \A state \in ReplaceStates : [j EXCEPT !.part[at] = state] \in Journal
    BY DEF TypeOK, Journal
  <2>2. j' \in Journal
    BY <1>3, <2>1 DEF LogStaged, LogOldMoved, LogInstalled, LogVerified, LogPart, ReplaceStates
  <2> QED
    BY <1>3, <2>2, GotoTypeInv
    DEF LogStaged, LogOldMoved, LogInstalled, LogVerified, LogPart, TypeOK
<1>4. CASE ClearRollback
  <2>1. rollback' \in [Parts -> Aside]
    BY <1>4 DEF ClearRollback, TypeOK, Aside, Tree
  <2> QED
    BY <1>4, <2>1, GotoTypeInv DEF ClearRollback, TypeOK
<1>5. CASE MoveAside
  <2>1. live' \in [Parts -> Tree] /\ rollback' \in [Parts -> Aside]
    BY <1>5 DEF MoveAside, TypeOK, Aside, Tree
  <2> QED
    BY <1>5, <2>1, GotoTypeInv DEF MoveAside, TypeOK
<1>6. CASE Install
  <2>1. live' \in [Parts -> Tree]
    BY <1>6 DEF Install, TypeOK
  <2> QED
    BY <1>6, <2>1, GotoTypeInv DEF Install, TypeOK
<1>7. CASE VerifyFails
  BY <1>7, ReturnTypeInv DEF VerifyFails, TypeOK, disk
<1>8. CASE ReleaseRollback \/ ReleaseRollbackFails
  <2>1. PICK leftover : Release(leftover) /\ (at \in Parts => leftover \in Aside)
    BY <1>8, RemainsType DEF ReleaseRollback, ReleaseRollbackFails, TypeOK, Aside, Tree
  <2>2. rollback' \in [Parts -> Aside]
    BY <2>1 DEF Release, TypeOK
  <2> QED
    BY <2>1, <2>2 DEF Release, TypeOK, AtIsAPart, IdleIsIdle, Tree
<1>9. CASE RecordPass
  <2>1. j' \in Journal
    BY <1>9 DEF RecordPass, TypeOK, Journal
  <2> QED
    BY <1>9, <2>1, GotoTypeInv, PhasesApart DEF RecordPass, TypeOK, Phases
<1> QED
  BY <1>1, <1>2, <1>3, <1>4, <1>5, <1>6, <1>7, <1>8, <1>9

\* rolling back, dying, and the world.
LEMMA OtherTypeInv ==
    ASSUME TypeInv,
           \/ \E p \in Parts : NothingMoved(p) \/ RemoveInstalled(p)
           \/ PutBack \/ Interrupt \/ World
    PROVE  TypeInv'
<1>1. ASSUME NEW p \in Parts, NothingMoved(p) \/ RemoveInstalled(p)
      PROVE  TypeInv'
  BY <1>1 DEF NothingMoved, RemoveInstalled, TypeInv, TypeOK, AtIsAPart, IdleIsIdle, disk, ghosts,
         Tree, Steps, RollbackSteps, PartSteps, PassSteps
<1>2. CASE PutBack
  <2>1. live' \in [Parts -> Tree] /\ rollback' \in [Parts -> Aside]
    BY <1>2 DEF PutBack, TypeInv, TypeOK, Aside, Tree
  <2> QED
    BY <1>2, <2>1 DEF PutBack, TypeInv, TypeOK, AtIsAPart, IdleIsIdle, ghosts,
           Steps, RollbackSteps, PartSteps, PassSteps
<1>3. CASE Interrupt
  <2>a. live \in [Parts -> Tree] /\ rollback \in [Parts -> Aside]
    BY DEF TypeInv, TypeOK
  <2>b. CutShort BY <1>3 DEF Interrupt
  <2>1. live' \in [Parts -> Tree]
    BY <2>a, <2>b, RemainsType DEF CutShort, Tree
  <2>2. rollback' \in [Parts -> Aside]
    BY <2>a, <2>b, RemainsType DEF CutShort, Aside, Tree
  <2>c. Return /\ UNCHANGED <<active, j, login, steam, ghosts>> BY <1>3 DEF Interrupt
  <2>d. steam \in BOOLEAN /\ active \in BOOLEAN /\ j \in Journal BY DEF TypeInv, TypeOK
  <2> QED BY <2>1, <2>2, <2>c, <2>d, ReturnTypeInv
<1>4. CASE World
  <2>1. CASE UserTogglesSteam
    BY <2>1 DEF UserTogglesSteam, TypeInv, TypeOK, AtIsAPart, IdleIsIdle,
                disk, memory, ghosts
  <2>2. ASSUME NEW a \in Accounts, UserSignsIn(a) PROVE TypeInv'
    BY <2>2 DEF UserSignsIn, TypeInv, TypeOK, AtIsAPart, IdleIsIdle,
                disk, memory, ghosts
  <2>3. ASSUME NEW p \in Parts, Play(p) PROVE TypeInv'
    BY <2>3, PlayedType DEF Play, TypeInv, TypeOK, AtIsAPart, IdleIsIdle, memory, ghosts
  <2> QED BY <1>4, <2>1, <2>2, <2>3 DEF World
<1> QED
  BY <1>1, <1>2, <1>3, <1>4

\* So does every step.
LEMMA NextTypeInv == TypeInv /\ [Next]_vars => TypeInv'
<1> SUFFICES ASSUME TypeInv, [Next]_vars PROVE TypeInv'
  OBVIOUS
<1>1. CASE UNCHANGED vars
  BY <1>1 DEF vars, disk, memory, ghosts, TypeInv, TypeOK, AtIsAPart, IdleIsIdle
<1>2. CASE Next
  BY <1>2, BeginsTypeInv, CallTypeInv, PassTypeInv, OtherTypeInv
  DEF Next, EngineStep, Fault
<1> QED
  BY <1>1, <1>2

(* The state of every reachable state has its type.                        *)
THEOREM TypeCorrect == Spec => []TypeOK
<1>1. Spec => []TypeInv
  BY InitTypeInv, NextTypeInv, PTL DEF Spec
<1>2. TypeInv => TypeOK
  BY DEF TypeInv
<1> QED
  BY <1>1, <1>2, PTL

-----------------------------------------------------------------------------
(* No part is written while Steam runs.  The calls that close Steam first  *)
(* keep it closed until they launch it; Abandon does not close it, and is  *)
(* safe only because the dialog offers it where no setup was saved, and    *)
(* nothing is ever moved aside before one is.                              *)

\* Everything between EnsureClosed and LaunchSteam.
OpenSteps   == RestingPhases \cup FinishSteps \cup {"idle", "close", "reconcile-login"}
ClosedSteps == Steps \ OpenSteps

SteamIsClosed == pc \in ClosedSteps /\ op # "Abandon" => ~steam

UnsavedIsUntouched == active /\ ~j.saved => rollback = NoScratch

PassIsSaved ==
    (\/ pc \in PartSteps \cup {"snapshot-saved", "applying"}
     \/ pc = "next-part" /\ todo # {})
        => j.saved

AbandonOnlyLooks ==
    op = "Abandon" /\ pc \in ClosedSteps \cup {"close"}
        => pc = "rollback" /\ active /\ ~j.saved

ClosedInv == /\ TypeInv
             /\ SteamIsClosed
             /\ UnsavedIsUntouched
             /\ PassIsSaved
             /\ AbandonOnlyLooks

\* Before the first call there is nothing to be closed for.
LEMMA InitClosedInv == Init => ClosedInv
  BY InitTypeInv
  DEF Init, ClosedInv, SteamIsClosed, UnsavedIsUntouched, PassIsSaved, AbandonOnlyLooks,
      ClosedSteps, OpenSteps, PartSteps, PassSteps

\* Where the calls start, and what follows each of their steps.
LEMMA StepsApart ==
    /\ PartSteps \cup RollbackSteps \cup {"next-part"} \subseteq ClosedSteps
    /\ PartSteps \cap RollbackSteps = {}
    /\ (PartSteps \cup RollbackSteps) \cap (Phases \cup OpenSteps) = {}
    /\ "next-part" \notin Phases
    /\ OpenSteps \cap {"snapshot-saved", "applying", "next-part"} = {}
  BY DEF ClosedSteps, OpenSteps, Steps, PartSteps, PassSteps, RollbackSteps,
         FinishSteps, RestingPhases, KitPhases, Phases, BeforeKitLanded

\* A call begins before the steps that rely on a closed Steam.
LEMMA BeginsClosedInv ==
    ASSUME ~AnyAnswer, ClosedInv, Begins \/ Resolve
    PROVE  ClosedInv'
<1>1. TypeInv'
  BY BeginsTypeInv DEF ClosedInv
<1>2. UNCHANGED <<rollback, active, j, steam>>
  BY DEF Begins, Resolve, BeginEnter, BeginPlainSwitch, BeginLeave, ResolveRestoreTheirs,
         ResolveKeepCurrent, ResolveAcceptCurrent, ResolveAbandon, Begin, disk
<1>3. CASE ResolveAbandon
  <2>1. active /\ ~j.saved /\ op' = "Abandon" /\ pc' = "rollback"
    BY <1>3 DEF ResolveAbandon, Offered, Begin
  <2> QED
    BY <1>1, <1>2, <2>1, StepsApart
    DEF ClosedInv, SteamIsClosed, UnsavedIsUntouched, PassIsSaved, AbandonOnlyLooks, RollbackSteps
<1>4. CASE ~ResolveAbandon
  <2>1. op' # "Abandon" /\ pc' \in OpenSteps
    BY <1>4
    DEF Begins, Resolve, BeginEnter, BeginPlainSwitch, BeginLeave, ResolveRestoreTheirs,
        ResolveKeepCurrent, ResolveAcceptCurrent, Begin, OpenSteps, RestingPhases,
        KitPhases, FinishSteps
  <2> QED
    BY <1>1, <1>2, <2>1, StepsApart
    DEF ClosedInv, SteamIsClosed, UnsavedIsUntouched, PassIsSaved, AbandonOnlyLooks, ClosedSteps
<1> QED
  BY <1>3, <1>4

\* A call that has returned, or is on its way to, and wrote no new journal.
LEMMA OpenClosedInv ==
    ASSUME ClosedInv, TypeInv', pc' \in OpenSteps \ {"close"},
           active' => active, active' => (j'.saved <=> j.saved),
           active' /\ ~j.saved /\ rollback = NoScratch => rollback' = NoScratch
    PROVE  ClosedInv'
  BY StepsApart
  DEF ClosedInv, SteamIsClosed, UnsavedIsUntouched, PassIsSaved, AbandonOnlyLooks, ClosedSteps

\* A step between the close and the launch, of any call but Abandon.
LEMMA ClosedClosedInv ==
    ASSUME ClosedInv, TypeInv', op # "Abandon", op' = op, ~steam',
           UnsavedIsUntouched', PassIsSaved'
    PROVE  ClosedInv'
  BY DEF ClosedInv, SteamIsClosed, AbandonOnlyLooks

\* The steps of a call outside a pass reach those only past EnsureClosed.
LEMMA CallClosedInv ==
    ASSUME ClosedInv,
           \/ EnsureClosed \/ Publish \/ Advance \/ AdvanceToRest
           \/ SaveTheirSetup \/ CheckExternalChange \/ ReleaseVerified
           \/ ReleaseVerifiedFails \/ RollbackDone
           \/ WriteLogin \/ LaunchSteam \/ ReconcileLogin \/ ReconcileLoginFails
           \/ ClearActive \/ ClearActiveFails \/ DropTransaction
           \/ DropTransactionFails \/ ReleaseScratch
    PROVE  ClosedInv'
<1>0. TypeInv /\ TypeInv'
  BY CallTypeInv DEF ClosedInv
<1>a. /\ op = "Abandon" /\ pc \in ClosedSteps => pc = "rollback"
      /\ pc \in ClosedSteps /\ op # "Abandon" => ~steam
  BY DEF ClosedInv, SteamIsClosed, AbandonOnlyLooks
<1>1. CASE EnsureClosed
  BY <1>0, <1>1
  DEF EnsureClosed, ClosedInv, SteamIsClosed, UnsavedIsUntouched, PassIsSaved,
      AbandonOnlyLooks, ClosedSteps, OpenSteps, disk, PartSteps, PassSteps
<1>2. CASE Publish
  <2>1. ~steam' /\ op # "Abandon" /\ op' = op
    BY <1>2, <1>a DEF Publish, Goto, ClosedSteps, OpenSteps, Steps, FinishSteps, RestingPhases, KitPhases
  <2>2. pc' = "steam-closed" /\ rollback' = NoScratch
    BY <1>2 DEF Publish, Goto, AfterAdvance
  <2> QED
    BY <1>0, <2>1, <2>2, ClosedClosedInv
    DEF UnsavedIsUntouched, PassIsSaved, PartSteps, PassSteps
<1>3. CASE Advance
  <2>1. pc \in ClosedSteps /\ pc # "rollback"
    BY <1>3
    DEF Advance, ClosedSteps, OpenSteps, Steps, FinishSteps, Phases, BeforeKitLanded,
        RestingPhases, KitPhases
  <2>2. ~steam' /\ op # "Abandon" /\ op' = op
    BY <1>3, <1>a, <2>1 DEF Advance
  <2>3. j'.saved = j.saved
    BY <1>3, <1>0 DEF Advance, Advanced, TypeInv, TypeOK, Journal
  <2>4. UnsavedIsUntouched'
    BY <1>3, <2>3 DEF Advance, ClosedInv, UnsavedIsUntouched
  <2>5. PassIsSaved'
    <3>1. pc' \notin PartSteps
      BY <1>3, AfterAdvanceType DEF Advance
    <3>2. pc' \in {"snapshot-saved", "applying"} => pc = "snapshot-saved"
      BY <1>3 DEF Advance, AfterAdvance, Phases, BeforeKitLanded, RestingPhases, KitPhases
    <3>3. todo' # {} => pc = "applying" \/ j.saved
      BY <1>3 DEF Advance
    <3>4. pc \in {"snapshot-saved", "applying"} => j.saved
      BY DEF ClosedInv, PassIsSaved
    <3> QED
      BY <2>3, <3>1, <3>2, <3>3, <3>4 DEF PassIsSaved
  <2> QED
    BY <1>0, <2>2, <2>4, <2>5, ClosedClosedInv
<1>4. CASE AdvanceToRest
  <2>1. pc' \in OpenSteps \ {"close"}
    BY <1>4 DEF AdvanceToRest, Goto, Return, OpenSteps, FinishSteps
  <2>2. j'.saved = j.saved
    BY <1>4, <1>0 DEF AdvanceToRest, Advanced, TypeInv, TypeOK, Journal
  <2> QED
    BY <1>0, <1>4, <2>1, <2>2, OpenClosedInv DEF AdvanceToRest
<1>5. CASE SaveTheirSetup
  <2>1. ~steam' /\ op # "Abandon" /\ op' = op
    BY <1>5, <1>a DEF SaveTheirSetup, Goto, ClosedSteps, OpenSteps, Steps, FinishSteps,
       RestingPhases, KitPhases
  <2>2. j'.saved
    BY <1>5, <1>0 DEF SaveTheirSetup, TypeInv, TypeOK, Journal
  <2> QED
    BY <1>0, <2>1, <2>2, ClosedClosedInv DEF UnsavedIsUntouched, PassIsSaved
<1>6. CASE CheckExternalChange
  BY <1>0, <1>6, <1>a
  DEF CheckExternalChange, Goto, disk, ClosedInv, SteamIsClosed, UnsavedIsUntouched,
      PassIsSaved, AbandonOnlyLooks, ClosedSteps, OpenSteps, Steps, FinishSteps,
      RestingPhases, KitPhases, PartSteps, PassSteps
<1>7. CASE ReleaseVerified \/ ReleaseVerifiedFails
  <2>1. rollback = NoScratch => rollback' = NoScratch
    BY <1>7, RemainsType DEF ReleaseVerified, ReleaseVerifiedFails, NoScratch
  <2>2. ~steam' /\ op # "Abandon" /\ op' = op /\ pc' = "restoring"
    BY <1>7, <1>a
    DEF ReleaseVerified, ReleaseVerifiedFails, Goto, ClosedSteps, OpenSteps, Steps,
        FinishSteps, RestingPhases, KitPhases
  <2>3. UNCHANGED <<active, j>>
    BY <1>7 DEF ReleaseVerified, ReleaseVerifiedFails
  <2> QED
    BY <1>0, <2>1, <2>2, <2>3, ClosedClosedInv
    DEF ClosedInv, UnsavedIsUntouched, PassIsSaved, PartSteps, PassSteps
<1>8. CASE RollbackDone
  <2>1. j'.saved = j.saved /\ UNCHANGED <<active, rollback, steam>>
    BY <1>8, <1>0 DEF RollbackDone, TypeInv, TypeOK, Journal
  <2>2. CASE op = "RestoreTheirs"
    <3>1. ~steam /\ op' = op /\ pc' = "release-verified"
      BY <1>8, <1>a, <2>2, StepsApart DEF RollbackDone, Goto, RollbackSteps
    <3> QED
      BY <1>0, <2>1, <2>2, <3>1, ClosedClosedInv
      DEF ClosedInv, UnsavedIsUntouched, PassIsSaved, PartSteps, PassSteps
  <2>3. CASE op # "RestoreTheirs"
    <3>1. pc' \in OpenSteps \ {"close"}
      BY <1>8, <2>3 DEF RollbackDone, Goto, OpenSteps, RestingPhases, KitPhases, FinishSteps
    <3> QED
      BY <1>0, <2>1, <3>1, OpenClosedInv
  <2> QED
    BY <2>2, <2>3
<1>9. CASE WriteLogin
  BY <1>0, <1>9, <1>a
  DEF WriteLogin, Goto, ClosedInv, SteamIsClosed, UnsavedIsUntouched, PassIsSaved,
      AbandonOnlyLooks, ClosedSteps, OpenSteps, Steps, FinishSteps, RestingPhases,
      KitPhases, PartSteps, PassSteps
<1>10. CASE LaunchSteam \/ ReconcileLogin \/ ReconcileLoginFails
  <2>1. pc' \in OpenSteps \ {"close"} /\ UNCHANGED <<active, j, rollback>>
    BY <1>10
    DEF LaunchSteam, ReconcileLogin, ReconcileLoginFails, Goto, Return, disk,
        OpenSteps, RestingPhases, KitPhases
  <2> QED
    BY <1>0, <2>1, OpenClosedInv
<1>11. CASE ClearActive \/ ClearActiveFails \/ DropTransaction \/ DropTransactionFails
  <2>1. pc' \in OpenSteps \ {"close"}
    BY <1>11 DEF ClearActive, ClearActiveFails, DropTransaction, DropTransactionFails,
       Goto, OpenSteps, FinishSteps
  <2>2. \/ active' = FALSE
        \/ UNCHANGED <<active, j, rollback>>
    BY <1>11 DEF ClearActive, ClearActiveFails, DropTransaction, DropTransactionFails,
       Forget, disk
  <2> QED
    BY <1>0, <2>1, <2>2, OpenClosedInv
<1>12. CASE ReleaseScratch
  BY <1>0, <1>12, OpenClosedInv DEF ReleaseScratch, Return, OpenSteps
<1> QED
  BY <1>1, <1>2, <1>3, <1>4, <1>5, <1>6, <1>7, <1>8, <1>9, <1>10, <1>11, <1>12

\* A pass and a rollback go on with Steam closed.
LEMMA PassClosedInv ==
    ASSUME ClosedInv,
           \/ \E p \in Parts : StartPart(p) \/ SkipPart(p)
           \/ Stage \/ StageShort \/ LogStaged \/ ClearRollback \/ MoveAside
           \/ LogOldMoved \/ Install \/ LogInstalled \/ LogVerified \/ VerifyFails
           \/ ReleaseRollback \/ ReleaseRollbackFails \/ RecordPass
    PROVE  ClosedInv'
<1>0. TypeInv /\ TypeInv'
  BY PassTypeInv DEF ClosedInv
<1>1. CASE VerifyFails
  BY <1>0, <1>1, OpenClosedInv DEF VerifyFails, Return, disk, OpenSteps
<1>2. CASE ~VerifyFails
  <2>1. pc \in PartSteps \cup {"next-part"} /\ op' = op /\ steam' = steam
    BY <1>2
    DEF StartPart, SkipPart, Stage, StageShort, StageCopy, LogStaged, ClearRollback,
        MoveAside, LogOldMoved, Install, LogInstalled, LogVerified, LogPart,
        ReleaseRollback, ReleaseRollbackFails, Release, RecordPass, Goto,
        PartSteps, PassSteps
  <2>2. op # "Abandon" /\ ~steam
    BY <2>1, StepsApart DEF ClosedInv, SteamIsClosed, AbandonOnlyLooks, RollbackSteps
  <2>3. j'.saved = j.saved /\ active' = active
    BY <1>0, <1>2
    DEF StartPart, SkipPart, Stage, StageShort, StageCopy, LogStaged, ClearRollback,
        MoveAside, LogOldMoved, Install, LogInstalled, LogVerified, LogPart,
        ReleaseRollback, ReleaseRollbackFails, Release, RecordPass, disk,
        TypeInv, TypeOK, Journal
  <2>4. CASE RecordPass
    <3>1. pc' \in {"kit-applied", "setup-restored"} /\ rollback' = rollback
      BY <2>4 DEF RecordPass, Goto
    <3> QED
      BY <1>0, <2>1, <2>2, <2>3, <3>1, ClosedClosedInv
      DEF ClosedInv, UnsavedIsUntouched, PassIsSaved, PartSteps, PassSteps
  <2>5. CASE ~RecordPass
    <3>1. CASE \E p \in Parts : SkipPart(p)
      BY <1>0, <2>1, <2>2, <2>3, <3>1, ClosedClosedInv
      DEF SkipPart, disk, ClosedInv, UnsavedIsUntouched, PassIsSaved, PartSteps, PassSteps
    <3>2. CASE \E p \in Parts : StartPart(p)
      BY <1>0, <2>1, <2>2, <2>3, <3>2, ClosedClosedInv
      DEF StartPart, disk, ClosedInv, UnsavedIsUntouched, PassIsSaved, PartSteps, PassSteps
    <3>3. CASE ~\E p \in Parts : StartPart(p) \/ SkipPart(p)
      <4>1. pc \in PartSteps
        BY <1>2, <2>5, <3>3
        DEF Stage, StageShort, StageCopy, LogStaged, ClearRollback, MoveAside,
            LogOldMoved, Install, LogInstalled, LogVerified, LogPart, ReleaseRollback,
            ReleaseRollbackFails, Release, PartSteps, PassSteps
      <4>2. j.saved
        BY <4>1 DEF ClosedInv, PassIsSaved
      <4> QED
        BY <1>0, <2>1, <2>2, <2>3, <4>2, ClosedClosedInv
        DEF UnsavedIsUntouched, PassIsSaved
    <3> QED
      BY <3>1, <3>2, <3>3
  <2> QED
    BY <2>4, <2>5
<1> QED
  BY <1>1, <1>2

\* Faults, the world and recoveries do not open Steam under a pass.
LEMMA OtherClosedInv ==
    ASSUME ClosedInv,
           \/ \E p \in Parts : NothingMoved(p) \/ RemoveInstalled(p)
           \/ PutBack \/ Interrupt \/ World
    PROVE  ClosedInv'
<1>0. TypeInv /\ TypeInv'
  BY OtherTypeInv DEF ClosedInv
<1>1. ASSUME NEW p \in Parts, NothingMoved(p)
      PROVE  ClosedInv'
  BY <1>0, <1>1
  DEF NothingMoved, disk, ClosedInv, SteamIsClosed, UnsavedIsUntouched, PassIsSaved,
      AbandonOnlyLooks
<1>2. ASSUME NEW p \in Parts, RemoveInstalled(p)
      PROVE  ClosedInv'
  <2>1. op # "Abandon" /\ ~steam
    <3>1. active /\ ~j.saved => rollback[p] = "absent"
      BY DEF ClosedInv, UnsavedIsUntouched, NoScratch
    <3> QED
      BY <1>2, <3>1, StepsApart
      DEF RemoveInstalled, ClosedInv, SteamIsClosed, AbandonOnlyLooks, RollbackSteps
  <2> QED
    BY <1>0, <1>2, <2>1, StepsApart, ClosedClosedInv
    DEF RemoveInstalled, ClosedInv, UnsavedIsUntouched, PassIsSaved, RollbackSteps
<1>3. CASE PutBack
  <2>1. op # "Abandon" /\ ~steam
    BY <1>3, StepsApart DEF PutBack, ClosedInv, SteamIsClosed, AbandonOnlyLooks, RollbackSteps
  <2>2. rollback = NoScratch => rollback' = NoScratch
    BY <1>3 DEF PutBack, NoScratch
  <2> QED
    BY <1>0, <1>3, <2>1, <2>2, StepsApart, ClosedClosedInv
    DEF PutBack, ClosedInv, UnsavedIsUntouched, PassIsSaved, RollbackSteps
<1>4. CASE Interrupt
  <2>1. rollback' = rollback \/ j.saved \/ rollback # NoScratch
    <3>1. CASE pc \in {"clear-rollback", "move-aside"}
      BY <3>1 DEF ClosedInv, PassIsSaved, PartSteps, PassSteps
    <3>2. CASE pc = "put-back"
      <4>1. CASE at \in Parts
        BY <1>4, <3>2, <4>1 DEF Interrupt, CutShort, NoScratch
      <4>2. CASE at \notin Parts
        BY <1>0, <1>4, <3>2, <4>2 DEF Interrupt, CutShort, TypeInv, TypeOK
      <4> QED
        BY <4>1, <4>2
    <3>3. CASE pc \notin {"clear-rollback", "move-aside", "put-back"}
      BY <1>4, <3>3 DEF Interrupt, CutShort
    <3> QED
      BY <3>1, <3>2, <3>3
  <2> QED
    BY <1>0, <1>4, <2>1, OpenClosedInv DEF Interrupt, Return, OpenSteps
<1>5. CASE World
  <2>1. steam' = steam \/ pc = "idle"
    BY <1>0, <1>5 DEF World, UserTogglesSteam, UserSignsIn, Play, TypeInv, IdleIsIdle
  <2>2. UNCHANGED <<rollback, active, j, op, pc, todo>>
    BY <1>5 DEF World, UserTogglesSteam, UserSignsIn, Play, disk, memory
  <2> QED
    BY <1>0, <2>1, <2>2
    DEF ClosedInv, SteamIsClosed, UnsavedIsUntouched, PassIsSaved, AbandonOnlyLooks,
        ClosedSteps, OpenSteps
<1> QED
  BY <1>1, <1>2, <1>3, <1>4, <1>5

\* Every step keeps Steam closed where the engine relies on it.
LEMMA NextClosedInv ==
    ASSUME ~AnyAnswer, ClosedInv, [Next]_vars
    PROVE  ClosedInv'
<1>1. CASE UNCHANGED vars
  BY <1>1, NextTypeInv
  DEF vars, disk, memory, ClosedInv, SteamIsClosed, UnsavedIsUntouched, PassIsSaved,
      AbandonOnlyLooks
<1>2. CASE Next
  BY <1>2, BeginsClosedInv, CallClosedInv, PassClosedInv, OtherClosedInv
  DEF Next, EngineStep, Fault
<1> QED
  BY <1>1, <1>2

\* Steam is closed at every step that relies on it, in every reachable state.
LEMMA ClosedInvariant ==
    ASSUME ~AnyAnswer PROVE Spec => []ClosedInv
  BY InitClosedInv, NextClosedInv, PTL DEF Spec

\* The only steps that change what is in the account.
LEMMA LiveWriters ==
    ASSUME TypeOK, Next, live' # live
    PROVE  \/ \E p \in Parts : Play(p)
           \/ pc \in {"move-aside", "install", "put-back"}
           \/ pc = "rollback" /\ \E p \in Parts : rollback[p] # "absent"
<1>1. CASE Begins \/ Resolve
  BY <1>1
  DEF Begins, BeginEnter, BeginPlainSwitch, BeginLeave, Resolve, ResolveRestoreTheirs,
      ResolveKeepCurrent, ResolveAcceptCurrent, ResolveAbandon, Begin, disk
<1>2. CASE EngineStep
  BY <1>2
  DEF EngineStep, EnsureClosed, Publish, Advance, AdvanceToRest, SaveTheirSetup, StartPart,
      SkipPart, NothingMoved, RemoveInstalled, Stage, StageCopy, LogStaged, ClearRollback,
      MoveAside, LogOldMoved, Install, LogInstalled, LogVerified, LogPart, VerifyFails,
      ReleaseRollback, Release, RecordPass, CheckExternalChange, ReleaseVerified, PutBack,
      RollbackDone, WriteLogin, LaunchSteam, ReconcileLogin, ClearActive, DropTransaction,
      ReleaseScratch, disk
<1>3. CASE Fault /\ ~Interrupt
  BY <1>3
  DEF Fault, StageShort, StageCopy, ReleaseRollbackFails, Release, ReleaseVerifiedFails,
      ReconcileLoginFails, ClearActiveFails, DropTransactionFails, disk
<1>4. CASE Interrupt
  BY <1>4 DEF Interrupt, CutShort, TypeOK
<1>5. CASE World
  BY <1>5 DEF World, UserTogglesSteam, UserSignsIn, Play, disk
<1> QED
  BY <1>1, <1>2, <1>3, <1>4, <1>5 DEF Next

(* ensureClosed: with the answers the dialog offers, the engine mutates no *)
(* part of the shared account while Steam or a game runs; only the game    *)
(* and Steam Cloud do (Enter, Leave, Resolve: engine.go, recovery.go).     *)
THEOREM EngineWritesOnlyWhenClosed ==
    ASSUME ~AnyAnswer PROVE Spec => WritesOnlyWhenClosed
<1>1. ASSUME ClosedInv, [Next]_vars, steam, op # "idle", live' # live
      PROVE  \E p \in Parts : Play(p)
  <2>1. Next /\ TypeOK
    BY <1>1 DEF vars, disk, ClosedInv, TypeInv
  <2>2. CASE pc \in {"move-aside", "install", "put-back"}
    BY <1>1, <2>2, StepsApart
    DEF ClosedInv, SteamIsClosed, AbandonOnlyLooks, PartSteps, PassSteps, RollbackSteps
  <2>3. CASE pc = "rollback" /\ \E p \in Parts : rollback[p] # "absent"
    <3>1. op = "Abandon" /\ active /\ ~j.saved
      BY <1>1, <2>3, StepsApart DEF ClosedInv, SteamIsClosed, AbandonOnlyLooks, RollbackSteps
    <3>2. rollback = NoScratch
      BY <1>1, <3>1 DEF ClosedInv, UnsavedIsUntouched
    <3> QED
      BY <2>3, <3>2 DEF NoScratch
  <2> QED
    BY <1>1, <2>1, <2>2, <2>3, LiveWriters
<1>2. ClosedInv /\ [Next]_vars
        => [steam /\ op # "idle" /\ live' # live => \E p \in Parts : Play(p)]_vars
  BY <1>1
<1> QED
  BY <1>2, ClosedInvariant, PTL DEF Spec, WritesOnlyWhenClosed

-----------------------------------------------------------------------------
(* The calls and their journal.                                            *)

\* Where each call may be.
CallAt ==
    /\ op = "idle" => pc = "idle"
    /\ pc \in BeforeKitLanded \cup {"publish", "save-theirs", "kit-applied",
              "swapping-login", "launching", "kit-active"} => op = "Enter"
    /\ pc = "leave-planned" => op \in {"Leave", "LeaveKeepMine"}
    /\ pc \in {"closing-steam-for-restore", "restore-checking", "check",
               "external-change-blocked"} => op = "Leave"
    /\ pc \in {"swapping-login-after-restore", "launching-after-restore"}
           => op \in {"Leave", "LeaveKeepMine"}
    /\ pc \in {"release-verified", "restoring", "setup-restored", "complete"}
           => op \in {"Leave", "RestoreTheirs"}
    /\ pc \in PassSteps => op \in {"Enter", "Leave", "RestoreTheirs"}
    /\ pc \in RollbackSteps => op \in {"RestoreTheirs", "KeepCurrent", "Abandon"}
    /\ pc = "kept-active" => op \in {"KeepCurrent", "LeaveKeepMine"}
    /\ pc = "reconcile-login" => op = "RestoreTheirs"
    /\ pc \in FinishSteps => op \in {"Leave", "RestoreTheirs", "KeepCurrent",
                                     "AcceptCurrent", "Abandon"}
    /\ pc = "login-swapped" => op \in {"Enter", "Leave", "LeaveKeepMine"}
    /\ pc \in {"write-login", "launch"}
           => op \in {"Enter", "Leave", "LeaveKeepMine", "plainSwitch"}
    /\ pc = "close" => op \notin {"AcceptCurrent", "Abandon"}
    /\ pc # "planned"

\* A journal names a visit that is not over.
Open == active /\ j.phase # "complete"

\* Phases in which the setup may not have been saved yet.
Opening == {"planned", "steam-closed", "snapshotting"}

\* The steps of a call that works under its journal.
Working == /\ op \notin {"idle", "plainSwitch"}
           /\ ~(op = "Enter" /\ pc \in {"close", "publish"})
           /\ pc \notin FinishSteps

\* The steps after which an interruption blocks the app.
LateSteps == {"kit-applied", "swapping-login", "setup-restored",
    "swapping-login-after-restore", "write-login", "login-swapped", "launching",
    "launching-after-restore", "launch", "reconcile-login", "complete"}

\* What the journal says at each step of a call.
JournalAt ==
    /\ active /\ j.phase \notin Opening => j.saved
    /\ op = "Enter" /\ pc \in {"close", "publish"} => ~Open
    /\ Working => Open
    /\ Working /\ op # "Abandon"
       /\ pc \notin {"steam-closed", "snapshotting", "save-theirs"} => j.saved
    /\ pc \in {"steam-closed", "snapshotting", "save-theirs"}
           => j.phase \in Opening /\ ~j.saved
    /\ pc = "save-theirs" => j.phase = "snapshotting"
    /\ pc \in {"snapshot-saved", "applying"}
           => j.phase \in {"snapshotting", "snapshot-saved"}
    /\ pc \in PassSteps
           => j.phase = (IF op = "Enter" THEN "applying" ELSE "restoring")
    /\ pc \in RollbackSteps \/ (pc = "close" /\ op \in {"RestoreTheirs", "KeepCurrent"})
           => Interrupted \/ (op = "RestoreTheirs" /\ ExternalChange)
    /\ pc \in LateSteps /\ op # "plainSwitch" => Interrupted
    /\ pc \in FinishSteps /\ active =>
         /\ op \in {"Leave", "RestoreTheirs"} => j.phase = "complete"
         /\ op = "KeepCurrent"   => j.saved /\ j.phase \in BeforeKitLanded
         /\ op = "AcceptCurrent" => ExternalChange /\ accepted
         /\ op = "Abandon"       => Interrupted /\ ~j.saved

CallInv == ClosedInv /\ CallAt /\ JournalAt

-----------------------------------------------------------------------------
(* Passes and rollbacks.                                                   *)

\* A kit has content for a part or has nothing for it.
KitIsAKit == active => j.kit \in [Parts -> {"kit", "empty"}]

\* The pass has left a part as its source has it.
Landed(p) == IF SrcAbsent(p) THEN Applying \/ live[p] = "absent"
                             ELSE live[p] = Source(p)

\* The pass has not yet moved a part aside.
Ahead(p) == /\ p \in todo
            /\ p = at => pc \in {"next-part", "stage", "log-staged",
                                 "clear-rollback", "move-aside"}

PassDone ==
    pc \in PassSteps =>
        /\ \A p \in Parts \ todo : Landed(p)
        /\ pc \in PartSteps => at \in todo /\ ~(Applying /\ SrcAbsent(at))
        /\ pc \in {"log-old-moved", "install"} => live[at] = "absent"
        /\ pc \in {"log-installed", "verify"} /\ SrcAbsent(at) => live[at] = "absent"
        /\ pc = "release-rollback" => Landed(at)

\* Once the pass is over everything is where it is to be.
LandedSteps == {"kit-applied", "swapping-login", "setup-restored",
    "swapping-login-after-restore", "write-login"}
AllLanded ==
    pc \in LandedSteps /\ op \in {"Enter", "Leave", "RestoreTheirs"}
        => \A p \in Parts : Landed(p)

\* Enter replaces a part once, and nothing of it was ever moved aside.
EnterOnce ==
    op = "Enter" /\ pc \in PassSteps =>
        /\ \A p \in todo : /\ Ahead(p) => rollback[p] = "absent"
                           /\ (p = at => pc # "release-rollback")
                                  => j.part[p] # "verified"
        /\ pc \in {"log-old-moved", "install", "log-installed", "verify"}
               => rollback[at] # "absent"
        /\ pc = "release-rollback" => j.part[at] = "verified"

\* Until a pass starts nothing has been moved aside and nothing recorded.
Fresh == active /\ j.phase \in BeforeKitLanded \ {"applying"}
            => j.part = AllPending /\ rollback = NoScratch

RollbackGoes ==
    pc \in RollbackSteps =>
        /\ todo \subseteq Incomplete
        /\ \A p \in Incomplete \ todo : rollback[p] = "absent"
        /\ pc = "put-back" => at \in todo /\ rollback[at] # "absent"

\* A part recorded as verified carries the kit while the kit is landing.
VerifiedIsKit ==
    active /\ j.phase \in BeforeKitLanded =>
        \A p \in Parts : j.part[p] = "verified" => live[p] \in Overlay

KeptHasSome ==
    op = "KeepCurrent" /\ pc = "kept-active" /\ j.phase \in BeforeKitLanded
        => HasCompletedWrites

PassInv == /\ KitIsAKit /\ PassDone /\ AllLanded /\ EnterOnce /\ Fresh
           /\ RollbackGoes /\ VerifiedIsKit /\ KeptHasSome

-----------------------------------------------------------------------------
(* What the trees are to the owner.                                        *)

\* A tree that gives the owner back what was saved, or what they made of it.
Back(t, p) == SameSetup(t, j.theirs[p]) \/ t = "edited"

\* What a rollback would leave of a part.
Undone(p) == CASE rollback[p] = "absent" -> live[p]
               [] rollback[p] = "marker" -> "absent"
               [] OTHER                  -> rollback[p]

SnapshotMatches == active /\ j.saved => \A p \in Parts : SameSetup(j.theirs[p], orig[p])
SnapshotIsOwn   == active /\ j.saved /\ ~accepted =>
                      \A p \in Parts : j.theirs[p] \notin Overlay \cup {"torn"}

\* While the kit is landing, a part that is not verified can be rolled back.
CanUndo ==
    active /\ j.saved /\ ~accepted /\ j.phase \in BeforeKitLanded =>
        \A p \in Parts : j.part[p] # "verified" => Back(Undone(p), p)

\* A call about to close the visit has given everything back.
GivenBack ==
    /\ active /\ ~accepted
    /\ \/ op \in {"Leave", "RestoreTheirs"}
          /\ pc \in LandedSteps \cup {"reconcile-login", "login-swapped",
                 "launching-after-restore", "launch", "complete"}
       \/ op = "KeepCurrent" /\ pc \in FinishSteps
    => \A p \in Parts : Back(live[p], p)

LoanInv == SnapshotMatches /\ SnapshotIsOwn /\ CanUndo /\ GivenBack /\ NothingStranded

KitInv == CallInv /\ PassInv /\ LoanInv

-----------------------------------------------------------------------------
(* CallInv.                                                                *)

\* Before the first call.
LEMMA InitCall == Init => CallInv
  BY InitClosedInv
  DEF Init, NoJournal, NewJournal, CallInv, CallAt, JournalAt, Open, Opening, Working, LateSteps,
      PassSteps, RollbackSteps, FinishSteps, BeforeKitLanded

\* A call begins where its journal lets it.
LEMMA BeginsCall ==
    ASSUME ~AnyAnswer, CallInv, Begins \/ Resolve
    PROVE  CallAt' /\ JournalAt'
<1> USE DEF CallInv, CallAt, JournalAt, Open, Opening, Working, LateSteps, PassSteps,
            RollbackSteps, FinishSteps, BeforeKitLanded, Begin, disk, Interrupted,
            ExternalChange, KitOn, RestingPhases, KitPhases
<1>1. CASE BeginEnter
  BY <1>1 DEF BeginEnter, MaySwitchTo, ghosts
<1>2. ASSUME NEW a \in Accounts, BeginPlainSwitch(a)
      PROVE  CallAt' /\ JournalAt'
  BY <1>2 DEF BeginPlainSwitch, MaySwitchTo, ghosts
<1>3. ASSUME NEW a \in Accounts, NEW call \in {"Leave", "LeaveKeepMine"},
             BeginLeave(a, call)
      PROVE  CallAt' /\ JournalAt'
  BY <1>3 DEF BeginLeave, ghosts
<1>4. CASE ResolveRestoreTheirs
  BY <1>4 DEF ResolveRestoreTheirs, Offered, ghosts
<1>5. CASE ResolveKeepCurrent
  BY <1>5 DEF ResolveKeepCurrent, Offered, ghosts
<1>6. CASE ResolveAcceptCurrent
  BY <1>6 DEF ResolveAcceptCurrent
<1>7. CASE ResolveAbandon
  BY <1>7 DEF ResolveAbandon, Offered, ghosts
<1> QED
  BY <1>1, <1>2, <1>3, <1>4, <1>5, <1>6, <1>7 DEF Begins, Resolve
\* A call outside a pass goes from step to step with its journal.
LEMMA StepsCall ==
    ASSUME CallInv,
           \/ EnsureClosed \/ Publish \/ Advance \/ AdvanceToRest
           \/ SaveTheirSetup \/ CheckExternalChange \/ ReleaseVerified
           \/ ReleaseVerifiedFails \/ RollbackDone
           \/ WriteLogin \/ LaunchSteam \/ ReconcileLogin \/ ReconcileLoginFails
           \/ ClearActive \/ ClearActiveFails \/ DropTransaction
           \/ DropTransactionFails \/ ReleaseScratch
    PROVE  CallAt' /\ JournalAt'
<1> USE DEF CallInv, CallAt, JournalAt, Open, Opening, Working, LateSteps, PassSteps,
            RollbackSteps, FinishSteps, BeforeKitLanded, Goto, Return, disk, ghosts,
            Interrupted, ExternalChange, RestingPhases, KitPhases
<1>0. j \in Journal /\ op \in Ops /\ AbandonOnlyLooks
  BY DEF ClosedInv, TypeInv, TypeOK
<1>1. CASE EnsureClosed
  BY <1>0, <1>1 DEF EnsureClosed, Ops
<1>2. CASE Publish
  <2>1. PICK kit : j' = NewJournal(kit, login)
    BY <1>2 DEF Publish
  <2>2. j'.phase = "planned" /\ ~j'.saved
    BY <2>1 DEF NewJournal
  <2> QED
    BY <1>2, <2>2 DEF Publish, AfterAdvance
<1>3. CASE Advance
  <2>1. j'.phase = pc /\ j'.saved = j.saved
    BY <1>0, <1>3 DEF Advance, Advanced, Journal
  <2>2. pc' = AfterAdvance(pc) /\ UNCHANGED <<op, active, accepted>>
    BY <1>3 DEF Advance
  <2>3. pc \in Phases \ RestingPhases
    BY <1>3 DEF Advance
  <2> QED
    BY <2>1, <2>2, <2>3 DEF Phases, AfterAdvance
<1>4. CASE AdvanceToRest
  <2>1. j'.phase = pc /\ j'.saved = j.saved
    BY <1>0, <1>4 DEF AdvanceToRest, Advanced, Journal
  <2> QED
    BY <1>4, <2>1 DEF AdvanceToRest
<1>5. CASE SaveTheirSetup
  <2>1. j'.phase = j.phase /\ j'.saved
    BY <1>0, <1>5 DEF SaveTheirSetup, Journal
  <2> QED
    BY <1>5, <2>1 DEF SaveTheirSetup
<1>6. CASE CheckExternalChange
  BY <1>6 DEF CheckExternalChange
<1>7. CASE ReleaseVerified
  BY <1>7 DEF ReleaseVerified
<1>8. CASE ReleaseVerifiedFails
  BY <1>8 DEF ReleaseVerifiedFails
<1>9. CASE RollbackDone
  <2>1. j'.phase = j.phase /\ j'.saved = j.saved
    BY <1>0, <1>9 DEF RollbackDone, Journal
  <2> QED
    BY <1>0, <1>9, <2>1, StepsApart DEF RollbackDone, NothingLanded, AbandonOnlyLooks
<1>10. CASE WriteLogin
  BY <1>10 DEF WriteLogin
<1>11. CASE LaunchSteam
  BY <1>11 DEF LaunchSteam
<1>12. CASE ReconcileLogin \/ ReconcileLoginFails
  BY <1>12 DEF ReconcileLogin, ReconcileLoginFails
<1>13. CASE ClearActive \/ ClearActiveFails \/ DropTransaction \/ DropTransactionFails
  BY <1>13 DEF ClearActive, ClearActiveFails, DropTransaction, DropTransactionFails, Forget
<1>14. CASE ReleaseScratch
  BY <1>14 DEF ReleaseScratch
<1> QED
  BY <1>1, <1>2, <1>3, <1>4, <1>5, <1>6, <1>7, <1>8, <1>9, <1>10, <1>11, <1>12, <1>13, <1>14

\* A pass keeps its journal's phase; so does the world, and a crash ends the call.
LEMMA PassCall ==
    ASSUME CallInv,
           \/ \E p \in Parts : StartPart(p) \/ SkipPart(p)
           \/ Stage \/ StageShort \/ LogStaged \/ ClearRollback \/ MoveAside
           \/ LogOldMoved \/ Install \/ LogInstalled \/ LogVerified \/ VerifyFails
           \/ ReleaseRollback \/ ReleaseRollbackFails \/ RecordPass
    PROVE  CallAt' /\ JournalAt'
<1> USE DEF CallInv, CallAt, JournalAt, Open, Opening, Working, LateSteps, PassSteps,
            RollbackSteps, FinishSteps, BeforeKitLanded, Goto, Return, disk, ghosts,
            Interrupted, ExternalChange, RestingPhases, KitPhases
<1>0. j \in Journal
  BY DEF ClosedInv, TypeInv, TypeOK
<1>1. ASSUME NEW p \in Parts, StartPart(p) \/ SkipPart(p)
      PROVE  CallAt' /\ JournalAt'
  BY <1>1 DEF StartPart, SkipPart
<1>2. CASE Stage \/ StageShort
  BY <1>2 DEF Stage, StageShort, StageCopy
<1>3. CASE LogStaged \/ LogOldMoved \/ LogInstalled \/ LogVerified
  <2>1. j'.phase = j.phase /\ j'.saved = j.saved
    BY <1>0, <1>3 DEF LogStaged, LogOldMoved, LogInstalled, LogVerified, LogPart, Journal
  <2> QED
    BY <1>3, <2>1 DEF LogStaged, LogOldMoved, LogInstalled, LogVerified, LogPart
<1>4. CASE ClearRollback \/ MoveAside \/ Install
  BY <1>4 DEF ClearRollback, MoveAside, Install
<1>5. CASE VerifyFails
  BY <1>5 DEF VerifyFails
<1>6. CASE ReleaseRollback \/ ReleaseRollbackFails
  BY <1>6 DEF ReleaseRollback, ReleaseRollbackFails, Release
<1>7. CASE RecordPass
  <2>1. j'.phase = j.phase /\ j'.saved = j.saved
    BY <1>0, <1>7 DEF RecordPass, Journal
  <2> QED
    BY <1>7, <2>1 DEF RecordPass, Applying
<1> QED
  BY <1>1, <1>2, <1>3, <1>4, <1>5, <1>6, <1>7

\* Rolling back, dying and the world leave the journal alone.
LEMMA OtherCall ==
    ASSUME CallInv,
           \/ \E p \in Parts : NothingMoved(p) \/ RemoveInstalled(p)
           \/ PutBack \/ Interrupt \/ World
    PROVE  CallAt' /\ JournalAt'
<1> USE DEF CallInv, CallAt, JournalAt, Open, Opening, Working, LateSteps, PassSteps,
            RollbackSteps, FinishSteps, BeforeKitLanded, Return, disk, memory, ghosts,
            Interrupted, ExternalChange, RestingPhases, KitPhases
<1>1. ASSUME NEW p \in Parts, NothingMoved(p) \/ RemoveInstalled(p)
      PROVE  CallAt' /\ JournalAt'
  BY <1>1 DEF NothingMoved, RemoveInstalled
<1>2. CASE PutBack
  BY <1>2 DEF PutBack
<1>3. CASE Interrupt
  BY <1>3 DEF Interrupt
<1>4. CASE World
  BY <1>4 DEF World, UserTogglesSteam, UserSignsIn, Play
<1> QED
  BY <1>1, <1>2, <1>3, <1>4

\* Every step leaves a call where its journal says it is.
LEMMA NextCall ==
    ASSUME ~AnyAnswer, CallInv, [Next]_vars
    PROVE  CallInv'
<1>1. ClosedInv'
  BY NextClosedInv DEF CallInv
<1>2. CASE UNCHANGED vars
  BY <1>1, <1>2
  DEF vars, disk, memory, ghosts, CallInv, CallAt, JournalAt, Open, Working, Interrupted,
      ExternalChange
<1>3. CASE Next
  BY <1>1, <1>3, BeginsCall, StepsCall, PassCall, OtherCall
  DEF Next, EngineStep, Fault, CallInv
<1> QED
  BY <1>2, <1>3
-----------------------------------------------------------------------------
(* PassInv.                                                                *)

\* Before the first call.
LEMMA InitPass == Init => PassInv
  BY DEF Init, PassInv, KitIsAKit, PassDone, AllLanded, EnterOnce, Fresh, RollbackGoes,
         VerifiedIsKit, KeptHasSome, PassSteps, RollbackSteps, LandedSteps

\* A step that leaves the trees and the journal, and is not on its way into a pass.
LEMMA QuietPass ==
    ASSUME PassInv, UNCHANGED <<live, rollback, active, j>>,
           pc' \notin PassSteps \cup RollbackSteps \cup LandedSteps,
           ~(op' = "KeepCurrent" /\ pc' = "kept-active")
    PROVE  PassInv'
  BY DEF PassInv, KitIsAKit, PassDone, AllLanded, EnterOnce, Fresh, RollbackGoes,
         VerifiedIsKit, KeptHasSome

\* A call begins, outside any pass.
LEMMA BeginsPass ==
    ASSUME ~AnyAnswer, CallInv, PassInv, Begins \/ Resolve
    PROVE  PassInv'
<1> USE DEF PassSteps, RollbackSteps, LandedSteps, Begin, disk
<1>1. CASE BeginEnter
  BY <1>1, QuietPass DEF BeginEnter
<1>2. ASSUME NEW a \in Accounts, BeginPlainSwitch(a)
      PROVE  PassInv'
  BY <1>2, QuietPass DEF BeginPlainSwitch
<1>3. ASSUME NEW a \in Accounts, NEW call \in {"Leave", "LeaveKeepMine"},
             BeginLeave(a, call)
      PROVE  PassInv'
  BY <1>3, QuietPass DEF BeginLeave
<1>4. CASE ResolveRestoreTheirs
  BY <1>4, QuietPass DEF ResolveRestoreTheirs
<1>5. CASE ResolveKeepCurrent
  <2>1. CASE ExternalChange
    <3>1. j.phase \notin BeforeKitLanded
      BY <2>1 DEF ExternalChange, BeforeKitLanded
    <3> QED
      BY <1>5, <2>1, <3>1
      DEF ResolveKeepCurrent, PassInv, KitIsAKit, PassDone, AllLanded, EnterOnce, Fresh,
          RollbackGoes, VerifiedIsKit, KeptHasSome
  <2>2. CASE ~ExternalChange
    BY <1>5, <2>2, QuietPass DEF ResolveKeepCurrent
  <2> QED
    BY <2>1, <2>2
<1>6. CASE ResolveAcceptCurrent
  BY <1>6, QuietPass DEF ResolveAcceptCurrent
<1>7. CASE ResolveAbandon
  BY <1>7
  DEF ResolveAbandon, Incomplete, PassInv, KitIsAKit, PassDone, AllLanded, EnterOnce, Fresh,
      RollbackGoes, VerifiedIsKit, KeptHasSome
<1> QED
  BY <1>1, <1>2, <1>3, <1>4, <1>5, <1>6, <1>7 DEF Begins, Resolve

\* What the journal of a new visit says.
LEMMA PublishedJournal ==
    ASSUME Publish
    PROVE  /\ j' \in [phase : {"planned"}, part : {AllPending}, from : {login},
                      leaveTo : {NoAccount}, saved : {FALSE},
                      theirs : {[p \in Parts |-> "absent"]},
                      kit : [Parts -> {"kit", "empty"}], applied : {{}}]
  <1>1. PICK kit \in KitSources : j' = NewJournal(kit, login)
    BY DEF Publish
  <1>2. kit \in [Parts -> {"kit", "empty"}]
    BY DEF KitSources
  <1> QED
    BY <1>1, <1>2 DEF NewJournal

\* Advancing changes the phase, the part states before a pass, and the leave target.
LEMMA AdvancedJournal ==
    ASSUME j \in Journal, Advance \/ AdvanceToRest
    PROVE  /\ j'.phase = pc
           /\ j'.part = IF pc \in {"applying", "restoring"} THEN AllPending ELSE j.part
           /\ j'.saved = j.saved /\ j'.theirs = j.theirs
           /\ j'.kit = j.kit /\ j'.applied = j.applied
  BY DEF Advance, AdvanceToRest, Advanced, Journal

\* The steps of a call outside a pass.
LEMMA StepsPass ==
    ASSUME CallInv, CallInv', PassInv,
           \/ EnsureClosed \/ Publish \/ Advance \/ AdvanceToRest
           \/ SaveTheirSetup \/ CheckExternalChange \/ ReleaseVerified
           \/ ReleaseVerifiedFails \/ RollbackDone
           \/ WriteLogin \/ LaunchSteam \/ ReconcileLogin \/ ReconcileLoginFails
           \/ ClearActive \/ ClearActiveFails \/ DropTransaction
           \/ DropTransactionFails \/ ReleaseScratch
    PROVE  PassInv'
<1> USE DEF PassSteps, RollbackSteps, LandedSteps, Goto, Return, disk
<1>0. j \in Journal /\ TypeOK /\ CallAt /\ JournalAt
  BY DEF CallInv, ClosedInv, TypeInv, TypeOK
<1>1. CASE EnsureClosed
  <2>1. CASE pc' = "rollback"
    BY <1>1, <2>1
    DEF EnsureClosed, Incomplete, PassInv, KitIsAKit, PassDone, AllLanded, EnterOnce, Fresh,
        RollbackGoes, VerifiedIsKit, KeptHasSome
  <2>2. CASE pc' = "write-login" /\ op' = "plainSwitch"
    BY <1>1, <2>2
    DEF EnsureClosed, PassInv, KitIsAKit, PassDone, AllLanded, EnterOnce, Fresh,
        RollbackGoes, VerifiedIsKit, KeptHasSome
  <2>3. CASE pc' \in {"publish", "leave-planned"}
    BY <1>1, <2>3, QuietPass DEF EnsureClosed
  <2> QED
    BY <1>1, <2>1, <2>2, <2>3 DEF EnsureClosed
<1>2. CASE Publish
  <2>1. /\ j'.phase = "planned" /\ j'.part = AllPending
        /\ j'.kit \in [Parts -> {"kit", "empty"}]
    BY <1>2, PublishedJournal
  <2>2. pc' = "steam-closed" /\ rollback' = NoScratch
    BY <1>2 DEF Publish, AfterAdvance
  <2> QED
    BY <2>1, <2>2
    DEF PassInv, KitIsAKit, PassDone, AllLanded, EnterOnce, Fresh, RollbackGoes,
        VerifiedIsKit, KeptHasSome, AllPending
<1>3. CASE Advance
  <2>1. /\ j'.phase = pc /\ j'.kit = j.kit /\ j'.theirs = j.theirs /\ j'.saved = j.saved
        /\ j'.part = IF pc \in {"applying", "restoring"} THEN AllPending ELSE j.part
    BY <1>0, <1>3, AdvancedJournal
  <2>2. UNCHANGED <<live, rollback, active, op, at>> /\ pc' = AfterAdvance(pc)
    BY <1>3 DEF Advance
  <2>3. pc \in Phases \ RestingPhases
    BY <1>3 DEF Advance
  <2>4. KitIsAKit'
    BY <2>1, <2>2 DEF PassInv, KitIsAKit
  <2>5. CASE pc \in {"applying", "restoring"}
    <3>1. todo' = Parts /\ pc' = "next-part"
      BY <1>0, <1>3, <2>2, <2>5 DEF Advance, AfterAdvance, CallAt, JournalAt, Working, FinishSteps, BeforeKitLanded
    <3>2. pc = "applying" => rollback = NoScratch
      BY <1>0 DEF PassInv, Fresh, CallAt, JournalAt, Working, Open, FinishSteps, BeforeKitLanded
    <3>3. pc = "restoring" => op # "Enter"
      BY <1>0 DEF CallAt
    <3> QED
      BY <2>1, <2>2, <2>4, <2>5, <3>1, <3>2, <3>3
      DEF PassInv, PassDone, AllLanded, EnterOnce, Fresh, RollbackGoes, VerifiedIsKit,
          KeptHasSome, AllPending, PartSteps, NoScratch, BeforeKitLanded
  <2>6. CASE pc \notin {"applying", "restoring"}
    <3>1. pc' \notin PassSteps \cup RollbackSteps \cup {"kept-active"}
      BY <2>2, <2>3, <2>6 DEF AfterAdvance, Phases, RestingPhases, KitPhases, BeforeKitLanded
    <3>2. PassDone' /\ EnterOnce' /\ RollbackGoes' /\ KeptHasSome'
      BY <3>1 DEF PassDone, EnterOnce, RollbackGoes, KeptHasSome
    <3>3. AllLanded'
      <4>1. pc' \in LandedSteps /\ op \in {"Enter", "Leave", "RestoreTheirs"} => pc \in LandedSteps
        BY <1>0, <2>2, <2>3, <2>6 DEF AfterAdvance, Phases, RestingPhases, KitPhases, BeforeKitLanded, CallAt
      <4> QED
        BY <2>1, <2>2, <4>1 DEF PassInv, AllLanded, Landed, SrcAbsent, Source, Applying
    <3>4. pc \in BeforeKitLanded => active /\ j.phase \in BeforeKitLanded \ {"applying"}
      BY <1>0, <2>6 DEF JournalAt, CallAt, Working, Open, Opening, BeforeKitLanded, FinishSteps
    <3>5. Fresh' /\ VerifiedIsKit'
      BY <2>1, <2>2, <2>6, <3>4 DEF PassInv, Fresh, VerifiedIsKit
    <3> QED
      BY <2>4, <3>2, <3>3, <3>5 DEF PassInv
  <2> QED
    BY <2>5, <2>6
<1>4. CASE AdvanceToRest
  <2>1. /\ j'.phase = pc /\ j'.kit = j.kit /\ j'.theirs = j.theirs /\ j'.part = j.part
    BY <1>0, <1>4, AdvancedJournal DEF AdvanceToRest, RestingPhases, KitPhases
  <2>2. UNCHANGED <<live, rollback, active>> /\ pc' \in {"idle", "clear-active"}
    BY <1>4 DEF AdvanceToRest
  <2>3. j'.phase \notin BeforeKitLanded
    BY <1>4, <2>1 DEF AdvanceToRest, RestingPhases, KitPhases, BeforeKitLanded
  <2> QED
    BY <2>1, <2>2, <2>3
    DEF PassInv, KitIsAKit, PassDone, AllLanded, EnterOnce, Fresh, RollbackGoes,
        VerifiedIsKit, KeptHasSome
<1>5. CASE SaveTheirSetup
  <2>1. j'.phase = j.phase /\ j'.kit = j.kit /\ j'.part = j.part
    BY <1>0, <1>5 DEF SaveTheirSetup, Journal
  <2> QED
    BY <1>5, <2>1
    DEF SaveTheirSetup, PassInv, KitIsAKit, PassDone, AllLanded, EnterOnce, Fresh,
        RollbackGoes, VerifiedIsKit, KeptHasSome
<1>6. CASE CheckExternalChange
  BY <1>6, QuietPass DEF CheckExternalChange
<1>7. CASE ReleaseVerified \/ ReleaseVerifiedFails
  <2>1. rollback = NoScratch => rollback' = NoScratch
    BY <1>7, RemainsType DEF ReleaseVerified, ReleaseVerifiedFails, NoScratch
  <2> QED
    BY <1>7, <2>1
    DEF ReleaseVerified, ReleaseVerifiedFails, PassInv, KitIsAKit, PassDone, AllLanded,
        EnterOnce, Fresh, RollbackGoes, VerifiedIsKit, KeptHasSome
<1>8. CASE RollbackDone
  <2>1. /\ j'.phase = j.phase /\ j'.kit = j.kit
        /\ j'.part = [p \in Parts |-> IF p \in Incomplete THEN "pending" ELSE "verified"]
    BY <1>0, <1>8 DEF RollbackDone, Journal
  <2>2. \A p \in Parts : j'.part[p] = "verified" <=> j.part[p] = "verified"
    BY <2>1 DEF Incomplete
  <2>3. j.part = AllPending => j'.part = AllPending
    BY <2>1 DEF Incomplete, AllPending
  <2>4. UNCHANGED <<live, rollback, active>>
    BY <1>8 DEF RollbackDone
  <2>5. KeptHasSome'
    BY <1>8, <2>1, <2>2 DEF RollbackDone, KeptHasSome, NothingLanded, HasCompletedWrites
  <2>6. pc' \in {"release-verified", "kept-active", "clear-active"}
    BY <1>8 DEF RollbackDone
  <2>7. Fresh' /\ VerifiedIsKit' /\ KitIsAKit'
    BY <2>1, <2>2, <2>3, <2>4 DEF PassInv, Fresh, VerifiedIsKit, KitIsAKit
  <2> QED
    BY <2>5, <2>6, <2>7 DEF PassInv, PassDone, AllLanded, EnterOnce, RollbackGoes
<1>9. CASE WriteLogin
  BY <1>9, QuietPass DEF WriteLogin
<1>10. CASE LaunchSteam
  BY <1>0, <1>10, QuietPass DEF LaunchSteam, CallAt
<1>11. CASE ReconcileLogin \/ ReconcileLoginFails
  BY <1>11, QuietPass DEF ReconcileLogin, ReconcileLoginFails
<1>12. CASE ClearActiveFails \/ DropTransactionFails
  BY <1>12, QuietPass DEF ClearActiveFails, DropTransactionFails
<1>13. CASE ClearActive \/ DropTransaction
  BY <1>13
  DEF ClearActive, DropTransaction, Forget, PassInv, KitIsAKit, PassDone, AllLanded,
      EnterOnce, Fresh, RollbackGoes, VerifiedIsKit, KeptHasSome
<1>14. CASE ReleaseScratch
  BY <1>14
  DEF ReleaseScratch, PassInv, KitIsAKit, PassDone, AllLanded, EnterOnce, Fresh,
      RollbackGoes, VerifiedIsKit, KeptHasSome
<1> QED
  BY <1>1, <1>2, <1>3, <1>4, <1>5, <1>6, <1>7, <1>8, <1>9, <1>10, <1>11, <1>12, <1>13, <1>14

\* A pass leaves the parts it has visited as their source has them.
LEMMA ReplacePass ==
    ASSUME CallInv, CallInv', PassInv,
           \/ \E p \in Parts : StartPart(p) \/ SkipPart(p)
           \/ Stage \/ StageShort \/ LogStaged \/ ClearRollback \/ MoveAside
           \/ LogOldMoved \/ Install \/ LogInstalled \/ LogVerified \/ VerifyFails
           \/ ReleaseRollback \/ ReleaseRollbackFails \/ RecordPass
    PROVE  PassInv'
<1> USE DEF PassSteps, PartSteps, RollbackSteps, LandedSteps, Goto, Return, disk
<1>0. j \in Journal /\ TypeOK /\ CallAt /\ JournalAt
  BY DEF CallInv, ClosedInv, TypeInv, TypeOK
<1>a. pc \in PassSteps
  BY DEF StartPart, SkipPart, Stage, StageShort, StageCopy, LogStaged, ClearRollback,
         MoveAside, LogOldMoved, Install, LogInstalled, LogVerified, LogPart, VerifyFails,
         ReleaseRollback, ReleaseRollbackFails, Release, RecordPass
<1>b. /\ active
      /\ j.phase \in BeforeKitLanded => j.phase = "applying" /\ op = "Enter"
      /\ op = "Enter" => j.phase = "applying"
  BY <1>0, <1>a DEF JournalAt, CallAt, Working, Open, FinishSteps, BeforeKitLanded
<1>c. pc \in PartSteps => at \in todo /\ at \in Parts
  BY <1>0 DEF PassInv, PassDone, TypeOK
<1>1. ASSUME NEW p \in Parts, StartPart(p)
      PROVE  PassInv'
  BY <1>1
  DEF StartPart, PassInv, KitIsAKit, PassDone, AllLanded, EnterOnce, Ahead, Fresh, RollbackGoes,
      VerifiedIsKit, KeptHasSome, Landed, SrcAbsent, Source, Applying
<1>2. ASSUME NEW p \in Parts, SkipPart(p)
      PROVE  PassInv'
  BY <1>2
  DEF SkipPart, PassInv, KitIsAKit, PassDone, AllLanded, EnterOnce, Ahead, Fresh, RollbackGoes,
      VerifiedIsKit, KeptHasSome, Landed, SrcAbsent, Source, Applying
<1>3. CASE Stage \/ StageShort
  BY <1>3
  DEF Stage, StageShort, StageCopy, PassInv, KitIsAKit, PassDone, AllLanded, EnterOnce, Ahead,
      Fresh, RollbackGoes, VerifiedIsKit, KeptHasSome, Landed, SrcAbsent, Source, Applying
<1>4. CASE LogStaged \/ LogOldMoved \/ LogInstalled \/ LogVerified
  <2>1. PICK state \in ReplaceStates :
            /\ j' = [j EXCEPT !.part[at] = state]
            /\ state = "verified" <=> pc = "verify"
    BY <1>4 DEF LogStaged, LogOldMoved, LogInstalled, LogVerified, LogPart, ReplaceStates
  <2>2. /\ j'.phase = j.phase /\ j'.kit = j.kit /\ j'.theirs = j.theirs
        /\ j'.part = [j.part EXCEPT ![at] = state]
    BY <1>0, <2>1 DEF Journal
  <2>3. UNCHANGED <<live, rollback, active, op, at, todo>>
    BY <1>4 DEF LogStaged, LogOldMoved, LogInstalled, LogVerified, LogPart
  <2>4. /\ pc \in {"log-staged", "log-old-moved", "log-installed", "verify"}
        /\ pc = "log-staged" => pc' = "clear-rollback"
        /\ pc = "log-old-moved" => pc' = "install"
        /\ pc = "log-installed" => pc' = "verify"
        /\ pc = "verify" => pc' = "release-rollback" /\ Matches
    BY <1>4 DEF LogStaged, LogOldMoved, LogInstalled, LogVerified, LogPart
  <2>5. \A p \in Parts : Landed(p)' <=> Landed(p)
    BY <2>2, <2>3 DEF Landed, SrcAbsent, Source, Applying
  <2>6. SrcAbsent(at)' <=> SrcAbsent(at)
    BY <2>2, <2>3 DEF SrcAbsent, Source, Applying
  <2>7. PassDone'
    <3>1. pc = "verify" => Landed(at)
      BY <2>4 DEF PassInv, PassDone, Matches, Landed
    <3> QED
      BY <1>a, <1>c, <2>3, <2>4, <2>5, <2>6, <3>1 DEF PassInv, PassDone, Applying
  <2>8. EnterOnce'
    BY <1>0, <1>a, <1>c, <2>1, <2>2, <2>3, <2>4 DEF PassInv, EnterOnce, Ahead, TypeOK, Journal
  <2>9. VerifiedIsKit'
    <3>1. pc = "verify" /\ op = "Enter" => live[at] = j.kit[at] /\ j.kit[at] \notin Blank
      BY <1>a, <1>c, <2>4 DEF PassInv, PassDone, Matches, SrcAbsent, Source, Applying
    <3>2. j.kit[at] \in {"kit", "empty"}
      BY <1>b, <1>c, <2>4 DEF PassInv, KitIsAKit
    <3>3. pc = "verify" /\ op = "Enter" => live[at] \in Overlay
      BY <3>1, <3>2 DEF Blank, Overlay
    <3> QED
      BY <1>0, <1>b, <1>c, <2>1, <2>2, <2>3, <3>3 DEF PassInv, VerifiedIsKit, TypeOK, Journal
  <2>10. KitIsAKit' /\ Fresh'
    BY <1>b, <2>2, <2>3 DEF PassInv, KitIsAKit, Fresh, BeforeKitLanded
  <2> QED
    BY <2>4, <2>7, <2>8, <2>9, <2>10 DEF PassInv, AllLanded, RollbackGoes, KeptHasSome
<1>5. CASE ClearRollback
  <2>1. \A p \in Parts : rollback[p] = "absent" => rollback'[p] = "absent"
    BY <1>0, <1>5 DEF ClearRollback, TypeOK
  <2> QED
    BY <1>0, <1>5, <1>b, <1>c, <2>1
    DEF ClearRollback, PassInv, KitIsAKit, PassDone, AllLanded, EnterOnce, Ahead, Fresh,
        RollbackGoes, VerifiedIsKit, KeptHasSome, Landed, SrcAbsent, Source, Applying,
        BeforeKitLanded, TypeOK
<1>6. CASE MoveAside
  <2>1. /\ \A p \in Parts \ {at} : live'[p] = live[p] /\ rollback'[p] = rollback[p]
        /\ live'[at] = "absent" /\ rollback'[at] # "absent"
    BY <1>0, <1>6, <1>c DEF MoveAside, TypeOK
  <2>2. UNCHANGED <<j, active, op, at, todo>> /\ pc = "move-aside" /\ pc' = "log-old-moved"
    BY <1>6 DEF MoveAside
  <2>3. PassDone'
    BY <1>c, <2>1, <2>2 DEF PassInv, PassDone, Landed, SrcAbsent, Source, Applying
  <2>4. EnterOnce'
    BY <1>0, <1>c, <2>1, <2>2 DEF PassInv, EnterOnce, Ahead, TypeOK
  <2>5. VerifiedIsKit'
    BY <1>a, <1>b, <1>c, <2>1, <2>2 DEF PassInv, VerifiedIsKit, EnterOnce
  <2> QED
    BY <1>b, <2>2, <2>3, <2>4, <2>5
    DEF PassInv, KitIsAKit, AllLanded, Fresh, RollbackGoes, KeptHasSome, BeforeKitLanded
<1>7. CASE Install
  <2>1. /\ \A p \in Parts \ {at} : live'[p] = live[p]
        /\ SrcAbsent(at) => live' = live
    BY <1>0, <1>7, <1>c DEF Install, TypeOK
  <2>2. UNCHANGED <<rollback, j, active, op, at, todo>> /\ pc = "install" /\ pc' = "log-installed"
    BY <1>7 DEF Install
  <2>3. PassDone'
    BY <1>c, <2>1, <2>2 DEF PassInv, PassDone, Landed, SrcAbsent, Source, Applying
  <2>4. EnterOnce'
    BY <1>0, <1>c, <2>1, <2>2 DEF PassInv, EnterOnce, Ahead
  <2>5. VerifiedIsKit'
    BY <1>a, <1>b, <1>c, <2>1, <2>2 DEF PassInv, VerifiedIsKit, EnterOnce
  <2> QED
    BY <1>b, <2>2, <2>3, <2>4, <2>5
    DEF PassInv, KitIsAKit, AllLanded, Fresh, RollbackGoes, KeptHasSome, BeforeKitLanded
<1>8. CASE VerifyFails
  BY <1>8, QuietPass DEF VerifyFails
<1>9. CASE ReleaseRollback \/ ReleaseRollbackFails
  <2>1. PICK leftover : Release(leftover)
    BY <1>9 DEF ReleaseRollback, ReleaseRollbackFails
  <2>2. \A p \in Parts \ {at} : rollback'[p] = rollback[p]
    BY <1>0, <2>1 DEF Release, TypeOK
  <2>3. UNCHANGED <<live, j, active, op>> /\ at' = NoPart /\ todo' = todo \ {at}
        /\ pc = "release-rollback" /\ pc' = "next-part"
    BY <2>1 DEF Release
  <2>4. PassDone'
    BY <1>c, <2>3 DEF PassInv, PassDone, Landed, SrcAbsent, Source, Applying
  <2>5. EnterOnce'
    BY <1>0, <1>c, <2>2, <2>3, NoPartAssumption DEF PassInv, EnterOnce, Ahead, TypeOK
  <2> QED
    BY <1>b, <2>3, <2>4, <2>5
    DEF PassInv, KitIsAKit, AllLanded, Fresh, RollbackGoes, VerifiedIsKit, KeptHasSome,
        BeforeKitLanded
<1>10. CASE RecordPass
  <2>1. j'.phase = j.phase /\ j'.kit = j.kit /\ j'.theirs = j.theirs /\ j'.part = j.part
    BY <1>0, <1>10 DEF RecordPass, Journal
  <2>2. AllLanded'
    BY <1>10, <2>1 DEF RecordPass, PassInv, PassDone, AllLanded, Landed, SrcAbsent, Source, Applying
  <2> QED
    BY <1>10, <2>1, <2>2
    DEF RecordPass, PassInv, KitIsAKit, PassDone, EnterOnce, Fresh, RollbackGoes,
        VerifiedIsKit, KeptHasSome
<1> QED
  BY <1>1, <1>2, <1>3, <1>4, <1>5, <1>6, <1>7, <1>8, <1>9, <1>10

\* Rollbacks, crashes, and what the game does.
LEMMA OtherPass ==
    ASSUME CallInv, PassInv,
           \/ \E p \in Parts : NothingMoved(p) \/ RemoveInstalled(p)
           \/ PutBack \/ Interrupt \/ World
    PROVE  PassInv'
<1> USE DEF PassSteps, PartSteps, RollbackSteps, LandedSteps, Return, disk, memory
<1>0. j \in Journal /\ TypeOK /\ CallAt /\ JournalAt /\ ClosedInv
  BY DEF CallInv, ClosedInv, TypeInv, TypeOK
<1>1. ASSUME NEW p \in Parts, NothingMoved(p)
      PROVE  PassInv'
  BY <1>0, <1>1
  DEF NothingMoved, PassInv, KitIsAKit, PassDone, AllLanded, EnterOnce, Fresh, RollbackGoes,
      VerifiedIsKit, KeptHasSome, Incomplete
<1>2. ASSUME NEW p \in Parts, RemoveInstalled(p)
      PROVE  PassInv'
  <2>1. j.part[p] # "verified" /\ UNCHANGED <<active, j>>
        /\ \A q \in Parts \ {p} : live'[q] = live[q]
    BY <1>0, <1>2 DEF RemoveInstalled, PassInv, RollbackGoes, Incomplete, TypeOK
  <2>2. VerifiedIsKit'
    BY <2>1 DEF PassInv, VerifiedIsKit
  <2> QED
    BY <1>0, <1>2, <2>2
    DEF RemoveInstalled, PassInv, KitIsAKit, PassDone, AllLanded, EnterOnce, Fresh,
        RollbackGoes, KeptHasSome, Incomplete
<1>3. CASE PutBack
  <2>1. /\ j.part[at] # "verified" /\ at \in Parts /\ rollback[at] # "absent"
        /\ UNCHANGED <<active, j>>
    BY <1>0, <1>3 DEF PutBack, PassInv, RollbackGoes, Incomplete, TypeOK
  <2>2. /\ \A q \in Parts \ {at} : live'[q] = live[q] /\ rollback'[q] = rollback[q]
        /\ rollback'[at] = "absent"
    BY <1>0, <1>3, <2>1 DEF PutBack, TypeOK
  <2>3. VerifiedIsKit'
    BY <2>1, <2>2 DEF PassInv, VerifiedIsKit
  <2>4. RollbackGoes'
    BY <1>3, <2>1, <2>2 DEF PutBack, PassInv, RollbackGoes, Incomplete
  <2>5. Fresh'
    BY <1>3, <2>1 DEF PutBack, PassInv, Fresh, NoScratch
  <2> QED
    BY <1>3, <2>1, <2>3, <2>4, <2>5
    DEF PutBack, PassInv, KitIsAKit, PassDone, AllLanded, EnterOnce, KeptHasSome
<1>4. CASE Interrupt
  <2>1. UNCHANGED <<active, j>> /\ pc' = "idle" /\ op' = "idle" /\ CutShort
    BY <1>4 DEF Interrupt
  <2>2. VerifiedIsKit'
    <3>1. ASSUME NEW p \in Parts, j.part[p] = "verified"
          PROVE  live'[p] = live[p]
      BY <1>0, <2>1, <3>1 DEF CutShort, PassInv, RollbackGoes, Incomplete, TypeOK
    <3> QED
      BY <2>1, <3>1 DEF PassInv, VerifiedIsKit
  <2>3. Fresh'
    <3>1. SUFFICES ASSUME Fresh, active, j.phase \in BeforeKitLanded \ {"applying"}
                   PROVE  rollback' = NoScratch
      BY <2>1 DEF PassInv, Fresh
    <3>2. pc \notin {"clear-rollback", "move-aside"}
      BY <1>0, <3>1 DEF JournalAt, BeforeKitLanded
    <3>3. rollback = NoScratch
      BY <3>1 DEF Fresh
    <3>4. pc # "put-back"
      BY <1>0, <3>3 DEF PassInv, RollbackGoes, NoScratch, Incomplete
    <3> QED
      BY <2>1, <3>2, <3>3, <3>4 DEF CutShort
  <2> QED
    BY <2>1, <2>2, <2>3
    DEF PassInv, KitIsAKit, PassDone, AllLanded, EnterOnce, RollbackGoes, KeptHasSome
<1>5. CASE UserTogglesSteam \/ \E a \in Accounts : UserSignsIn(a)
  <2>1. UNCHANGED <<live, rollback, active, j, op, pc, at, todo>>
    BY <1>5 DEF UserTogglesSteam, UserSignsIn
  <2> QED
    BY <2>1
    DEF PassInv, KitIsAKit, PassDone, AllLanded, EnterOnce, Ahead, Fresh, RollbackGoes,
        VerifiedIsKit, KeptHasSome, Landed, SrcAbsent, Source, Applying, Incomplete,
        HasCompletedWrites
<1>6. ASSUME NEW p \in Parts, Play(p)
      PROVE  PassInv'
  <2>1. pc \notin PassSteps /\ (pc \in LandedSteps => op = "plainSwitch")
    <3>1. pc \in PassSteps \cup LandedSteps => pc \in ClosedSteps
      BY DEF ClosedSteps, OpenSteps, Steps, RestingPhases, KitPhases, FinishSteps,
             Phases, BeforeKitLanded
    <3>2. pc \in ClosedSteps => op = "Abandon"
      BY <1>0, <1>6 DEF Play, ClosedInv, SteamIsClosed
    <3>3. pc \in PassSteps \cup LandedSteps => op # "Abandon"
      BY <1>0 DEF CallAt
    <3> QED
      BY <3>1, <3>2, <3>3
  <2>2. UNCHANGED <<rollback, active, j, op, pc, at, todo>>
    BY <1>6 DEF Play
  <2>3. \A q \in Parts : live[q] \in Overlay => live'[q] \in Overlay
    BY <1>0, <1>6 DEF Play, Played, Overlay, TypeOK
  <2> QED
    BY <2>1, <2>2, <2>3
    DEF PassInv, KitIsAKit, PassDone, AllLanded, EnterOnce, Ahead, Fresh, RollbackGoes,
        VerifiedIsKit, KeptHasSome, Incomplete, HasCompletedWrites
<1> QED
  BY <1>1, <1>2, <1>3, <1>4, <1>5, <1>6 DEF World

\* Every step keeps what a pass has done.
LEMMA NextPass ==
    ASSUME ~AnyAnswer, CallInv, PassInv, [Next]_vars
    PROVE  PassInv'
<1>1. CallInv'
  BY NextCall
<1>2. CASE UNCHANGED vars
  BY <1>2
  DEF vars, disk, memory, PassInv, KitIsAKit, PassDone, AllLanded, EnterOnce, Ahead, Fresh,
      RollbackGoes, VerifiedIsKit, KeptHasSome, Landed, SrcAbsent, Source, Applying, Incomplete,
      HasCompletedWrites
<1>3. CASE Next
  BY <1>1, <1>3, BeginsPass, StepsPass, ReplacePass, OtherPass
  DEF Next, EngineStep, Fault
<1> QED
  BY <1>2, <1>3
-----------------------------------------------------------------------------
(* LoanInv.                                                                *)

\* What is captured of a tree is the same setup, and is whole if the tree is.
LEMMA CapturedSame ==
    \A t \in Tree : /\ SameSetup(Captured(t), t) /\ SameSetup(t, Captured(t))
                    /\ t \notin Overlay \cup {"torn"} => Captured(t) \notin Overlay \cup {"torn"}
  BY DEF Captured, SameSetup, Tree, Blank, Overlay

\* The setup a snapshot holds stays the owner's when it is played with.
LEMMA BackPlayed ==
    ASSUME NEW p, NEW t \in Tree, j.theirs[p] \notin Overlay \cup {"torn"}, Back(t, p)
    PROVE  Back(Played(t), p)
  BY DEF Back, SameSetup, Played, Blank, Overlay, Tree

\* A part given back carries nothing of the kit and no hole.
LEMMA BackIsOwn ==
    ASSUME NEW p, j.theirs[p] \notin Overlay \cup {"torn"},
           SameSetup(j.theirs[p], orig[p]), NEW t, Back(t, p)
    PROVE  t \notin Overlay \cup {"torn"} /\ (t = "absent" => orig[p] \in Blank)
  BY DEF Back, SameSetup, Blank, Overlay

\* A part that a restoring pass has left is given back.
LEMMA LandedIsBack ==
    ASSUME NEW p, Landed(p), ~Applying
    PROVE  Back(live[p], p)
  BY DEF Landed, SrcAbsent, Source, Back, SameSetup, Blank

\* The steps at which a call has given everything back.
GivenSteps == LandedSteps \cup {"reconcile-login", "login-swapped",
                                "launching-after-restore", "launch", "complete"}

\* Before the first call.
LEMMA InitLoan == Init => LoanInv
  BY DEF Init, LoanInv, SnapshotMatches, SnapshotIsOwn, CanUndo, GivenBack, NothingStranded,
         Overlay, Blank

\* A step that leaves the trees and the journal.
LEMMA QuietLoan ==
    ASSUME LoanInv, UNCHANGED <<live, rollback, active, j, orig>>, accepted => accepted',
           \/ op' \in {"Leave", "RestoreTheirs"} /\ pc' \in GivenSteps
                => op' = op /\ pc \in GivenSteps
           \/ GivenBack',
           op' = "KeepCurrent" /\ pc' \in FinishSteps => op = op' /\ pc \in FinishSteps
    PROVE  LoanInv'
<1>1. GivenBack'
  BY DEF LoanInv, GivenBack, GivenSteps, Back
<1> QED
  BY <1>1
  DEF LoanInv, SnapshotMatches, SnapshotIsOwn, CanUndo, Back, Undone, NothingStranded, Tracked

\* A call begins.
LEMMA BeginsLoan ==
    ASSUME LoanInv, Begins \/ Resolve
    PROVE  LoanInv'
<1> USE QuietLoan DEF GivenSteps, LandedSteps, FinishSteps, Begin, disk, ghosts
<1>1. CASE Begins
  BY <1>1 DEF Begins, BeginEnter, BeginPlainSwitch, BeginLeave
<1>2. CASE Resolve
  BY <1>2 DEF Resolve, ResolveRestoreTheirs, ResolveKeepCurrent, ResolveAcceptCurrent, ResolveAbandon
<1> QED
  BY <1>1, <1>2

\* Where the trees stay as they are and the visit stays open or closed, nothing is stranded.
LEMMA StrandedSame ==
    ASSUME NothingStranded, UNCHANGED <<live, orig, accepted>>, Tracked => Tracked'
    PROVE  NothingStranded'
  BY DEF NothingStranded

\* Nothing is stranded when a visit is closed with everything given back.
LEMMA StrandedBack ==
    ASSUME LoanInv, UNCHANGED <<live, orig, accepted>>, active, j.saved,
           ~accepted => \A p \in Parts : Back(live[p], p)
    PROVE  NothingStranded'
<1> SUFFICES ASSUME ~accepted, NEW p \in Parts
             PROVE  /\ live[p] \notin Overlay \cup {"torn"}
                    /\ live[p] = "absent" => orig[p] \in Blank
  BY DEF NothingStranded
<1>1. j.theirs[p] \notin Overlay \cup {"torn"} /\ SameSetup(j.theirs[p], orig[p])
  BY DEF LoanInv, SnapshotMatches, SnapshotIsOwn
<1> QED
  BY <1>1, BackIsOwn

\* The steps of a call outside a pass.
LEMMA StepsLoan ==
    ASSUME CallInv, CallInv', PassInv, LoanInv,
           \/ EnsureClosed \/ Publish \/ Advance \/ AdvanceToRest
           \/ SaveTheirSetup \/ CheckExternalChange \/ ReleaseVerified
           \/ ReleaseVerifiedFails \/ RollbackDone
           \/ WriteLogin \/ LaunchSteam \/ ReconcileLogin \/ ReconcileLoginFails
           \/ ClearActive \/ ClearActiveFails \/ DropTransaction
           \/ DropTransactionFails \/ ReleaseScratch
    PROVE  LoanInv'
<1> USE DEF Goto, Return, disk, ghosts, GivenSteps, LandedSteps, FinishSteps
<1>0. j \in Journal /\ TypeOK /\ CallAt /\ JournalAt
  BY DEF CallInv, ClosedInv, TypeInv, TypeOK
<1>1. CASE EnsureClosed
  BY <1>0, <1>1, QuietLoan DEF EnsureClosed
<1>2. CASE Publish
  <2>1. ~j'.saved
    BY <1>2, PublishedJournal
  <2>2. ~Tracked /\ op' = "Enter" /\ UNCHANGED <<live, orig, accepted>>
    BY <1>0, <1>2 DEF Publish, CallAt, JournalAt, Open, Tracked
  <2> QED
    BY <2>1, <2>2 DEF LoanInv, SnapshotMatches, SnapshotIsOwn, CanUndo, GivenBack, NothingStranded
<1>3. CASE Advance
  <2>1. /\ j'.phase = pc /\ j'.theirs = j.theirs /\ j'.saved = j.saved
        /\ j'.part = IF pc \in {"applying", "restoring"} THEN AllPending ELSE j.part
    BY <1>0, <1>3, AdvancedJournal
  <2>2. UNCHANGED <<live, rollback, active, op, orig, accepted>> /\ pc' = AfterAdvance(pc)
    BY <1>3 DEF Advance
  <2>3. pc \in Phases \ RestingPhases
    BY <1>3 DEF Advance
  <2>4. Tracked => Tracked'
    BY <2>1, <2>2, <2>3 DEF Tracked, RestingPhases
  <2>5. CanUndo'
    <3>1. pc \in BeforeKitLanded => active /\ j.phase \in BeforeKitLanded \ {"applying"}
      BY <1>0, <2>2 DEF JournalAt, CallAt, Working, Open, Opening, BeforeKitLanded, FinishSteps
    <3>2. pc \in BeforeKitLanded => j.part = AllPending /\ pc # "restoring"
      BY <3>1 DEF PassInv, Fresh, BeforeKitLanded
    <3> QED
      BY <2>1, <2>2, <3>1, <3>2 DEF LoanInv, CanUndo, Undone, Back, AllPending
  <2>6. GivenBack'
    <3>1. op \in {"Leave", "RestoreTheirs"} /\ pc' \in GivenSteps => pc \in GivenSteps
      BY <1>0, <2>2, <2>3 DEF AfterAdvance, Phases, RestingPhases, KitPhases, BeforeKitLanded, CallAt
    <3>2. pc' \notin FinishSteps
      BY <2>2, <2>3 DEF AfterAdvance, Phases, RestingPhases, KitPhases, BeforeKitLanded
    <3> QED
      BY <2>1, <2>2, <3>1, <3>2 DEF LoanInv, GivenBack, Back
  <2> QED
    BY <2>1, <2>2, <2>4, <2>5, <2>6, StrandedSame
    DEF LoanInv, SnapshotMatches, SnapshotIsOwn
<1>4. CASE AdvanceToRest
  <2>1. j'.phase = pc /\ j'.theirs = j.theirs /\ j'.saved = j.saved
    BY <1>0, <1>4, AdvancedJournal
  <2>2. UNCHANGED <<live, rollback, active, orig, accepted>> /\ pc' \in {"idle", "clear-active"}
        /\ (pc' = "clear-active" => pc = "complete" /\ op' = op) /\ (pc' = "idle" => op' = "idle")
    BY <1>4 DEF AdvanceToRest
  <2>3. j'.phase \notin BeforeKitLanded
    BY <1>4, <2>1 DEF AdvanceToRest, RestingPhases, KitPhases, BeforeKitLanded
  <2>4. NothingStranded'
    <3>1. CASE pc = "complete"
      <4>1. op \in {"Leave", "RestoreTheirs"} /\ active /\ j.saved
        BY <1>0, <3>1 DEF CallAt, JournalAt, Working, Open
      <4>2. ~accepted => \A p \in Parts : Back(live[p], p)
        BY <3>1, <4>1 DEF LoanInv, GivenBack
      <4> QED
        BY <2>2, <4>1, <4>2, StrandedBack
    <3>2. CASE pc # "complete"
      BY <2>1, <2>2, <3>2, StrandedSame DEF LoanInv, Tracked
    <3> QED
      BY <3>1, <3>2
  <2>5. GivenBack'
    BY <1>0, <2>2 DEF GivenBack, CallAt
  <2> QED
    BY <2>1, <2>2, <2>3, <2>4, <2>5 DEF LoanInv, SnapshotMatches, SnapshotIsOwn, CanUndo
<1>5. CASE SaveTheirSetup
  <2>1. /\ j'.phase = j.phase /\ j'.part = j.part /\ j'.saved
        /\ j'.theirs = [p \in Parts |-> Captured(live[p])]
    BY <1>0, <1>5 DEF SaveTheirSetup, Journal
  <2>2. UNCHANGED <<live, rollback, active, accepted>> /\ orig' = live /\ op' = op
    BY <1>5 DEF SaveTheirSetup
  <2>3. op = "Enter" /\ active /\ ~j.saved /\ j.phase = "snapshotting"
    BY <1>0, <1>5 DEF SaveTheirSetup, CallAt, JournalAt, Working, Open
  <2>4. rollback = NoScratch
    BY <2>3 DEF PassInv, Fresh, BeforeKitLanded
  <2>5. \A p \in Parts : live[p] \in Tree
    BY <1>0 DEF TypeOK
  <2>6. SnapshotMatches'
    BY <2>1, <2>2, <2>5, CapturedSame DEF SnapshotMatches
  <2>7. SnapshotIsOwn'
    BY <2>1, <2>2, <2>3, <2>5, CapturedSame DEF SnapshotIsOwn, LoanInv, NothingStranded, Tracked
  <2>8. CanUndo'
    BY <2>1, <2>2, <2>4, <2>5, CapturedSame DEF CanUndo, Undone, Back, NoScratch
  <2>9. NothingStranded'
    BY <2>1, <2>2, <2>3 DEF NothingStranded, Tracked
  <2> QED
    BY <2>2, <2>3, <2>6, <2>7, <2>8, <2>9 DEF LoanInv, GivenBack
<1>6. CASE CheckExternalChange
  BY <1>6, QuietLoan DEF CheckExternalChange
<1>7. CASE ReleaseVerified \/ ReleaseVerifiedFails
  <2>1. \A p \in Parts : j.part[p] # "verified" => rollback'[p] = rollback[p]
    BY <1>7 DEF ReleaseVerified, ReleaseVerifiedFails, Incomplete
  <2>2. UNCHANGED <<live, active, j, op, orig, accepted>> /\ pc' = "restoring"
    BY <1>7 DEF ReleaseVerified, ReleaseVerifiedFails
  <2> QED
    BY <2>1, <2>2
    DEF LoanInv, SnapshotMatches, SnapshotIsOwn, CanUndo, GivenBack, NothingStranded, Tracked,
        Undone, Back
<1>8. CASE RollbackDone
  <2>1. /\ j'.phase = j.phase /\ j'.theirs = j.theirs /\ j'.saved = j.saved
        /\ j'.part = [p \in Parts |-> IF p \in Incomplete THEN "pending" ELSE "verified"]
    BY <1>0, <1>8 DEF RollbackDone, Journal
  <2>2. \A p \in Parts : j'.part[p] = "verified" <=> j.part[p] = "verified"
    BY <2>1 DEF Incomplete
  <2>3. UNCHANGED <<live, rollback, active, op, orig, accepted>>
    BY <1>8 DEF RollbackDone
  <2>4. CanUndo'
    BY <2>1, <2>2, <2>3 DEF LoanInv, CanUndo, Undone, Back
  <2>5. GivenBack'
    <3>1. CASE op = "KeepCurrent" /\ pc' \in FinishSteps /\ active /\ ~accepted
      <4>1. ~HasCompletedWrites /\ j.phase \in BeforeKitLanded
        BY <1>8, <3>1 DEF RollbackDone, NothingLanded
      <4>2. \A p \in Parts : rollback[p] = "absent" /\ j.part[p] # "verified"
        BY <1>8, <4>1 DEF RollbackDone, HasCompletedWrites, PassInv, RollbackGoes, Incomplete, RollbackSteps
      <4>3. j.saved
        BY <1>0, <1>8, <3>1 DEF RollbackDone, JournalAt, Working
      <4>4. \A p \in Parts : Back(live[p], p)
        BY <3>1, <4>1, <4>2, <4>3 DEF LoanInv, CanUndo, Undone
      <4> QED
        BY <2>1, <2>3, <4>4 DEF GivenBack, Back
    <3>2. CASE ~(op = "KeepCurrent" /\ pc' \in FinishSteps /\ active /\ ~accepted)
      BY <1>8, <2>3, <3>2 DEF RollbackDone, GivenBack
    <3> QED
      BY <3>1, <3>2
  <2>6. NothingStranded'
    BY <2>1, <2>3, StrandedSame DEF LoanInv, Tracked
  <2> QED
    BY <2>1, <2>3, <2>4, <2>5, <2>6 DEF LoanInv, SnapshotMatches, SnapshotIsOwn
<1>9. CASE WriteLogin
  BY <1>9, QuietLoan DEF WriteLogin
<1>10. CASE LaunchSteam
  BY <1>0, <1>10, QuietLoan DEF LaunchSteam, CallAt
<1>11. CASE ReconcileLogin \/ ReconcileLoginFails
  BY <1>11, QuietLoan DEF ReconcileLogin, ReconcileLoginFails
<1>12. CASE ClearActiveFails \/ DropTransactionFails
  BY <1>12, QuietLoan DEF ClearActiveFails, DropTransactionFails
<1>13. CASE ClearActive \/ DropTransaction
  <2>1. pc \in FinishSteps /\ ~active' /\ UNCHANGED <<live, orig, accepted>>
    BY <1>13 DEF ClearActive, DropTransaction, Forget
  <2>2. NothingStranded'
    <3>1. CASE ~Tracked
      BY <2>1, <3>1, StrandedSame DEF LoanInv
    <3>2. CASE Tracked
      <4>1. op = "KeepCurrent" \/ accepted
        BY <1>0, <2>1, <3>2 DEF CallAt, JournalAt, Tracked
      <4>2. ~accepted => \A p \in Parts : Back(live[p], p)
        BY <2>1, <3>2, <4>1 DEF LoanInv, GivenBack, Tracked
      <4> QED
        BY <2>1, <3>2, <4>2, StrandedBack DEF Tracked
    <3> QED
      BY <3>1, <3>2
  <2> QED
    BY <2>1, <2>2 DEF LoanInv, SnapshotMatches, SnapshotIsOwn, CanUndo, GivenBack
<1>14. CASE ReleaseScratch
  <2>1. pc \in FinishSteps /\ UNCHANGED <<live, active, j, orig, accepted>> /\ op' = "idle"
        /\ rollback' = NoScratch
    BY <1>14 DEF ReleaseScratch
  <2>2. CanUndo'
    <3>1. CASE active /\ j.saved /\ ~accepted /\ j.phase \in BeforeKitLanded
      <4>1. op = "KeepCurrent"
        BY <1>0, <2>1, <3>1 DEF CallAt, JournalAt, ExternalChange, BeforeKitLanded
      <4>2. \A p \in Parts : Back(live[p], p)
        BY <2>1, <3>1, <4>1 DEF LoanInv, GivenBack
      <4> QED
        BY <2>1, <4>2 DEF CanUndo, Undone, NoScratch, Back
    <3>2. CASE ~(active /\ j.saved /\ ~accepted /\ j.phase \in BeforeKitLanded)
      BY <2>1, <3>2 DEF CanUndo
    <3> QED
      BY <3>1, <3>2
  <2>3. NothingStranded'
    BY <2>1, StrandedSame DEF LoanInv, Tracked
  <2> QED
    BY <2>1, <2>2, <2>3 DEF LoanInv, SnapshotMatches, SnapshotIsOwn, GivenBack
<1> QED
  BY <1>1, <1>2, <1>3, <1>4, <1>5, <1>6, <1>7, <1>8, <1>9, <1>10, <1>11, <1>12, <1>13, <1>14
\* While the kit is landing, a part is moved aside before anything is put in its place.
LEMMA ReplaceLoan ==
    ASSUME CallInv, CallInv', PassInv, LoanInv,
           \/ \E p \in Parts : StartPart(p) \/ SkipPart(p)
           \/ Stage \/ StageShort \/ LogStaged \/ ClearRollback \/ MoveAside
           \/ LogOldMoved \/ Install \/ LogInstalled \/ LogVerified \/ VerifyFails
           \/ ReleaseRollback \/ ReleaseRollbackFails \/ RecordPass
    PROVE  LoanInv'
<1> USE DEF Goto, Return, disk, ghosts, GivenSteps, LandedSteps, FinishSteps
<1>0. j \in Journal /\ TypeOK /\ CallAt /\ JournalAt
  BY DEF CallInv, ClosedInv, TypeInv, TypeOK
<1>a. pc \in PassSteps
  BY DEF PassSteps, StartPart, SkipPart, Stage, StageShort, StageCopy, LogStaged, ClearRollback,
         MoveAside, LogOldMoved, Install, LogInstalled, LogVerified, LogPart, VerifyFails,
         ReleaseRollback, ReleaseRollbackFails, Release, RecordPass
<1>b. /\ Tracked
      /\ j.phase \in BeforeKitLanded => op = "Enter"
  BY <1>0, <1>a DEF JournalAt, CallAt, Working, Open, Tracked, BeforeKitLanded, PassSteps
<1>c. pc \in PartSteps => at \in todo /\ at \in Parts
  BY <1>0, <1>a DEF PassInv, PassDone, TypeOK
<1>1. ASSUME NEW p \in Parts, StartPart(p) \/ SkipPart(p)
      PROVE  LoanInv'
  BY <1>1, QuietLoan DEF StartPart, SkipPart
<1>2. CASE Stage \/ StageShort \/ VerifyFails
  BY <1>2, QuietLoan DEF Stage, StageShort, StageCopy, VerifyFails
<1>3. CASE LogStaged \/ LogOldMoved \/ LogInstalled \/ LogVerified
  <2>1. PICK state \in ReplaceStates : j' = [j EXCEPT !.part[at] = state]
    BY <1>3 DEF LogStaged, LogOldMoved, LogInstalled, LogVerified, LogPart, ReplaceStates
  <2>2. /\ j'.phase = j.phase /\ j'.theirs = j.theirs /\ j'.saved = j.saved
        /\ j'.part = [j.part EXCEPT ![at] = state]
    BY <1>0, <2>1 DEF Journal
  <2>3. /\ UNCHANGED <<live, rollback, active, orig, accepted>>
        /\ pc \in PartSteps \ {"release-rollback"} /\ pc' \in PassSteps
    BY <1>3 DEF LogStaged, LogOldMoved, LogInstalled, LogVerified, LogPart, PartSteps, PassSteps
  <2>4. op = "Enter" => j.part[at] # "verified"
    BY <1>a, <1>c, <2>3 DEF PassInv, EnterOnce
  <2>5. CanUndo'
    BY <1>0, <1>b, <1>c, <2>2, <2>3, <2>4
    DEF LoanInv, CanUndo, Undone, Back, TypeOK, Journal, Tracked
  <2> QED
    BY <2>2, <2>3, <2>5
    DEF LoanInv, SnapshotMatches, SnapshotIsOwn, GivenBack, NothingStranded, Tracked, PassSteps
<1>4. CASE ClearRollback
  <2>1. /\ UNCHANGED <<live, active, j, orig, accepted>> /\ pc' = "move-aside"
        /\ pc = "clear-rollback" /\ rollback' = [rollback EXCEPT ![at] = "absent"]
    BY <1>4 DEF ClearRollback
  <2>2. at \in todo /\ at \in Parts
    BY <1>c, <2>1 DEF PartSteps, PassSteps
  <2>3. j.phase \in BeforeKitLanded => rollback' = rollback
    BY <1>0, <1>a, <1>b, <2>1, <2>2 DEF PassInv, EnterOnce, Ahead, TypeOK
  <2>4. CanUndo'
    BY <2>1, <2>3 DEF LoanInv, CanUndo, Undone, Back
  <2> QED
    BY <2>1, <2>4
    DEF LoanInv, SnapshotMatches, SnapshotIsOwn, GivenBack, NothingStranded, Tracked
<1>5. CASE MoveAside
  <2>1. /\ UNCHANGED <<active, j, orig, accepted>> /\ pc' = "log-old-moved" /\ pc = "move-aside"
        /\ live' = [live EXCEPT ![at] = "absent"]
        /\ rollback' = [rollback EXCEPT ![at] =
                            IF live[at] = "absent" THEN "marker" ELSE live[at]]
    BY <1>5 DEF MoveAside
  <2>2. at \in todo /\ at \in Parts
    BY <1>c, <2>1 DEF PartSteps, PassSteps
  <2>3. j.phase \in BeforeKitLanded => rollback[at] = "absent"
    BY <1>a, <1>b, <2>1, <2>2 DEF PassInv, EnterOnce, Ahead
  <2>4. \A p \in Parts \ {at} : live'[p] = live[p] /\ rollback'[p] = rollback[p]
    BY <1>0, <2>1 DEF TypeOK
  <2>5. \A p \in Parts : p = at /\ rollback[p] = "absent" => Undone(p)' = Undone(p)
    BY <1>0, <2>1, <2>2 DEF Undone, TypeOK, Tree
  <2>6. CanUndo'
    BY <2>1, <2>3, <2>4, <2>5 DEF LoanInv, CanUndo, Undone, Back
  <2>7. Tracked'
    BY <1>b, <2>1 DEF Tracked
  <2> QED
    BY <2>1, <2>6, <2>7
    DEF LoanInv, SnapshotMatches, SnapshotIsOwn, GivenBack, NothingStranded
<1>6. CASE Install
  <2>1. /\ UNCHANGED <<rollback, active, j, orig, accepted>> /\ pc' = "log-installed"
        /\ pc = "install"
    BY <1>6 DEF Install
  <2>2. at \in todo /\ at \in Parts
    BY <1>c, <2>1 DEF PartSteps, PassSteps
  <2>3. \A p \in Parts \ {at} : live'[p] = live[p]
    BY <1>0, <1>6 DEF Install, TypeOK
  <2>4. j.phase \in BeforeKitLanded => rollback[at] # "absent"
    BY <1>a, <1>b, <2>1 DEF PassInv, EnterOnce
  <2>5. CanUndo'
    BY <2>1, <2>3, <2>4 DEF LoanInv, CanUndo, Undone, Back
  <2>6. Tracked'
    BY <1>b, <2>1 DEF Tracked
  <2> QED
    BY <2>1, <2>5, <2>6
    DEF LoanInv, SnapshotMatches, SnapshotIsOwn, GivenBack, NothingStranded
<1>7. CASE ReleaseRollback \/ ReleaseRollbackFails
  <2>1. PICK leftover : Release(leftover)
    BY <1>7 DEF ReleaseRollback, ReleaseRollbackFails
  <2>2. UNCHANGED <<live, active, j, orig, accepted>> /\ pc = "release-rollback" /\ pc' = "next-part"
    BY <2>1 DEF Release
  <2>3. \A p \in Parts \ {at} : rollback'[p] = rollback[p]
    BY <1>0, <2>1 DEF Release, TypeOK
  <2>4. op = "Enter" => j.part[at] = "verified"
    BY <1>a, <2>2 DEF PassInv, EnterOnce
  <2>5. CanUndo'
    BY <1>b, <2>2, <2>3, <2>4 DEF LoanInv, CanUndo, Undone, Back
  <2> QED
    BY <2>2, <2>5
    DEF LoanInv, SnapshotMatches, SnapshotIsOwn, GivenBack, NothingStranded, Tracked
<1>8. CASE RecordPass
  <2>1. j'.phase = j.phase /\ j'.theirs = j.theirs /\ j'.part = j.part /\ j'.saved = j.saved
    BY <1>0, <1>8 DEF RecordPass, Journal
  <2>2. UNCHANGED <<live, rollback, active, op, orig, accepted>>
        /\ pc' \in {"kit-applied", "setup-restored"}
    BY <1>8 DEF RecordPass
  <2>3. GivenBack'
    <3>1. CASE op \in {"Leave", "RestoreTheirs"}
      <4>1. \A p \in Parts : Back(live[p], p)
        BY <1>8, <3>1, LandedIsBack DEF RecordPass, PassInv, PassDone, PassSteps, Applying
      <4> QED
        BY <2>1, <2>2, <4>1 DEF GivenBack, Back
    <3>2. CASE op \notin {"Leave", "RestoreTheirs"}
      BY <2>2, <3>2 DEF GivenBack
    <3> QED
      BY <3>1, <3>2
  <2> QED
    BY <2>1, <2>2, <2>3
    DEF LoanInv, SnapshotMatches, SnapshotIsOwn, CanUndo, Undone, Back, NothingStranded, Tracked
<1> QED
  BY <1>1, <1>2, <1>3, <1>4, <1>5, <1>6, <1>7, <1>8

\* A recovery writes only under a journal that holds the setup.
LEMMA RecoveryIsTracked ==
    ASSUME CallInv, pc \in RollbackSteps, NEW p \in Parts, rollback[p] # "absent"
    PROVE  Tracked
<1>1. op # "Abandon"
  BY StepsApart
  DEF CallInv, ClosedInv, AbandonOnlyLooks, UnsavedIsUntouched, NoScratch, RollbackSteps
<1> QED
  BY <1>1 DEF CallInv, CallAt, JournalAt, Working, Open, Tracked, RollbackSteps, FinishSteps

\* Rollbacks, crashes, and what the game does.
LEMMA OtherLoan ==
    ASSUME CallInv, PassInv, LoanInv,
           \/ \E p \in Parts : NothingMoved(p) \/ RemoveInstalled(p)
           \/ PutBack \/ Interrupt \/ World
    PROVE  LoanInv'
<1> USE DEF Return, disk, ghosts, memory, GivenSteps, LandedSteps, FinishSteps, RollbackSteps
<1>0. j \in Journal /\ TypeOK /\ CallAt /\ JournalAt
  BY DEF CallInv, ClosedInv, TypeInv, TypeOK
<1>1. ASSUME NEW p \in Parts, NothingMoved(p)
      PROVE  LoanInv'
  BY <1>1, QuietLoan DEF NothingMoved
<1>2. ASSUME NEW p \in Parts, RemoveInstalled(p)
      PROVE  LoanInv'
  <2>1. /\ UNCHANGED <<rollback, active, j, orig, accepted>> /\ rollback[p] # "absent"
        /\ \A q \in Parts \ {p} : live'[q] = live[q]
        /\ pc = "rollback" /\ pc' = "put-back"
    BY <1>0, <1>2 DEF RemoveInstalled, TypeOK
  <2>2. Tracked /\ Tracked'
    BY <2>1, RecoveryIsTracked DEF Tracked
  <2>3. CanUndo'
    BY <2>1 DEF LoanInv, CanUndo, Undone, Back
  <2> QED
    BY <2>1, <2>2, <2>3
    DEF LoanInv, SnapshotMatches, SnapshotIsOwn, GivenBack, NothingStranded
<1>3. CASE PutBack
  <2>1. /\ UNCHANGED <<active, j, orig, accepted>> /\ pc = "put-back" /\ pc' = "rollback"
        /\ at \in Parts /\ rollback[at] # "absent"
        /\ live' = [live EXCEPT ![at] =
                        IF rollback[at] = "marker" THEN "absent" ELSE rollback[at]]
        /\ rollback' = [rollback EXCEPT ![at] = "absent"]
    BY <1>0, <1>3 DEF PutBack, PassInv, RollbackGoes, TypeOK
  <2>2. Tracked /\ Tracked'
    BY <2>1, RecoveryIsTracked DEF Tracked
  <2>3. \A q \in Parts \ {at} : live'[q] = live[q] /\ rollback'[q] = rollback[q]
    BY <1>0, <2>1 DEF TypeOK
  <2>4. \A q \in Parts : q = at => Undone(q)' = Undone(q)
    BY <1>0, <2>1 DEF Undone, TypeOK
  <2>5. CanUndo'
    BY <2>1, <2>3, <2>4 DEF LoanInv, CanUndo, Undone, Back
  <2> QED
    BY <2>1, <2>2, <2>5
    DEF LoanInv, SnapshotMatches, SnapshotIsOwn, GivenBack, NothingStranded
<1>4. CASE Interrupt
  <2>1. UNCHANGED <<active, j, orig, accepted>> /\ op' = "idle" /\ pc' = "idle" /\ CutShort
    BY <1>4 DEF Interrupt
  <2>2. CASE UNCHANGED <<live, rollback>>
    BY <2>1, <2>2
    DEF LoanInv, SnapshotMatches, SnapshotIsOwn, CanUndo, Undone, Back, GivenBack,
        NothingStranded, Tracked
  <2>3. CASE pc = "clear-rollback" /\ rollback' = [rollback EXCEPT ![at] = Remains(@)] /\ live' = live
    <3>1. at \in todo /\ at \in Parts
      BY <1>0, <2>3 DEF PassInv, PassDone, PassSteps, PartSteps, TypeOK
    <3>2. active /\ j.phase \in BeforeKitLanded => rollback' = rollback
      <4>1. j.phase \in BeforeKitLanded => op = "Enter"
        BY <1>0, <2>3 DEF JournalAt, PassSteps, BeforeKitLanded
      <4>2. op = "Enter" => rollback[at] = "absent"
        BY <2>3, <3>1 DEF PassInv, EnterOnce, Ahead, PassSteps
      <4> QED
        BY <1>0, <2>3, <3>1, <4>1, <4>2, RemainsType DEF TypeOK
    <3>3. CanUndo'
      BY <2>1, <2>3, <3>2 DEF LoanInv, CanUndo, Undone, Back
    <3> QED
      BY <2>1, <2>3, <3>3
      DEF LoanInv, SnapshotMatches, SnapshotIsOwn, GivenBack, NothingStranded, Tracked
  <2>4. CASE /\ pc = "move-aside" /\ live[at] = "absent" /\ live' = live
             /\ rollback' = [rollback EXCEPT ![at] = "empty"]
    <3>1. at \in todo /\ at \in Parts
      BY <1>0, <2>4 DEF PassInv, PassDone, PassSteps, PartSteps, TypeOK
    <3>2. active /\ j.phase \in BeforeKitLanded => rollback[at] = "absent"
      <4>1. j.phase \in BeforeKitLanded => op = "Enter"
        BY <1>0, <2>4 DEF JournalAt, PassSteps, BeforeKitLanded
      <4> QED
        BY <2>4, <3>1, <4>1 DEF PassInv, EnterOnce, Ahead, PassSteps
    <3>3. \A q \in Parts : q = at => /\ rollback[q] = "absent" => Undone(q) = "absent"
                                    /\ Undone(q)' = "empty"
      BY <1>0, <2>4, <3>1 DEF Undone, TypeOK
    <3>4. \A q \in Parts \ {at} : rollback'[q] = rollback[q]
      BY <1>0, <2>4 DEF TypeOK
    <3>5. CanUndo'
      BY <2>1, <2>4, <3>2, <3>3, <3>4 DEF LoanInv, CanUndo, Undone, Back, SameSetup, Blank
    <3> QED
      BY <2>1, <2>4, <3>5
      DEF LoanInv, SnapshotMatches, SnapshotIsOwn, GivenBack, NothingStranded, Tracked
  <2>5. ASSUME pc = "rollback", NEW p \in todo, rollback[p] # "absent", rollback' = rollback,
               live' = [live EXCEPT ![p] = Remains(@)]
        PROVE  LoanInv'
    <3>1. Tracked /\ Tracked'
      BY <1>0, <2>1, <2>5, RecoveryIsTracked DEF Tracked, TypeOK
    <3>2. \A q \in Parts \ {p} : live'[q] = live[q]
      BY <1>0, <2>5 DEF TypeOK
    <3>3. CanUndo'
      BY <2>1, <2>5, <3>2 DEF LoanInv, CanUndo, Undone, Back
    <3> QED
      BY <2>1, <3>1, <3>3
      DEF LoanInv, SnapshotMatches, SnapshotIsOwn, GivenBack, NothingStranded
  <2>6. CASE /\ pc = "put-back" /\ rollback[at] = "marker" /\ live' = live
             /\ rollback' = [rollback EXCEPT ![at] = "empty"]
    <3>1. at \in Parts
      BY <1>0, <2>6 DEF PassInv, RollbackGoes, TypeOK
    <3>2. \A q \in Parts : q = at => Undone(q) = "absent" /\ Undone(q)' = "empty"
      BY <1>0, <2>6, <3>1 DEF Undone, TypeOK
    <3>3. \A q \in Parts \ {at} : rollback'[q] = rollback[q]
      BY <1>0, <2>6 DEF TypeOK
    <3>4. CanUndo'
      BY <2>1, <2>6, <3>2, <3>3 DEF LoanInv, CanUndo, Undone, Back, SameSetup, Blank
    <3> QED
      BY <2>1, <2>6, <3>4
      DEF LoanInv, SnapshotMatches, SnapshotIsOwn, GivenBack, NothingStranded, Tracked
  <2> QED
    BY <2>1, <2>2, <2>3, <2>4, <2>5, <2>6 DEF CutShort
<1>5. CASE UserTogglesSteam \/ \E a \in Accounts : UserSignsIn(a)
  BY <1>5, QuietLoan DEF UserTogglesSteam, UserSignsIn
<1>6. ASSUME NEW p \in Parts, Play(p)
      PROVE  LoanInv'
  <2>1. UNCHANGED <<rollback, active, j, op, pc, orig, accepted>>
        /\ live' = [live EXCEPT ![p] = Played(@)]
    BY <1>6 DEF Play
  <2>2. \A q \in Parts \ {p} : live'[q] = live[q]
    BY <1>0, <2>1 DEF TypeOK
  <2>3. live[p] \in Tree /\ live'[p] = Played(live[p])
    BY <1>0, <2>1 DEF TypeOK
  <2>4. active /\ j.saved /\ ~accepted /\ Back(live[p], p) => Back(live'[p], p)
    BY <2>3, BackPlayed DEF LoanInv, SnapshotIsOwn
  <2>5. CanUndo'
    BY <2>1, <2>2, <2>4 DEF LoanInv, CanUndo, Undone, Back
  <2>6. GivenBack'
    <3>1. SUFFICES ASSUME GivenBack!1
                   PROVE  \A q \in Parts : Back(live'[q], q)
      BY <2>1 DEF GivenBack, Back
    <3>2. j.saved
      BY <1>0, <3>1 DEF CallAt, JournalAt, Working
    <3> QED
      BY <2>2, <2>4, <3>1, <3>2 DEF LoanInv, GivenBack
  <2>7. NothingStranded'
    <3>1. live[p] \notin Overlay \cup {"torn"} => live'[p] = "edited"
      BY <2>3 DEF Played
    <3> QED
      BY <2>1, <2>2, <3>1 DEF LoanInv, NothingStranded, Tracked, Overlay
  <2> QED
    BY <2>1, <2>5, <2>6, <2>7 DEF LoanInv, SnapshotMatches, SnapshotIsOwn
<1> QED
  BY <1>1, <1>2, <1>3, <1>4, <1>5, <1>6 DEF World

\* KitInv is inductive.
LEMMA NextKit ==
    ASSUME ~AnyAnswer, KitInv, [Next]_vars
    PROVE  KitInv'
<1>1. CallInv' /\ PassInv'
  BY NextCall, NextPass DEF KitInv
<1>2. CASE UNCHANGED vars
  BY <1>1, <1>2, QuietLoan DEF vars, disk, memory, ghosts, KitInv
<1>3. CASE Next
  BY <1>1, <1>3, BeginsLoan, StepsLoan, ReplaceLoan, OtherLoan DEF Next, EngineStep, Fault, KitInv
<1> QED
  BY <1>2, <1>3

\* It holds in every reachable state.
LEMMA KitInvariant ==
    ASSUME ~AnyAnswer PROVE Spec => []KitInv
<1>1. Init => KitInv
  BY InitCall, InitPass, InitLoan DEF KitInv
<1>2. KitInv /\ [Next]_vars => KitInv'
  BY NextKit
<1> QED
  BY <1>1, <1>2, PTL DEF Spec
-----------------------------------------------------------------------------
(* The properties.                                                         *)

(* Whenever no transaction stands that could give the account its setup    *)
(* back, it carries none of the kit, no half-removed tree and no hole.     *)
(* Enter, Leave: engine.go:324-628; Resolve: recovery.go:141-249.          *)
THEOREM NothingIsStranded ==
    ASSUME ~AnyAnswer PROVE Spec => []NothingStranded
<1>1. KitInv => NothingStranded
  BY DEF KitInv, LoanInv
<1> QED
  BY <1>1, KitInvariant, PTL

(* The snapshot a restore writes back is the owner's own setup, whole and  *)
(* as it was when it was saved.  engine.go:281-320, recovery.go:352-393.   *)
THEOREM SnapshotStaysTheirs ==
    ASSUME ~AnyAnswer PROVE Spec => []SnapshotIsTheirs
<1>1. KitInv => SnapshotIsTheirs
  BY DEF KitInv, LoanInv, SnapshotMatches, SnapshotIsOwn, SnapshotIsTheirs
<1> QED
  BY <1>1, KitInvariant, PTL

\* Equality of setups, as a restore needs it.
LEMMA SameSetupTrans ==
    \A a, b, c : SameSetup(a, b) /\ SameSetup(b, c) => SameSetup(a, c)
  BY DEF SameSetup

(* A restore that is recorded as done has put back what was saved, part by *)
(* part, whatever crashes and recoveries came before.  engine.go:630-714.  *)
THEOREM RestoresAreExact ==
    ASSUME ~AnyAnswer PROVE Spec => RestoreIsExact
<1>1. ASSUME KitInv, [Next]_vars, pc = "setup-restored", pc' # pc,
             NEW p \in Parts, j.saved
      PROVE  SameSetup(live'[p], orig[p])
  <2>1. Next /\ TypeOK /\ CallAt /\ JournalAt
    BY <1>1 DEF vars, memory, KitInv, CallInv, ClosedInv, TypeInv
  <2>2. live' = live
    <3>1. ~\E q \in Parts : Play(q)
      BY <1>1 DEF Play, memory
    <3> QED
      BY <1>1, <2>1, <3>1, LiveWriters
  <2>3. Landed(p) /\ ~Applying /\ active
    BY <1>1, <2>1 DEF KitInv, PassInv, AllLanded, LandedSteps, CallAt, JournalAt, Working, Open,
                      FinishSteps, Applying
  <2>4. SameSetup(live[p], j.theirs[p])
    BY <2>3 DEF Landed, SrcAbsent, Source, SameSetup, Blank
  <2>5. SameSetup(j.theirs[p], orig[p])
    BY <1>1, <2>3 DEF KitInv, LoanInv, SnapshotMatches
  <2> QED
    BY <2>2, <2>4, <2>5, SameSetupTrans
<1>2. KitInv /\ [Next]_vars
        => [pc = "setup-restored" /\ pc' # pc /\ j'.phase = "setup-restored"
              => \A p \in Parts : j.saved => SameSetup(live'[p], orig[p])]_vars
  BY <1>1
<1> QED
  BY <1>2, KitInvariant, PTL DEF Spec, RestoreIsExact

(* Enter writes the login of the shared account only when every part the   *)
(* kit has content for is the kit's.  engine.go:324-543.                   *)
THEOREM KitLandsFirst ==
    ASSUME ~AnyAnswer PROVE Spec => KitLandsBeforeLogin
<1>1. ASSUME KitInv, op = "Enter", pc = "write-login", NEW p \in Parts, j.kit[p] \notin Blank
      PROVE  live[p] = "kit"
  <2>1. Landed(p) /\ Applying /\ active
    BY <1>1 DEF KitInv, CallInv, PassInv, AllLanded, LandedSteps, JournalAt, Working, Open,
                FinishSteps, Applying
  <2>2. j.kit[p] \in {"kit", "empty"}
    BY <1>1, <2>1 DEF KitInv, PassInv, KitIsAKit
  <2> QED
    BY <1>1, <2>1, <2>2 DEF Landed, SrcAbsent, Source, Blank
<1>2. KitInv /\ [Next]_vars
        => [op = "Enter" /\ pc = "write-login" /\ op' # "idle"
              => \A p \in Parts : j.kit[p] \notin Blank => live[p] = "kit"]_vars
  BY <1>1
<1> QED
  BY <1>2, KitInvariant, PTL DEF Spec, KitLandsBeforeLogin

\* Only an Advance writes a phase, unless the journal is made or dropped.
LEMMA PhaseWriters ==
    ASSUME TypeOK, Next, j'.phase # j.phase
    PROVE  j'.phase = "planned" \/ (pc \in Phases /\ j'.phase = pc)
<1>0. j \in Journal
  BY DEF TypeOK
<1>1. CASE Begins \/ Resolve
  BY <1>1
  DEF Begins, BeginEnter, BeginPlainSwitch, BeginLeave, Resolve, ResolveRestoreTheirs,
      ResolveKeepCurrent, ResolveAcceptCurrent, ResolveAbandon, Begin, disk
<1>2. CASE Advance \/ AdvanceToRest
  BY <1>0, <1>2, AdvancedJournal DEF Advance, AdvanceToRest, Phases
<1>3. CASE Publish
  BY <1>3, PublishedJournal
<1>4. CASE ClearActive \/ DropTransaction
  BY <1>4 DEF ClearActive, DropTransaction, Forget, NoJournal, NewJournal
<1>5. CASE SaveTheirSetup \/ LogStaged \/ LogOldMoved \/ LogInstalled \/ LogVerified \/ RecordPass
           \/ RollbackDone
  <2>1. \/ \E t, s : j' = [j EXCEPT !.theirs = t, !.saved = s]
        \/ \E a, s : j' = [j EXCEPT !.part[a] = s]
        \/ \E s : j' = [j EXCEPT !.applied = s] \/ j' = j
        \/ \E s : j' = [j EXCEPT !.part = s]
    BY <1>5 DEF SaveTheirSetup, LogStaged, LogOldMoved, LogInstalled, LogVerified, LogPart,
                RecordPass, RollbackDone
  <2> QED
    BY <1>0, <2>1 DEF Journal
<1>6. CASE (EngineStep /\ j' = j) \/ Fault \/ World
  BY <1>6
  DEF Fault, StageShort, StageCopy, ReleaseRollbackFails, Release, ReleaseVerifiedFails,
      ReconcileLoginFails, ClearActiveFails, DropTransactionFails, Interrupt, World,
      UserTogglesSteam, UserSignsIn, Play, disk
<1>7. CASE EngineStep /\ j' # j
  BY <1>2, <1>3, <1>4, <1>5, <1>7
  DEF EngineStep, EnsureClosed, StartPart, SkipPart, NothingMoved, RemoveInstalled, Stage,
      StageCopy, ClearRollback, MoveAside, Install, VerifyFails, ReleaseRollback, Release,
      CheckExternalChange, ReleaseVerified, PutBack, WriteLogin, LaunchSteam, ReconcileLogin,
      ReleaseScratch, disk
<1> QED
  BY <1>1, <1>6, <1>7 DEF Next

(* KeepCurrent after an interrupted Enter calls the kit live only if some  *)
(* of it is on the account.  recovery.go:141-249, 284-298.                 *)
THEOREM KeptKitIsReal ==
    ASSUME ~AnyAnswer PROVE Spec => KeptKitIsThere
<1>1. ASSUME KitInv, [Next]_vars, op = "KeepCurrent", j.phase \in BeforeKitLanded,
             j'.phase = "kept-active"
      PROVE  \E p \in Parts : live[p] \in Overlay
  <2>1. j'.phase # j.phase
    BY <1>1 DEF BeforeKitLanded
  <2>2. pc = "kept-active" /\ CallInv /\ PassInv
    BY <1>1, <2>1, PhaseWriters DEF vars, disk, KitInv, CallInv, ClosedInv, TypeInv
  <2>3. HasCompletedWrites /\ active
    BY <1>1, <2>2 DEF CallInv, PassInv, KeptHasSome, JournalAt, Working, Open, FinishSteps
  <2> QED
    BY <1>1, <2>2, <2>3 DEF PassInv, VerifiedIsKit, HasCompletedWrites
<1>2. KitInv /\ [Next]_vars
        => [op = "KeepCurrent" /\ j.phase \in BeforeKitLanded /\ j'.phase = "kept-active"
              => \E p \in Parts : live[p] \in Overlay]_vars
  BY <1>1
<1> QED
  BY <1>2, KitInvariant, PTL DEF Spec, KeptKitIsThere
-----------------------------------------------------------------------------
(* Leave asks first.                                                       *)

\* The trees Leave is about to replace are the kit as the engine wrote it.
AskInv ==
    /\ active => j.applied \in {{}, {p \in Parts : j.kit[p] \notin Blank}}
    /\ op = "Leave" /\ pc \in {"release-verified", "restoring"} =>
           \A p \in Parts : j.kit[p] \notin Blank => live[p] = j.kit[p]
    /\ op = "Leave" /\ pc \in PassSteps =>
           \A p \in todo : Ahead(p) /\ j.kit[p] \notin Blank => live[p] = j.kit[p]

\* A step that is not on its way into the pass of Leave, and keeps the journal.
LEMMA QuietAsk ==
    ASSUME AskInv, active' => active /\ j'.applied = j.applied /\ j'.kit = j.kit,
           op' = "Leave" => pc' \notin PassSteps \cup {"release-verified", "restoring"}
    PROVE  AskInv'
  BY DEF AskInv

\* What is checked stays so until it is replaced.
LEMMA NextAsk ==
    ASSUME CallInv, CallInv', PassInv, AskInv, [Next]_vars
    PROVE  AskInv'
<1> USE DEF Goto, Return, Begin, disk, memory
<1>0. j \in Journal /\ TypeOK /\ CallAt /\ JournalAt /\ CallAt' /\ ClosedInv
  BY DEF CallInv, ClosedInv, TypeInv, TypeOK
<1>1. CASE Begins \/ Resolve
  BY <1>1, QuietAsk
  DEF Begins, BeginEnter, BeginPlainSwitch, BeginLeave, Resolve, ResolveRestoreTheirs,
      ResolveKeepCurrent, ResolveAcceptCurrent, ResolveAbandon, PassSteps
<1>2. CASE EnsureClosed
  BY <1>2, QuietAsk DEF EnsureClosed, PassSteps
<1>3. CASE Publish
  <2>1. j'.applied = {} /\ op' = "Enter"
    BY <1>0, <1>3, PublishedJournal DEF Publish, CallAt
  <2> QED
    BY <2>1 DEF AskInv
<1>4. CASE Advance \/ AdvanceToRest
  <2>1. j'.applied = j.applied /\ j'.kit = j.kit /\ UNCHANGED <<active, live>>
    BY <1>0, <1>4, AdvancedJournal DEF Advance, AdvanceToRest
  <2>2. CASE pc = "restoring" /\ op = "Leave"
    <3>1. pc' = "next-part"
      BY <1>4, <2>2 DEF Advance, AdvanceToRest, AfterAdvance, RestingPhases, KitPhases
    <3>2. todo' \subseteq Parts
      BY <1>4, <2>2 DEF Advance, AdvanceToRest, RestingPhases, KitPhases
    <3> QED
      BY <2>1, <2>2, <3>1, <3>2 DEF AskInv
  <2>3. CASE ~(pc = "restoring" /\ op = "Leave")
    <3>1. op' = "Leave" => op = "Leave" /\ pc' \notin PassSteps \cup {"release-verified", "restoring"}
      <4>1. CASE Advance
        BY <1>0, <2>3, <4>1
        DEF Advance, AfterAdvance, CallAt, Phases, RestingPhases, KitPhases, BeforeKitLanded, PassSteps
      <4>2. CASE AdvanceToRest
        BY <4>2 DEF AdvanceToRest, PassSteps
      <4> QED
        BY <1>4, <4>1, <4>2
    <3> QED
      BY <2>1, <3>1, QuietAsk
  <2> QED
    BY <2>2, <2>3
<1>5. CASE SaveTheirSetup \/ RollbackDone
  <2>1. j'.applied = j.applied /\ j'.kit = j.kit /\ UNCHANGED active
    BY <1>0, <1>5 DEF SaveTheirSetup, RollbackDone, Journal
  <2>2. op' # "Leave"
    BY <1>0, <1>5 DEF SaveTheirSetup, RollbackDone, CallAt, RollbackSteps
  <2> QED
    BY <2>1, <2>2, QuietAsk
<1>6. CASE CheckExternalChange
  <2>1. UNCHANGED <<live, active, j>> /\ pc' \in {"release-verified", "external-change-blocked"}
    BY <1>6 DEF CheckExternalChange
  <2>2. pc' = "release-verified" =>
            \A p \in Parts : j.kit[p] \notin Blank => live[p] = j.kit[p]
    <3>1. pc' = "release-verified" => \A p \in Expected : live[p] = j.kit[p]
      BY <1>6 DEF CheckExternalChange
    <3>2. active
      BY <1>0, <1>6 DEF CheckExternalChange, CallAt, JournalAt, Working, Open, FinishSteps
    <3> QED
      BY <3>1, <3>2 DEF Expected, AskInv
  <2> QED
    BY <2>1, <2>2 DEF AskInv, PassSteps
<1>7. CASE ReleaseVerified \/ ReleaseVerifiedFails
  BY <1>7 DEF ReleaseVerified, ReleaseVerifiedFails, AskInv, PassSteps
<1>8. CASE WriteLogin \/ LaunchSteam \/ ReconcileLogin \/ ReconcileLoginFails
           \/ ClearActiveFails \/ DropTransactionFails \/ ReleaseScratch
  BY <1>8, QuietAsk
  DEF WriteLogin, LaunchSteam, ReconcileLogin, ReconcileLoginFails, ClearActiveFails,
      DropTransactionFails, ReleaseScratch, PassSteps
<1>9. CASE ClearActive \/ DropTransaction
  BY <1>9, QuietAsk DEF ClearActive, DropTransaction, Forget, PassSteps
<1>10. ASSUME NEW p \in Parts, StartPart(p) \/ SkipPart(p)
       PROVE  AskInv'
  <2>1. UNCHANGED <<live, active, j, op>> /\ pc = "next-part" /\ todo' \subseteq todo
        /\ \A q \in todo : Ahead(q)
    BY <1>10 DEF StartPart, SkipPart, Ahead
  <2> QED
    BY <1>10, <2>1 DEF StartPart, SkipPart, AskInv, PassSteps
<1>11. CASE Stage \/ StageShort \/ ClearRollback
  BY <1>11 DEF Stage, StageShort, StageCopy, ClearRollback, AskInv, PassSteps, Ahead
<1>12. CASE LogStaged \/ LogOldMoved \/ LogInstalled \/ LogVerified
  <2>1. j'.applied = j.applied /\ j'.kit = j.kit
        /\ UNCHANGED <<live, active, op, at, todo>>
    BY <1>0, <1>12 DEF LogStaged, LogOldMoved, LogInstalled, LogVerified, LogPart, Journal
  <2>2. \A q \in todo : Ahead(q)' => Ahead(q)
    BY <1>12, <2>1 DEF LogStaged, LogOldMoved, LogInstalled, LogVerified, LogPart, Ahead
  <2> QED
    BY <1>12, <2>1, <2>2
    DEF LogStaged, LogOldMoved, LogInstalled, LogVerified, LogPart, AskInv, PassSteps
<1>13. CASE MoveAside \/ Install
  <2>1. UNCHANGED <<active, j, op, at, todo>> /\ pc \in PassSteps
        /\ \A q \in Parts \ {at} : live'[q] = live[q]
    BY <1>0, <1>13 DEF MoveAside, Install, TypeOK, PassSteps
  <2>2. \A q \in todo : Ahead(q)' => Ahead(q) /\ q # at /\ q \in Parts
    BY <1>0, <1>13, <2>1 DEF MoveAside, Install, Ahead, TypeOK
  <2>3. pc' \notin {"release-verified", "restoring"}
    BY <1>13 DEF MoveAside, Install
  <2> QED
    BY <2>1, <2>2, <2>3 DEF AskInv
<1>14. CASE VerifyFails \/ Interrupt
  BY <1>14, QuietAsk DEF VerifyFails, Interrupt, PassSteps
<1>15. CASE ReleaseRollback \/ ReleaseRollbackFails
  <2>1. UNCHANGED <<live, active, j, op>> /\ pc = "release-rollback" /\ pc' = "next-part"
        /\ todo' = todo \ {at}
    BY <1>15 DEF ReleaseRollback, ReleaseRollbackFails, Release
  <2>2. \A q \in todo' : q \in todo /\ Ahead(q)
    BY <2>1 DEF Ahead
  <2> QED
    BY <2>1, <2>2 DEF AskInv, PassSteps
<1>16. CASE RecordPass
  <2>1. /\ j'.kit = j.kit /\ active' = active /\ pc' \in {"kit-applied", "setup-restored"}
        /\ j'.applied = IF Applying THEN {p \in Parts : j.kit[p] \notin Blank} ELSE j.applied
    BY <1>0, <1>16 DEF RecordPass, Journal
  <2> QED
    BY <2>1 DEF AskInv, PassSteps
<1>17. ASSUME NEW p \in Parts, NothingMoved(p) \/ RemoveInstalled(p)
       PROVE  AskInv'
  BY <1>0, <1>17, QuietAsk DEF NothingMoved, RemoveInstalled, CallAt, RollbackSteps, PassSteps
<1>18. CASE PutBack
  BY <1>18, QuietAsk DEF PutBack, PassSteps
<1>19. CASE UserTogglesSteam \/ \E a \in Accounts : UserSignsIn(a)
  BY <1>19 DEF UserTogglesSteam, UserSignsIn, AskInv, Ahead
<1>20. ASSUME NEW p \in Parts, Play(p)
       PROVE  AskInv'
  <2>1. UNCHANGED <<active, j, op, pc>> /\ steam
    BY <1>20 DEF Play
  <2>2. op = "Leave" => pc \notin PassSteps \cup {"release-verified", "restoring"}
    BY <1>0, <2>1
    DEF ClosedInv, SteamIsClosed, ClosedSteps, OpenSteps, Steps, RestingPhases, KitPhases,
        FinishSteps, Phases, BeforeKitLanded, PassSteps
  <2> QED
    BY <2>1, <2>2, QuietAsk
<1>21. CASE UNCHANGED vars
  BY <1>21 DEF vars, AskInv, Ahead
<1> QED
  BY <1>1, <1>2, <1>3, <1>4, <1>5, <1>6, <1>7, <1>8, <1>9, <1>10, <1>11, <1>12, <1>13, <1>14,
     <1>15, <1>16, <1>17, <1>18, <1>19, <1>20, <1>21
  DEF Next, EngineStep, Fault, World
\* AskInv holds in every reachable state, beside KitInv.
LEMMA AskInvariant ==
    ASSUME ~AnyAnswer PROVE Spec => []AskInv
<1>1. Init => AskInv
  BY DEF Init, AskInv, PassSteps
<1>2. KitInv /\ KitInv' /\ AskInv /\ [Next]_vars => AskInv'
  BY NextAsk DEF KitInv
<1> QED
  BY <1>1, <1>2, KitInvariant, PTL DEF Spec

(* Leave replaces a tree the kit has content for only if it is still the   *)
(* kit as the engine wrote it, whatever Home held.  engine.go:562-714.     *)
THEOREM LeaveReplacesOnlyTheKit ==
    ASSUME ~AnyAnswer
    PROVE  Spec => [][op = "Leave" /\ pc = "move-aside" /\ j.kit[at] \notin Blank
                        => live[at] = j.kit[at]]_vars
<1>1. ASSUME KitInv, AskInv, op = "Leave", pc = "move-aside", j.kit[at] \notin Blank
      PROVE  live[at] = j.kit[at]
  BY <1>1 DEF KitInv, PassInv, PassDone, PassSteps, PartSteps, AskInv, Ahead
<1>2. KitInv /\ AskInv
        => [op = "Leave" /\ pc = "move-aside" /\ j.kit[at] \notin Blank
              => live[at] = j.kit[at]]_vars
  BY <1>1
<1> QED
  BY <1>2, KitInvariant, AskInvariant, PTL

\* A Home that keeps its settings lends a kit with content for every part.
LEMMA FullKit ==
    ASSUME ~HomeMayEmpty PROVE Spec => [](active => \A p \in Parts : j.kit[p] = "kit")
<1> DEFINE Full == active => \A p \in Parts : j.kit[p] = "kit"
<1>1. Init => Full
  BY DEF Init
<1>2. ASSUME TypeOK, Full, [Next]_vars
      PROVE  Full'
  <2>0. j \in Journal
    BY <1>2 DEF TypeOK
  <2>1. CASE Publish
    <3>1. PICK kit \in KitSources : j' = NewJournal(kit, login)
      BY <2>1 DEF Publish
    <3> QED
      BY <3>1 DEF KitSources, NewJournal
  <2>2. CASE ClearActive \/ DropTransaction
    BY <2>2 DEF ClearActive, DropTransaction, Forget
  <2>3. CASE Advance \/ AdvanceToRest
    BY <1>2, <2>0, <2>3, AdvancedJournal DEF Advance, AdvanceToRest
  <2>4. CASE SaveTheirSetup \/ LogStaged \/ LogOldMoved \/ LogInstalled \/ LogVerified \/ RecordPass
             \/ RollbackDone
    <3>1. \/ \E t, s : j' = [j EXCEPT !.theirs = t, !.saved = s]
          \/ \E a, s : j' = [j EXCEPT !.part[a] = s]
          \/ \E s : j' = [j EXCEPT !.applied = s] \/ j' = j
          \/ \E s : j' = [j EXCEPT !.part = s]
      BY <2>4 DEF SaveTheirSetup, LogStaged, LogOldMoved, LogInstalled, LogVerified, LogPart,
                  RecordPass, RollbackDone
    <3>2. active' = active
      BY <2>4 DEF SaveTheirSetup, LogStaged, LogOldMoved, LogInstalled, LogVerified, LogPart,
                  RecordPass, RollbackDone
    <3>3. j'.kit = j.kit
      BY <2>0, <3>1 DEF Journal
    <3> QED
      BY <1>2, <3>2, <3>3
  <2>5. CASE UNCHANGED <<active, j>>
    BY <1>2, <2>5
  <2> QED
    BY <1>2, <2>1, <2>2, <2>3, <2>4, <2>5
    DEF vars, disk, memory, Next, Begins, BeginEnter, BeginPlainSwitch, BeginLeave, Resolve,
        ResolveRestoreTheirs, ResolveKeepCurrent, ResolveAcceptCurrent, ResolveAbandon, Begin,
        EngineStep, EnsureClosed, StartPart, SkipPart, NothingMoved, RemoveInstalled, Stage,
        StageCopy, ClearRollback, MoveAside, Install, VerifyFails, ReleaseRollback, Release,
        CheckExternalChange, ReleaseVerified, PutBack, WriteLogin, LaunchSteam, ReconcileLogin,
        ReleaseScratch, Fault, StageShort, ReleaseRollbackFails, ReleaseVerifiedFails,
        ReconcileLoginFails, ClearActiveFails, DropTransactionFails, Interrupt, World,
        UserTogglesSteam, UserSignsIn, Play
<1> QED
  BY <1>1, <1>2, TypeCorrect, PTL DEF Spec

(* Leave replaces a tree only if it is still the kit as the engine wrote   *)
(* it; one changed by anyone else it asks about.  engine.go:562-714.       *)
THEOREM LeaveAsks ==
    ASSUME ~AnyAnswer, ~HomeMayEmpty PROVE Spec => LeaveAsksFirst
<1>1. ASSUME KitInv, AskInv, active => \A p \in Parts : j.kit[p] = "kit",
             op = "Leave", pc = "move-aside"
      PROVE  live[at] = j.kit[at]
  <2>1. active /\ at \in Parts
    BY <1>1
    DEF KitInv, CallInv, ClosedInv, TypeInv, TypeOK, PassInv, PassDone, PassSteps, PartSteps,
        JournalAt, Working, Open, FinishSteps
  <2>2. at \in todo /\ Ahead(at)
    BY <1>1 DEF KitInv, PassInv, PassDone, PassSteps, PartSteps, Ahead
  <2> QED
    BY <1>1, <2>1, <2>2 DEF AskInv, PassSteps, Blank
<1>2. KitInv /\ AskInv /\ (active => \A p \in Parts : j.kit[p] = "kit")
        => [op = "Leave" /\ pc = "move-aside" /\ op' # "idle"
              => live[at] = j.kit[at] \/ SameSetup(live[at], orig[at])]_vars
  BY <1>1
<1> QED
  BY <1>2, KitInvariant, AskInvariant, FullKit, PTL DEF LeaveAsksFirst
-----------------------------------------------------------------------------
(* The refinement: every step of the engine is a step of the loan.         *)

\* What the mapping makes of a tree.
LEMMA AsSetupType ==
    \A t \in Tree : /\ AsSetup(t) \in Promise!Setups /\ AsSetup(t) # "none"
                    /\ AsSetup(t) = "foreign" <=> t \in Overlay \cup {"torn"}
                    /\ AsSetup(Captured(t)) = AsSetup(t)
  BY DEF AsSetup, Captured, Tree, Overlay, Blank, Promise!Setups

\* Playing on the account is playing on the loan.
LEMMA AsSetupPlayed ==
    \A t \in Tree : AsSetup(Played(t)) = IF AsSetup(t) = "foreign" THEN "foreign" ELSE "edited"
  BY DEF AsSetup, Played, Tree, Overlay, Blank

\* What is given back is what the copy holds, or what was made of it since.
LEMMA AsSetupBack ==
    ASSUME NEW p, NEW t, Back(t, p)
    PROVE  AsSetup(t) \in {AsSetup(j.theirs[p]), "edited"}
  BY DEF Back, SameSetup, AsSetup, Overlay, Blank

\* A copy is held exactly while a transaction stands that could be restored from.
LEMMA HeldIsTracked ==
    ASSUME TypeOK
    PROVE  /\ Promise!Held <=> Tracked
           /\ ~Tracked => LoanCopy = Promise!NoCopy
<1>1. PICK p \in Parts : TRUE
  BY PartsAssumption
<1>2. ASSUME Tracked
      PROVE  LoanCopy # Promise!NoCopy
  <2>1. LoanCopy[p] = AsSetup(j.theirs[p])
    BY <1>2 DEF LoanCopy
  <2>2. j.theirs[p] \in Tree
    BY DEF TypeOK, Journal
  <2>3. LoanCopy[p] # "none"
    BY <2>1, <2>2, AsSetupType
  <2> QED
    BY <2>3 DEF Promise!NoCopy
<1>3. ASSUME ~Tracked
      PROVE  LoanCopy = Promise!NoCopy
  BY <1>3 DEF LoanCopy, Promise!NoCopy
<1> QED
  BY <1>2, <1>3 DEF Promise!Held

\* What the switcher shows of each journal.
LEMMA MarkOf ==
    /\ ~Open => LoanMark = "none"
    /\ Interrupted => LoanMark = "underway"
    /\ ExternalChange => LoanMark = "changed"
    /\ Open => LoanMark \in Promise!Marks \ {"none"}
  BY DEF LoanMark, KitOn, ExternalChange, Interrupted, Open, RestingPhases, KitPhases,
         Promise!Marks

\* A step the owner sees nothing of.
LEMMA StutterStep ==
    ASSUME UNCHANGED <<live, active, accepted>>,
           active => j'.phase = j.phase /\ j'.saved = j.saved /\ j'.theirs = j.theirs
    PROVE  UNCHANGED Promise!loan
  BY DEF Promise!loan, LoanSetup, LoanCopy, LoanMark, Tracked, KitOn, ExternalChange, Interrupted

\* A step that writes one part under the copy.
LEMMA WorkStep ==
    ASSUME TypeOK, TypeOK', UNCHANGED <<active, j, accepted>>, NEW p \in Parts,
           \A q \in Parts \ {p} : live'[q] = live[q],
           Tracked, Interrupted \/ ExternalChange
    PROVE  Promise!WorkOn(p)
<1>1. LoanSetup' = [LoanSetup EXCEPT ![p] = AsSetup(live'[p])]
  BY DEF LoanSetup
<1>2. AsSetup(live'[p]) \in Promise!Setups
  BY AsSetupType DEF TypeOK
<1>3. UNCHANGED <<LoanCopy, LoanMark>>
  BY DEF LoanCopy, LoanMark, Tracked, KitOn, ExternalChange, Interrupted
<1>4. Promise!Held /\ LoanMark \in {"underway", "changed"}
  BY HeldIsTracked, MarkOf
<1> QED
  BY <1>1, <1>2, <1>3, <1>4 DEF Promise!WorkOn

\* A step that moves a journal that holds the copy to another phase.
LEMMA TurnStep ==
    ASSUME TypeOK, UNCHANGED <<live, active, accepted>>, Tracked, Tracked',
           j'.theirs = j.theirs
    PROVE  Promise!Turn
<1>1. UNCHANGED <<LoanSetup, LoanCopy>>
  BY DEF LoanSetup, LoanCopy
<1>2. LoanMark' \in Promise!Marks \ {"none"}
  BY DEF LoanMark, Tracked, KitOn, ExternalChange, Interrupted, RestingPhases, KitPhases,
         Promise!Marks
<1> QED
  BY <1>1, <1>2, HeldIsTracked DEF Promise!Turn

\* A step that ends the visit with everything given back, or declared theirs.
LEMMA GiveBackStep ==
    ASSUME TypeOK, TypeOK', UNCHANGED <<live, accepted>>, Tracked, ~Open', Interrupted,
           ~accepted => \A p \in Parts : Back(live[p], p)
    PROVE  Promise!GiveBack
<1>1. LoanSetup' = LoanSetup
  BY DEF LoanSetup
<1>2. LoanCopy' = Promise!NoCopy /\ LoanMark' = "none"
  BY DEF LoanCopy, Promise!NoCopy, Tracked, Open, LoanMark, KitOn, ExternalChange, Interrupted,
         RestingPhases, KitPhases
<1>3. accepted \/ Promise!Returned
  <2>1. ASSUME ~accepted, NEW p \in Parts
        PROVE  LoanSetup[p] \in {LoanCopy[p], "edited"}
    BY <2>1, AsSetupBack DEF LoanSetup, LoanCopy
  <2> QED
    BY <2>1 DEF Promise!Returned
<1> QED
  BY <1>1, <1>2, <1>3, HeldIsTracked, MarkOf DEF Promise!GiveBack

\* The journal is dropped by a call that has given the setup back, has the
\* owner's word for it, or never held a copy.
LEMMA ForgetStep ==
    ASSUME KitInv, TypeOK', ClearActive \/ DropTransaction
    PROVE  Promise!Next \/ UNCHANGED Promise!loan
<1>0. /\ TypeOK /\ CallAt /\ JournalAt /\ pc \in FinishSteps /\ ~active'
      /\ UNCHANGED <<live, accepted>>
  BY DEF KitInv, CallInv, ClosedInv, TypeInv, ClearActive, DropTransaction, Forget, FinishSteps, ghosts, Goto, Return, disk, memory
<1>1. LoanSetup' = LoanSetup /\ LoanCopy' = Promise!NoCopy /\ LoanMark' = "none"
  BY <1>0 DEF LoanSetup, LoanCopy, Promise!NoCopy, Tracked, LoanMark, KitOn, ExternalChange, Interrupted
<1>2. CASE ~Open
  <2>1. LoanMark = "none" /\ LoanCopy = Promise!NoCopy
    BY <1>0, <1>2, MarkOf, HeldIsTracked DEF Tracked, Open
  <2> QED
    BY <1>0, <1>1, <2>1 DEF Promise!loan
<1>3. CASE Open /\ op = "KeepCurrent"
  <2>1. Tracked /\ Interrupted
    BY <1>0, <1>3 DEF JournalAt, Open, Tracked, Interrupted, BeforeKitLanded, RestingPhases, KitPhases
  <2>2. ~accepted => \A p \in Parts : Back(live[p], p)
    BY <1>0, <1>3 DEF KitInv, LoanInv, GivenBack, Open
  <2> QED
    BY <1>0, <2>1, <2>2, GiveBackStep DEF Open, Promise!Next
<1>4. CASE Open /\ op = "AcceptCurrent"
  <2>1. Tracked /\ ExternalChange /\ accepted
    BY <1>0, <1>4 DEF JournalAt, Open, Tracked, ExternalChange, Opening
  <2> QED
    BY <1>0, <1>1, <2>1, MarkOf, HeldIsTracked DEF Promise!LetGo, Promise!Next
<1>5. CASE Open /\ op = "Abandon"
  <2>1. ~Tracked /\ Interrupted
    BY <1>0, <1>5 DEF JournalAt, Open, Tracked
  <2> QED
    BY <1>0, <1>1, <2>1, MarkOf, HeldIsTracked DEF Promise!CallOff, Promise!Next
<1> QED
  BY <1>0, <1>2, <1>3, <1>4, <1>5 DEF CallAt, JournalAt, Open

\* The steps of a call outside a pass.
LEMMA StepsPromise ==
    ASSUME KitInv, TypeOK',
           \/ EnsureClosed \/ Publish \/ Advance \/ AdvanceToRest
           \/ SaveTheirSetup \/ CheckExternalChange \/ ReleaseVerified
           \/ ReleaseVerifiedFails \/ RollbackDone
           \/ WriteLogin \/ LaunchSteam \/ ReconcileLogin \/ ReconcileLoginFails
           \/ ClearActive \/ ClearActiveFails \/ DropTransaction
           \/ DropTransactionFails \/ ReleaseScratch
    PROVE  Promise!Next \/ UNCHANGED Promise!loan
<1> USE DEF Goto, disk, ghosts
<1>0. j \in Journal /\ TypeOK /\ CallAt /\ JournalAt
  BY DEF KitInv, CallInv, ClosedInv, TypeInv, TypeOK
<1>1. CASE \/ EnsureClosed \/ CheckExternalChange \/ ReleaseVerified \/ ReleaseVerifiedFails
           \/ WriteLogin \/ LaunchSteam \/ ReconcileLogin \/ ReconcileLoginFails
           \/ ClearActiveFails \/ DropTransactionFails \/ ReleaseScratch
  BY <1>1, StutterStep
  DEF EnsureClosed, CheckExternalChange, ReleaseVerified, ReleaseVerifiedFails, WriteLogin,
      LaunchSteam, ReconcileLogin, ReconcileLoginFails, ClearActiveFails, DropTransactionFails,
      ReleaseScratch
<1>2. CASE ClearActive \/ DropTransaction
  BY <1>0, <1>2, ForgetStep
<1>3. CASE RollbackDone
  <2>1. j'.phase = j.phase /\ j'.saved = j.saved /\ j'.theirs = j.theirs
    BY <1>0, <1>3 DEF RollbackDone, Journal
  <2> QED
    BY <1>3, <2>1, StutterStep DEF RollbackDone
<1>4. CASE Publish
  <2>1. j'.phase = "planned" /\ ~j'.saved /\ active' /\ ~Open /\ UNCHANGED <<live, accepted>>
    BY <1>0, <1>4, PublishedJournal DEF Publish, CallAt, JournalAt, BeforeKitLanded
  <2>2. LoanMark = "none" /\ LoanMark' = "underway"
    BY <2>1, MarkOf DEF LoanMark, KitOn, ExternalChange, Interrupted, RestingPhases, KitPhases
  <2>3. LoanSetup' = LoanSetup /\ LoanCopy' = LoanCopy
    BY <2>1 DEF LoanSetup, LoanCopy, Tracked, Open
  <2> QED
    BY <2>1, <2>2, <2>3 DEF Promise!Announce, Promise!Next
<1>5. CASE SaveTheirSetup
  <2>1. /\ j'.phase = j.phase /\ j'.saved
        /\ j'.theirs = [p \in Parts |-> Captured(live[p])]
    BY <1>0, <1>5 DEF SaveTheirSetup, Journal
  <2>2. UNCHANGED <<live, active, accepted>>
    BY <1>5 DEF SaveTheirSetup
  <2>3. active /\ ~j.saved /\ j.phase = "snapshotting"
    BY <1>0, <1>5 DEF SaveTheirSetup, CallAt, JournalAt, Working, Open, FinishSteps
  <2>4. ~Tracked /\ Tracked' /\ Interrupted
    BY <2>1, <2>2, <2>3 DEF Tracked, Interrupted, RestingPhases, KitPhases
  <2>5. LoanCopy' = LoanSetup
    <3>1. \A p \in Parts : AsSetup(j'.theirs[p]) = AsSetup(live[p])
      BY <1>0, <2>1, AsSetupType DEF TypeOK
    <3> QED
      BY <2>4, <3>1 DEF LoanCopy, LoanSetup
  <2>6. UNCHANGED <<LoanSetup, LoanMark>>
    BY <2>1, <2>2, <2>3 DEF LoanSetup, LoanMark, KitOn, ExternalChange, Interrupted
  <2>7. accepted \/ \A p \in Parts : LoanSetup[p] # "foreign"
    BY <1>0, <2>4, AsSetupType DEF KitInv, LoanInv, NothingStranded, LoanSetup, TypeOK
  <2> QED
    BY <1>0, <2>2, <2>4, <2>5, <2>6, <2>7, HeldIsTracked, MarkOf
    DEF Promise!TakeCopy, Promise!Next
<1>6. CASE Advance \/ AdvanceToRest
  <2>1. j'.phase = pc /\ j'.saved = j.saved /\ j'.theirs = j.theirs
        /\ UNCHANGED <<live, active, accepted>>
    BY <1>0, <1>6, AdvancedJournal DEF Advance, AdvanceToRest
  <2>2. Open /\ pc \in Phases
    BY <1>0, <1>6
    DEF Advance, AdvanceToRest, CallAt, JournalAt, Working, Phases, RestingPhases, KitPhases,
        BeforeKitLanded, FinishSteps
  <2>3. CASE pc = "complete"
    <3>1. Tracked /\ Interrupted /\ ~Open'
      BY <1>0, <2>1, <2>2, <2>3 DEF CallAt, JournalAt, Tracked, Open, Working, LateSteps, FinishSteps
    <3>2. ~accepted => \A p \in Parts : Back(live[p], p)
      BY <1>0, <2>2, <2>3 DEF KitInv, LoanInv, GivenBack, CallAt, Open
    <3> QED
      BY <1>0, <2>1, <3>1, <3>2, GiveBackStep DEF Promise!Next
  <2>4. CASE pc # "complete" /\ j.saved
    BY <1>0, <2>1, <2>2, <2>4, TurnStep DEF Tracked, Open, Promise!Next
  <2>5. CASE ~j.saved
    <3>1. pc \in {"steam-closed", "snapshotting"} /\ j.phase \in Opening
      BY <1>0, <2>2, <2>5
      DEF JournalAt, CallAt, Working, Open, Phases, RestingPhases, KitPhases, BeforeKitLanded,
          FinishSteps
    <3>2. UNCHANGED <<LoanSetup, LoanCopy, LoanMark>>
      BY <2>1, <2>2, <2>5, <3>1
      DEF LoanSetup, LoanCopy, LoanMark, Tracked, KitOn, ExternalChange, Interrupted, Opening,
          RestingPhases, KitPhases
    <3> QED
      BY <2>1, <3>2 DEF Promise!loan
  <2> QED
    BY <2>3, <2>4, <2>5
<1> QED
  BY <1>1, <1>2, <1>3, <1>4, <1>5, <1>6

\* A pass, a rollback, a crash.
LEMMA WorkPromise ==
    ASSUME KitInv, TypeOK',
           \/ \E p \in Parts : StartPart(p) \/ SkipPart(p) \/ NothingMoved(p) \/ RemoveInstalled(p)
           \/ Stage \/ StageShort \/ LogStaged \/ ClearRollback \/ MoveAside
           \/ LogOldMoved \/ Install \/ LogInstalled \/ LogVerified \/ VerifyFails
           \/ ReleaseRollback \/ ReleaseRollbackFails \/ RecordPass \/ PutBack \/ Interrupt
    PROVE  Promise!Next \/ UNCHANGED Promise!loan
<1> USE DEF Goto, disk, ghosts
<1>0. j \in Journal /\ TypeOK /\ CallAt /\ JournalAt /\ CallInv
  BY DEF KitInv, CallInv, ClosedInv, TypeInv, TypeOK
<1>1. CASE LogStaged \/ LogOldMoved \/ LogInstalled \/ LogVerified \/ RecordPass
  <2>1. j'.phase = j.phase /\ j'.saved = j.saved /\ j'.theirs = j.theirs
    BY <1>0, <1>1
    DEF LogStaged, LogOldMoved, LogInstalled, LogVerified, LogPart, RecordPass, Journal
  <2> QED
    BY <1>1, <2>1, StutterStep
    DEF LogStaged, LogOldMoved, LogInstalled, LogVerified, LogPart, RecordPass
<1>2. CASE \/ \E p \in Parts : StartPart(p) \/ SkipPart(p) \/ NothingMoved(p)
           \/ Stage \/ StageShort \/ ClearRollback \/ VerifyFails
           \/ ReleaseRollback \/ ReleaseRollbackFails
  BY <1>2, StutterStep
  DEF StartPart, SkipPart, NothingMoved, Stage, StageShort, StageCopy, ClearRollback,
      VerifyFails, ReleaseRollback, ReleaseRollbackFails, Release
<1>3. CASE MoveAside \/ Install
  <2>1. at \in Parts /\ UNCHANGED <<active, j, accepted>>
        /\ \A q \in Parts \ {at} : live'[q] = live[q]
    BY <1>0, <1>3
    DEF MoveAside, Install, KitInv, PassInv, PassDone, PassSteps, PartSteps, TypeOK
  <2>2. Tracked /\ Interrupted
    BY <1>0, <1>3
    DEF MoveAside, Install, JournalAt, CallAt, Working, Open, Tracked, Interrupted, PassSteps,
        RestingPhases, KitPhases, FinishSteps
  <2> QED
    BY <1>0, <2>1, <2>2, WorkStep DEF Promise!Next
<1>4. ASSUME NEW p \in Parts, RemoveInstalled(p)
      PROVE  Promise!Next \/ UNCHANGED Promise!loan
  <2>1. UNCHANGED <<active, j, accepted>> /\ \A q \in Parts \ {p} : live'[q] = live[q]
    BY <1>0, <1>4 DEF RemoveInstalled, TypeOK
  <2>2. Tracked /\ (Interrupted \/ ExternalChange)
    BY <1>0, <1>4, RecoveryIsTracked DEF RemoveInstalled, JournalAt, RollbackSteps
  <2> QED
    BY <1>0, <2>1, <2>2, WorkStep DEF Promise!Next
<1>5. CASE PutBack
  <2>1. /\ UNCHANGED <<active, j, accepted>> /\ at \in Parts /\ rollback[at] # "absent"
        /\ \A q \in Parts \ {at} : live'[q] = live[q]
    BY <1>0, <1>5 DEF PutBack, TypeOK, KitInv, PassInv, RollbackGoes, RollbackSteps
  <2>2. Tracked /\ (Interrupted \/ ExternalChange)
    BY <1>0, <1>5, <2>1, RecoveryIsTracked DEF PutBack, JournalAt, RollbackSteps
  <2> QED
    BY <1>0, <2>1, <2>2, WorkStep DEF Promise!Next
<1>6. CASE Interrupt
  <2>1. UNCHANGED <<active, j, accepted>> /\ CutShort
    BY <1>6 DEF Interrupt
  <2>2. CASE live' = live
    BY <2>1, <2>2, StutterStep
  <2>3. CASE live' # live
    <3>1. PICK p \in todo : pc = "rollback" /\ rollback[p] # "absent"
                              /\ live' = [live EXCEPT ![p] = Remains(@)]
      BY <2>1, <2>3 DEF CutShort
    <3>2. p \in Parts /\ \A q \in Parts \ {p} : live'[q] = live[q]
      BY <1>0, <3>1 DEF TypeOK
    <3>3. Tracked /\ (Interrupted \/ ExternalChange)
      BY <1>0, <3>1, <3>2, RecoveryIsTracked DEF JournalAt, RollbackSteps
    <3> QED
      BY <1>0, <2>1, <3>2, <3>3, WorkStep DEF Promise!Next
  <2> QED
    BY <2>2, <2>3
<1> QED
  BY <1>1, <1>2, <1>3, <1>4, <1>5, <1>6

\* Every step of the engine, and of the world.
LEMMA NextPromise ==
    ASSUME ~AnyAnswer, KitInv, TypeOK', [Next]_vars
    PROVE  [Promise!Next]_(Promise!loan)
<1> USE DEF disk, ghosts, memory
<1>0. j \in Journal /\ TypeOK /\ CallAt /\ JournalAt
  BY DEF KitInv, CallInv, ClosedInv, TypeInv, TypeOK
<1>1. CASE ResolveAcceptCurrent
  <2>1. Tracked /\ ExternalChange /\ UNCHANGED <<live, active, j>> /\ accepted'
    BY <1>0, <1>1 DEF ResolveAcceptCurrent, Begin, JournalAt, Opening, Tracked, ExternalChange
  <2>2. UNCHANGED <<LoanSetup, LoanCopy, LoanMark>>
    BY <2>1 DEF LoanSetup, LoanCopy, LoanMark, Tracked, KitOn, ExternalChange, Interrupted
  <2> QED
    BY <1>0, <2>1, <2>2, HeldIsTracked, MarkOf DEF Promise!Waive, Promise!Next
<1>2. CASE (Begins \/ Resolve) /\ ~ResolveAcceptCurrent
  BY <1>2, StutterStep
  DEF Begins, BeginEnter, BeginPlainSwitch, BeginLeave, Resolve, ResolveRestoreTheirs,
      ResolveKeepCurrent, ResolveAbandon, Begin
<1>3. CASE EngineStep \/ Fault
  BY <1>3, StepsPromise, WorkPromise DEF EngineStep, Fault
<1>4. CASE UserTogglesSteam \/ \E a \in Accounts : UserSignsIn(a)
  BY <1>4, StutterStep DEF UserTogglesSteam, UserSignsIn
<1>5. ASSUME NEW p \in Parts, Play(p)
      PROVE  Promise!Next
  <2>1. UNCHANGED <<active, j, accepted>> /\ live' = [live EXCEPT ![p] = Played(@)]
        /\ live[p] \in Tree
    BY <1>0, <1>5 DEF Play, TypeOK
  <2>2. LoanSetup' = [LoanSetup EXCEPT ![p] = IF @ = "foreign" THEN @ ELSE "edited"]
    BY <1>0, <2>1, AsSetupPlayed DEF LoanSetup, TypeOK
  <2>3. UNCHANGED <<LoanCopy, LoanMark>>
    BY <2>1 DEF LoanCopy, LoanMark, Tracked, KitOn, ExternalChange, Interrupted
  <2> QED
    BY <2>1, <2>2, <2>3 DEF Promise!Play, Promise!Next
<1>6. CASE UNCHANGED vars
  BY <1>6, StutterStep DEF vars
<1> QED
  BY <1>1, <1>2, <1>3, <1>4, <1>5, <1>6 DEF Next, World

\* At first nothing is lent.
LEMMA InitPromise == Init => Promise!Init
<1> SUFFICES ASSUME Init PROVE Promise!Init
  OBVIOUS
<1>1. LoanSetup \in [Parts -> Promise!Setups \ {"foreign"}]
  BY DEF Init, LoanSetup, AsSetup, Promise!Setups, Overlay, Blank
<1>2. LoanCopy = Promise!NoCopy /\ LoanMark = "none" /\ accepted = FALSE
  BY DEF Init, LoanCopy, Promise!NoCopy, LoanMark, Tracked, KitOn, ExternalChange, Interrupted
<1> QED
  BY <1>1, <1>2 DEF Promise!Init

(* The engine implements the loan: a copy is taken before anything is      *)
(* changed, held for as long as the account is anything but the owner's,   *)
(* and let go only when the setup is back or the owner says what is there  *)
(* is theirs; through Enter, Leave, Resolve and a crash in any of them.    *)
THEOREM EngineKeepsThePromise ==
    ASSUME ~AnyAnswer PROVE Spec => KeepsThePromise
<1>1. KitInv /\ KitInv' /\ [Next]_vars => [Promise!Next]_(Promise!loan)
  BY NextPromise DEF KitInv, CallInv, ClosedInv, TypeInv
<1> QED
  BY <1>1, InitPromise, KitInvariant, PTL DEF Spec, KeepsThePromise, Promise!Spec
=============================================================================
