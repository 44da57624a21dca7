---------------------------- MODULE KitGuardProofs ----------------------------
(***************************************************************************)
(* What KitGuard promises for any number of callers and accounts.  The     *)
(* first invariant says which mutexes a caller holds where it stands; the  *)
(* second what a swap may rely on about the kit while it is under way.     *)
(***************************************************************************)
EXTENDS KitGuard, TLAPS

\* Where there is an engine, every step of a switch is taken under its lock.
EngineSteps == {"close", "login", "settle"}

UnderEngine(c) ==
    \/ proc[c].at \in EngineSteps
    \/ Op(c) \in Engined /\ proc[c].at \in {"wantConfig", "write"}
    \/ Op(c) = "restore" /\ At(c, "write")
    \/ Op(c) = "play" /\ At(c, "play")

\* SteamService.mu is taken first, the engine's next and dotaWriteMu last.
HoldsWhatItShould(c) ==
    /\ At(c, "idle") => \A m \in Mutexes : owner[m] # c
    /\ engine /\ UnderEngine(c) => Holds(c, "engine")
    /\ Op(c) \in Engined /\ ~At(c, "idle") => engine
    /\ At(c, "write") /\ Op(c) # "restore" => Holds(c, "config")
    /\ At(c, "wantService") => \A m \in Mutexes : owner[m] # c
    /\ At(c, "wantEngine") => ~Holds(c, "engine") /\ ~Holds(c, "config")
    /\ Holds(c, "config") => proc[c].at \in {"write", "hand"}
    /\ proc[c].at \in EngineSteps => Op(c) \in Swaps \cup Engined
    /\ At(c, "hand") => ~Holds(c, "engine")
    /\ At(c, "rewrite") => ~Holds(c, "engine") /\ ~Holds(c, "config")
    /\ At(c, "wantConfig") => Op(c) \in Engined \cup {"tool", "library"}
    /\ At(c, "write") => Op(c) \in Engined \cup {"tool", "restore"}
    /\ Op(c) \in {"tool", "library"} /\ proc[c].at \in {"wantConfig", "write"}
          => ~Holds(c, "engine")
    /\ Op(c) = "library" => proc[c].at \in {"idle", "wantConfig", "hand"}
    /\ Op(c) = "tool" =>
          proc[c].at \in {"idle", "wantEngine", "release", "wantConfig", "write", "hand"}

LockInv == GuardTypeOK /\ \A c \in Callers : HoldsWhatItShould(c)

USE NobodyAssumption DEF Mutexes

\* A caller whose record and whose locks are as they were is where it was.
LEMMA Untouched ==
    ASSUME LockInv, NEW d \in Callers, proc'[d] = proc[d], engine' = engine,
           \A m \in Mutexes : owner'[m] = d <=> owner[m] = d
    PROVE  HoldsWhatItShould(d)'
  BY DEF LockInv, HoldsWhatItShould, At, Op, Holds, UnderEngine

\* What an entry point asks of the status is a yes or a no.
LEMMA PermittedIsBoolean == ASSUME NEW c \in Callers PROVE Permitted(c) \in BOOLEAN
  <1>1. CASE Op(c) \in Swaps \cup {"play", "enter"}
    BY <1>1 DEF Permitted, StaysOn, Settled, OnTarget, Live, Swaps
  <1>2. CASE Op(c) = "leave"
    BY <1>2 DEF Permitted, Live, Swaps
  <1>3. CASE Op(c) = "resolve"
    BY <1>3 DEF Permitted, Settled, Swaps
  <1>4. CASE Op(c) \notin Swaps \cup {"play", "enter", "leave", "resolve"}
    BY <1>4 DEF Permitted, Settled
  <1> QED
    BY <1>1, <1>2, <1>3, <1>4

\* Nobody holds a mutex when the app starts.
LEMMA LockInit == GuardInit => LockInv
  <1> SUFFICES ASSUME GuardInit PROVE LockInv
    OBVIOUS
  <1>1. Unspecified \in Accounts
    BY DEF GuardInit, Unspecified
  <1>2. GuardTypeOK
    <2>1. PICK state \in {"none", "active", "interrupted"} : kit = Kit(state, login)
      BY DEF GuardInit
    <2> QED BY <1>1, <2>1 DEF GuardInit, GuardTypeOK, Resting, Kit, KitStates, Begun, Engined, Serviced,
               Games, Steps, At
  <1>3. \A c \in Callers : HoldsWhatItShould(c)
    BY DEF GuardInit, HoldsWhatItShould, Resting, At, Op, Holds, UnderEngine, EngineSteps,
           Engined
  <1> QED
    BY <1>2, <1>3 DEF LockInv

\* No step takes or keeps a mutex its caller should not hold there.
LEMMA LockStep == LockInv /\ [GuardNext]_guardVars => LockInv'
  <1> SUFFICES ASSUME LockInv, [GuardNext]_guardVars PROVE LockInv'
    OBVIOUS
  <1>u. Unspecified \in Accounts
    BY DEF LockInv, GuardTypeOK, Unspecified
  <1> USE DEF LockInv
  <1>1. ASSUME NEW c \in Callers, NEW op \in Begun, NEW to \in Accounts,
               NEW writes \in BOOLEAN, Begin(c, op, to, writes)
        PROVE  LockInv'
    <2>1. GuardTypeOK'
      BY <1>1 DEF Begin, GuardTypeOK, At, Steps, GateStep, FirstStep, Gated, Begun, Engined,
                  Serviced, Games, Swaps, Holds
    <2>2. HoldsWhatItShould(c)'
      <3>1. \A m \in Mutexes : owner'[m] # c
        BY <1>1 DEF Begin, GuardTypeOK
      <3>2. proc'[c].op = op /\ engine' = engine
        BY <1>1 DEF Begin, GuardTypeOK
      <3>3. /\ op \in {"tool", "library"} => proc'[c].at \in {"wantEngine", "wantConfig"}
            /\ op = "library" => proc'[c].at = "wantConfig"
            /\ proc'[c].at = "wantConfig" => op \in {"tool", "library"}
            /\ proc'[c].at = "write" => op = "restore"
            /\ engine => proc'[c].at \in {"wantService", "wantEngine", "wantConfig"}
            /\ proc'[c].at \in EngineSteps => op \in Swaps
        <4>1. proc'[c].at = IF op \in Serviced THEN "wantService"
                            ELSE IF op = "library" THEN "wantConfig" ELSE GateStep(op)
          BY <1>1 DEF Begin, GuardTypeOK
        <4>2. CASE engine
          <5>1. GateStep(op) = "wantEngine"
            BY <4>2 DEF GateStep, Gated
          <5>2. op \in {"tool", "library"} => op \notin Serviced
            BY DEF Serviced
          <5> QED
            BY <4>1, <4>2, <5>1, <5>2 DEF EngineSteps
        <4>3. CASE ~engine
          <5>1. op \notin Engined
            BY <1>1, <4>3 DEF Begin
          <5>2. /\ FirstStep(op, FALSE) \in {"close", "play", "write", "release"}
                /\ FirstStep(op, FALSE) = "write" => op = "restore"
                /\ FirstStep(op, FALSE) = "close" => op \in Swaps
            BY <5>1 DEF FirstStep, Swaps, Engined
          <5>3. /\ GateStep(op) \in {"wantConfig", "hand", FirstStep(op, FALSE)}
                /\ GateStep(op) = "wantConfig" <=> op = "tool"
            BY <4>3, <5>2 DEF GateStep, Gated
          <5>4. op \in {"tool", "library"} => op \notin Serviced
            BY DEF Serviced
          <5> QED
            BY <4>1, <4>3, <5>2, <5>3, <5>4 DEF EngineSteps
        <4> QED
          BY <4>2, <4>3
      <3>4. op \in Engined => engine
        BY <1>1 DEF Begin
      <3> QED
        BY <3>1, <3>2, <3>3, <3>4 DEF HoldsWhatItShould, At, Op, Holds, UnderEngine,
                                      EngineSteps, Engined
    <2>3. ASSUME NEW d \in Callers, d # c PROVE HoldsWhatItShould(d)'
      BY <1>1, <2>3, Untouched DEF Begin, GuardTypeOK
    <2> QED BY <2>1, <2>2, <2>3
  <1>2. ASSUME NEW c \in Callers, TakeService(c) PROVE LockInv'
    <2>1. GuardTypeOK'
      BY <1>2 DEF TakeService, Branch, GuardTypeOK, At, Op, Free, Steps, GateStep, FirstStep,
                  Gated, Begun, Engined, Serviced, Games, Swaps
    <2>2. HoldsWhatItShould(c)'
      BY <1>2 DEF TakeService, Branch, GuardTypeOK, HoldsWhatItShould, At, Op, Holds, Free,
                  UnderEngine, EngineSteps, GateStep, FirstStep, Gated, Begun, Engined,
                  Serviced, Games, Swaps
    <2>3. ASSUME NEW d \in Callers, d # c PROVE HoldsWhatItShould(d)'
      BY <1>2, <2>3, Untouched DEF TakeService, GuardTypeOK, Free
    <2> QED BY <2>1, <2>2, <2>3
  <1>3. ASSUME NEW c \in Callers, TakeEngine(c) PROVE LockInv'
    <2>1. GuardTypeOK'
      BY <1>3, PermittedIsBoolean DEF TakeEngine, Dropped, GuardTypeOK, At, Op, Free, Steps,
         FirstStep, Begun, Engined, Serviced, Games, Swaps, Settled
    <2>2. HoldsWhatItShould(c)'
      <3>1. owner'["engine"] = c /\ engine' = engine /\ owner'["config"] # c
        BY <1>3 DEF TakeEngine, HoldsWhatItShould, GuardTypeOK, At, Holds
      <3>2. /\ proc'[c].op = "tool" <=> Op(c) = "tool"
            /\ proc'[c].op # "library"
            /\ proc'[c].at = "write" => proc'[c].op = "restore"
            /\ proc'[c].at \in {"settle", "close", "play", "write", "release"}
            /\ proc'[c].op = "tool" => proc'[c].at = "release"
            /\ proc'[c].op \in Engined => engine
            /\ proc'[c].at \in EngineSteps => proc'[c].op \in Swaps \cup Engined
        BY <1>3 DEF TakeEngine, Dropped, EngineSteps, GuardTypeOK, HoldsWhatItShould, At, Op, FirstStep,
                    Begun, Engined, Serviced, Games, Swaps
      <3> QED
        BY <3>1, <3>2 DEF HoldsWhatItShould, At, Op, Holds, UnderEngine, EngineSteps, Engined
    <2>3. ASSUME NEW d \in Callers, d # c PROVE HoldsWhatItShould(d)'
      BY <1>3, <2>3, Untouched DEF TakeEngine, GuardTypeOK, Free
    <2> QED BY <2>1, <2>2, <2>3
  <1>4. ASSUME NEW c \in Callers, TakeConfig(c) PROVE LockInv'
    <2>1. GuardTypeOK'
      BY <1>4 DEF TakeConfig, MayTakeConfig, Moved, GuardTypeOK, At, Op, Free, Steps
    <2>2. HoldsWhatItShould(c)'
      BY <1>4 DEF TakeConfig, MayTakeConfig, Moved, GuardTypeOK, HoldsWhatItShould, At, Op,
                  Holds, Free, UnderEngine, EngineSteps, Engined
    <2>3. ASSUME NEW d \in Callers, d # c PROVE HoldsWhatItShould(d)'
      BY <1>4, <2>3, Untouched DEF TakeConfig, Moved, GuardTypeOK, MayTakeConfig, Free
    <2> QED BY <2>1, <2>2, <2>3
  <1>5. ASSUME NEW c \in Callers, Close(c) PROVE LockInv'
    <2>1. GuardTypeOK'
      BY <1>5, <1>u DEF Close, Journaled, Kit, Moved, GuardTypeOK, At, Op, Steps, KitStates
    <2>2. \A d \in Callers : HoldsWhatItShould(d)'
      BY <1>5 DEF Close, Journaled, Moved, GuardTypeOK, HoldsWhatItShould, At, Op, Holds,
                  UnderEngine, EngineSteps, Engined
    <2> QED BY <2>1, <2>2
  <1>6. ASSUME NEW c \in Callers, FindsExternal(c) PROVE LockInv'
    <2>1. GuardTypeOK'
      BY <1>6 DEF FindsExternal, Moved, GuardTypeOK, At, Op, Steps, KitStates
    <2>2. \A d \in Callers : HoldsWhatItShould(d)'
      BY <1>6 DEF FindsExternal, Moved, GuardTypeOK, HoldsWhatItShould, At, Op, Holds,
                  UnderEngine, EngineSteps, Engined
    <2> QED BY <2>1, <2>2
  <1>7. ASSUME NEW c \in Callers, Write(c) PROVE LockInv'
    <2>1. GuardTypeOK'
      BY <1>7 DEF Write, Freed, Moved, GuardTypeOK, At, Op, Holds, Steps
    <2>2. \A d \in Callers : HoldsWhatItShould(d)'
      BY <1>7 DEF Write, Freed, Moved, GuardTypeOK, HoldsWhatItShould, At, Op, Holds,
                  UnderEngine, EngineSteps, Engined
    <2> QED BY <2>1, <2>2
  <1>8. ASSUME NEW c \in Callers, Login(c) PROVE LockInv'
    <2>1. GuardTypeOK'
      BY <1>8 DEF Login, Moved, GuardTypeOK, At, Op, Steps
    <2>2. \A d \in Callers : HoldsWhatItShould(d)'
      BY <1>8 DEF Login, Moved, GuardTypeOK, HoldsWhatItShould, At, Op, Holds,
                  UnderEngine, EngineSteps, Engined
    <2> QED BY <2>1, <2>2
  <1>9. ASSUME NEW c \in Callers, Settle(c) PROVE LockInv'
    <2>1. GuardTypeOK'
      BY <1>9, <1>u DEF Settle, Endings, AfterGate, Kit, Moved, GuardTypeOK, At, Op, Steps,
                        KitStates
    <2>2. \A d \in Callers : HoldsWhatItShould(d)'
      BY <1>9 DEF Settle, AfterGate, Moved, GuardTypeOK, HoldsWhatItShould, At, Op, Holds,
                  UnderEngine, EngineSteps, Engined
    <2> QED BY <2>1, <2>2
  <1>10. ASSUME NEW c \in Callers, Release(c) PROVE LockInv'
    <2>1. GuardTypeOK'
      BY <1>10 DEF Release, Freed, AfterGate, Moved, GuardTypeOK, At, Op, Holds, Steps
    <2>2. \A d \in Callers : HoldsWhatItShould(d)'
      BY <1>10 DEF Release, Freed, AfterGate, Moved, GuardTypeOK, HoldsWhatItShould, At, Op,
                   Holds, UnderEngine, EngineSteps, Engined
    <2> QED BY <2>1, <2>2
  <1>11. ASSUME NEW c \in Callers, Play(c) PROVE LockInv'
    <2>1. GuardTypeOK'
      BY <1>11 DEF Play, Moved, GuardTypeOK, At, Op, Steps
    <2>2. \A d \in Callers : HoldsWhatItShould(d)'
      BY <1>11 DEF Play, Moved, GuardTypeOK, HoldsWhatItShould, At, Op, Holds,
                   UnderEngine, EngineSteps, Engined
    <2> QED BY <2>1, <2>2
  <1>12. ASSUME NEW c \in Callers, Hand(c) PROVE LockInv'
    <2>1. GuardTypeOK'
      BY <1>12, <1>u DEF Hand, Freed, Resting, GuardTypeOK, HoldsWhatItShould, At, Op, Holds,
                         Steps, Begun
    <2>2. \A d \in Callers : HoldsWhatItShould(d)'
      BY <1>12 DEF Hand, Freed, Resting, GuardTypeOK, HoldsWhatItShould, At, Op, Holds,
                   UnderEngine, EngineSteps, Engined
    <2> QED BY <2>1, <2>2
  <1>13. ASSUME NEW c \in Callers, Rewrite(c) PROVE LockInv'
    <2>1. GuardTypeOK'
      BY <1>13 DEF Rewrite, Moved, GuardTypeOK, At, Op, Steps
    <2>2. HoldsWhatItShould(c)'
      BY <1>13 DEF Rewrite, Moved, GuardTypeOK, HoldsWhatItShould, At, Op, Holds,
                   UnderEngine, EngineSteps, Engined
    <2>3. ASSUME NEW d \in Callers, d # c PROVE HoldsWhatItShould(d)'
      BY <1>13, <2>3, Untouched DEF Rewrite, Moved, GuardTypeOK
    <2> QED BY <2>1, <2>2, <2>3
  <1>14. ASSUME NEW c \in Callers, Fail(c) PROVE LockInv'
    <2>1. GuardTypeOK'
      BY <1>14 DEF Fail, Freed, Dropped, GuardTypeOK, At, Op, Holds, Steps, Begun, Games,
                   Engined, Serviced
    <2>2. \A d \in Callers : HoldsWhatItShould(d)'
      BY <1>14 DEF Fail, Freed, Dropped, GuardTypeOK, HoldsWhatItShould, At, Op, Holds,
                   UnderEngine, EngineSteps, Engined
    <2> QED BY <2>1, <2>2
  <1>15. CASE Restart
    <2>1. GuardTypeOK'
      BY <1>15, <1>u DEF Restart, Resting, GuardTypeOK, At, Steps, Begun
    <2>2. \A d \in Callers : HoldsWhatItShould(d)'
      BY <1>15 DEF Restart, Resting, GuardTypeOK, HoldsWhatItShould, At, Op, Holds,
                   UnderEngine, EngineSteps, Engined
    <2> QED BY <2>1, <2>2
  <1>16. CASE UNCHANGED guardVars
    BY <1>16 DEF guardVars, GuardTypeOK, HoldsWhatItShould, At, Op, Holds, UnderEngine
  <1> QED
    BY <1>1, <1>2, <1>3, <1>4, <1>5, <1>6, <1>7, <1>8, <1>9, <1>10, <1>11, <1>12, <1>13,
       <1>14, <1>15, <1>16 DEF GuardNext, Take, Step

\* Every mutex is held by the caller whose step says so and by nobody else (guardedSwap,
\* guardManualConfigWrite, the deferred unlocks of the service).
THEOREM LocksHeld == GuardSpec => []LockInv
  BY LockInit, LockStep, PTL DEF GuardSpec

-----------------------------------------------------------------------------
\* Only one switch, bare swap or restore is ever part of the way through.
THEOREM SwapsExclude == GuardSpec => []OneSwapAtATime
  <1>1. LockInv => OneSwapAtATime
    BY DEF LockInv, HoldsWhatItShould, OneSwapAtATime, Changing, UnderEngine, EngineSteps,
           At, Op, Holds, Engined
  <1> QED
    BY <1>1, LocksHeld, PTL

\* A kit's files are replaced by one writer at a time.
THEOREM KitFilesHaveOneWriter == GuardSpec => []KitWritesAlone
  <1>1. LockInv => KitWritesAlone
    BY DEF LockInv, KitWritesAlone, HoldsWhatItShould, UnderEngine, At, Op, Holds, Engined
  <1> QED
    BY <1>1, LocksHeld, PTL

\* Somebody can always go on.
THEOREM NobodyStuck == GuardSpec => []SomebodyCanGo
  <1>1. ASSUME LockInv PROVE SomebodyCanGo
    <2> DEFINE Busy(c) == c \in Callers /\ ~At(c, "idle")
               Goes(c) == Busy(c) /\ \A m \in Mutexes : WaitsFor(c, m) => Free(m)
    <2>1. ASSUME NEW c, Busy(c), Holds(c, "config") PROVE Goes(c)
      BY <1>1, <2>1 DEF LockInv, HoldsWhatItShould, WaitsFor, At, Holds
    <2>2. ASSUME NEW m \in Mutexes, ~Free(m)
          PROVE  \E d : Busy(d) /\ Holds(d, m)
      BY <1>1, <2>2 DEF LockInv, GuardTypeOK, Free, Holds, At
    <2>3. ASSUME NEW c, Busy(c), At(c, "wantConfig") PROVE \E d : Goes(d)
      <3>1. CASE Free("config")
        BY <2>3, <3>1 DEF WaitsFor, At
      <3>2. CASE ~Free("config")
        BY <2>1, <2>2, <3>2
      <3> QED BY <3>1, <3>2
    <2>4. ASSUME NEW c, Busy(c), Holds(c, "engine") PROVE \E d : Goes(d)
      <3>1. CASE At(c, "wantConfig")
        BY <2>3, <2>4, <3>1
      <3>2. CASE ~At(c, "wantConfig")
        <4>1. ~At(c, "wantService") /\ ~At(c, "wantEngine")
          BY <1>1, <2>4 DEF LockInv, HoldsWhatItShould, At, Holds
        <4> QED BY <2>4, <3>2, <4>1 DEF WaitsFor
      <3> QED BY <3>1, <3>2
    <2>5. ASSUME NEW c, Busy(c), ~At(c, "wantService") PROVE \E d : Goes(d)
      <3>1. CASE At(c, "wantEngine") /\ ~Free("engine")
        BY <2>2, <2>4, <3>1
      <3>2. CASE At(c, "wantEngine") /\ Free("engine")
        BY <2>5, <3>2 DEF WaitsFor, At
      <3>3. CASE At(c, "wantConfig")
        BY <2>3, <2>5, <3>3
      <3>4. CASE ~At(c, "wantEngine") /\ ~At(c, "wantConfig")
        BY <2>5, <3>4 DEF WaitsFor
      <3> QED BY <3>1, <3>2, <3>3, <3>4
    <2>6. ASSUME NEW c, Busy(c), At(c, "wantService") PROVE \E d : Goes(d)
      <3>1. CASE Free("service")
        BY <2>6, <3>1 DEF WaitsFor, At
      <3>2. CASE ~Free("service")
        <4>1. PICK d : Busy(d) /\ Holds(d, "service")
          BY <2>2, <3>2
        <4>2. ~At(d, "wantService")
          BY <1>1, <4>1 DEF LockInv, HoldsWhatItShould, At, Holds
        <4> QED BY <2>5, <4>1, <4>2
      <3> QED BY <3>1, <3>2
    <2> QED
      BY <2>5, <2>6 DEF SomebodyCanGo
  <1> QED
    BY <1>1, LocksHeld, PTL

-----------------------------------------------------------------------------
\* What a caller counts on about the kit from its check to its last step.
RelyOn(c) ==
    /\ Op(c) \in Swaps /\ proc[c].at \in EngineSteps => StaysOn(c)
    /\ Op(c) = "play" /\ At(c, "play") => StaysOn(c)
    /\ Op(c) = "restore" /\ At(c, "write") => Settled
    /\ Op(c) = "enter" /\ At(c, "close") => StaysOn(c) /\ (proc[c].writes => Settled)
    /\ Op(c) = "enter" /\ proc[c].at \in {"wantConfig", "write"} => proc[c].writes
    /\ Op(c) = "enter" /\ proc[c].writes /\ proc[c].at \in {"wantConfig", "write", "login", "settle"}
         => kit.state = "interrupted" /\ kit.on = proc[c].to
    /\ Op(c) = "enter" /\ proc[c].writes /\ At(c, "settle") => login = proc[c].to \/ overwrote
    /\ Op(c) = "enter" /\ ~proc[c].writes /\ proc[c].at \in {"login", "settle"} => StaysOn(c)
    /\ Op(c) = "leave" /\ proc[c].at \in {"wantConfig", "write", "login", "settle"}
         => kit.state = "interrupted"
    /\ Op(c) = "resolve" /\ proc[c].at \in {"close", "wantConfig", "write", "login"}
         => proc[c].writes
    /\ Op(c) = "resolve" /\ proc[c].at \in {"wantConfig", "write", "login"}
         => kit.state = "interrupted"

KitInv == LoginFollowsKit /\ \A c \in Callers : RelyOn(c)

\* At the start no kit is live and no swap is under way.
LEMMA KitInit == GuardInit => KitInv
  <1> SUFFICES ASSUME GuardInit PROVE KitInv
    OBVIOUS
  <1>1. PICK state \in {"none", "active", "interrupted"} : kit = Kit(state, login)
    BY DEF GuardInit
  <1>2. LoginFollowsKit
    BY <1>1 DEF LoginFollowsKit, Kit
  <1>3. \A c \in Callers : RelyOn(c)
    BY DEF GuardInit, RelyOn, Resting, At, Op, Swaps, EngineSteps
  <1> QED
    BY <1>2, <1>3 DEF KitInv

\* Two callers under way in the engine's steps are one.
LEMMA EngineAlone ==
    ASSUME LockInv, engine, NEW c \in Callers, NEW d \in Callers, UnderEngine(c), UnderEngine(d)
    PROVE  c = d
  BY DEF LockInv, HoldsWhatItShould, Holds

\* A caller whose kit and login nobody touched relies on what it did.
LEMMA StillReliesOn ==
    ASSUME KitInv, NEW d \in Callers, proc'[d] = proc[d],
           kit'.state = kit.state, kit.state = "none" \/ kit' = kit,
           login' = login \/ overwrote', overwrote => overwrote'
    PROVE  RelyOn(d)'
  BY DEF KitInv, RelyOn, At, Op, StaysOn, OnTarget, Live, Settled

\* A caller between its steps relies on nothing the engine guards.
LEMMA QuietRelies ==
    ASSUME LockInv, KitInv, engine, NEW d \in Callers, proc'[d] = proc[d], ~UnderEngine(d)
    PROVE  RelyOn(d)'
  BY DEF LockInv, HoldsWhatItShould, KitInv, RelyOn, UnderEngine, At, Op, EngineSteps, Engined

\* Whoever changes the login is the only one under way, or no kit is at stake.
LEMMA LoginMoved ==
    ASSUME LockInv, KitInv, NEW c \in Callers, NEW d \in Callers, c # d, UnderEngine(c),
           proc'[d] = proc[d], kit' = kit, overwrote' = overwrote
    PROVE  RelyOn(d)'
  <1>1. CASE ~engine
    BY <1>1 DEF LockInv, HoldsWhatItShould, KitInv, RelyOn, At, Op, StaysOn, OnTarget, Live,
       Settled, Engined
  <1>2. CASE engine
    <2>1. ~UnderEngine(d)
      BY <1>2, EngineAlone
    <2> QED
      BY <1>2, <2>1, QuietRelies
  <1> QED BY <1>1, <1>2

\* No step breaks what a swap under way relies on about the kit.
LEMMA KitStep == LockInv /\ KitInv /\ [GuardNext]_guardVars => KitInv'
  <1> SUFFICES ASSUME LockInv, KitInv, [GuardNext]_guardVars PROVE KitInv'
    OBVIOUS
  <1>1. ASSUME NEW c \in Callers, NEW op \in Begun, NEW to \in Accounts,
               NEW writes \in BOOLEAN, Begin(c, op, to, writes)
        PROVE  KitInv'
    <2>1. LoginFollowsKit'
      BY <1>1 DEF Begin, KitInv, LoginFollowsKit
    <2>2. RelyOn(c)'
      <3>1. proc'[c].op = op /\ proc'[c].writes = writes /\ proc'[c].to = to
        BY <1>1 DEF Begin, LockInv, GuardTypeOK
      <3>2. proc'[c].at = IF op \in Serviced THEN "wantService"
                          ELSE IF op = "library" THEN "wantConfig" ELSE GateStep(op)
        BY <1>1 DEF Begin, LockInv, GuardTypeOK
      <3>3. CASE proc'[c].at \in {"wantService", "wantEngine", "wantConfig", "hand"}
        <4>1. op \in Engined => proc'[c].at = "wantEngine"
          BY <1>1, <3>2, <3>3 DEF Begin, GateStep, Gated, Engined, Serviced
        <4> QED
          BY <3>1, <3>3, <4>1 DEF RelyOn, At, Op, EngineSteps, Engined
      <3>4. CASE proc'[c].at \notin {"wantService", "wantEngine", "wantConfig", "hand"}
        <4>1. Settled /\ op \notin Engined /\ kit' = kit
          BY <1>1, <3>2, <3>4 DEF Begin, GateStep, Gated, PointerExists
        <4> QED
          BY <3>1, <4>1 DEF RelyOn, At, Op, StaysOn, Settled, Engined, Swaps
      <3> QED BY <3>3, <3>4
    <2>3. ASSUME NEW d \in Callers, d # c PROVE RelyOn(d)'
      BY <1>1, <2>3, StillReliesOn DEF Begin, LockInv, GuardTypeOK
    <2> QED BY <2>1, <2>2, <2>3 DEF KitInv
  <1>2. ASSUME NEW c \in Callers, TakeService(c) PROVE KitInv'
    <2>1. LoginFollowsKit'
      BY <1>2 DEF TakeService, KitInv, LoginFollowsKit
    <2>2. RelyOn(c)'
      <3>1. proc'[c].op = Branch(c) /\ proc'[c].to = proc[c].to /\ kit' = kit
        BY <1>2 DEF TakeService, LockInv, GuardTypeOK
      <3>2. proc'[c].at = IF Op(c) = "forget" THEN "rewrite" ELSE GateStep(Branch(c))
        BY <1>2 DEF TakeService, LockInv, GuardTypeOK
      <3>3. CASE proc'[c].at \in {"rewrite", "wantEngine", "hand"}
        BY <3>3 DEF RelyOn, At, Op, EngineSteps
      <3>4. CASE proc'[c].at = "wantConfig"
        <4>1. ~engine
          BY <3>2, <3>4 DEF GateStep, Gated
        <4>2. Op(c) \notin Engined
          BY <1>2, <4>1 DEF LockInv, HoldsWhatItShould, TakeService, At
        <4> QED
          BY <3>1, <3>4, <4>2 DEF RelyOn, Branch, At, Op, EngineSteps, Engined
      <3>5. CASE proc'[c].at \notin {"rewrite", "wantEngine", "hand", "wantConfig"}
        <4>1. Settled /\ ~engine
          BY <3>2, <3>5 DEF GateStep, Gated, PointerExists
        <4>2. Op(c) \notin Engined
          BY <1>2, <4>1 DEF LockInv, HoldsWhatItShould, TakeService, At
        <4> QED
          BY <3>1, <4>1, <4>2 DEF RelyOn, Branch, At, Op, StaysOn, Settled, Engined
      <3> QED BY <3>3, <3>4, <3>5
    <2>3. ASSUME NEW d \in Callers, d # c PROVE RelyOn(d)'
      BY <1>2, <2>3, StillReliesOn DEF TakeService, LockInv, GuardTypeOK
    <2> QED BY <2>1, <2>2, <2>3 DEF KitInv
  <1>3. ASSUME NEW c \in Callers, TakeEngine(c) PROVE KitInv'
    <2>1. LoginFollowsKit'
      BY <1>3 DEF TakeEngine, KitInv, LoginFollowsKit
    <2>2. RelyOn(c)'
      <3>1. /\ proc'[c].to = proc[c].to /\ kit' = kit
            /\ proc'[c].op = IF Permitted(c) THEN Op(c) ELSE Dropped(c)
            /\ proc'[c].at = IF Permitted(c) THEN FirstStep(Op(c), proc[c].writes)
                             ELSE "release"
        BY <1>3 DEF TakeEngine, LockInv, GuardTypeOK, Op
      <3>2. /\ Op(c) = "enter" => proc'[c].writes = (proc[c].writes /\ Settled)
            /\ Op(c) = "resolve" => proc'[c].writes = proc[c].writes
        BY <1>3 DEF TakeEngine, LockInv, GuardTypeOK, Op
      <3>3. CASE ~Permitted(c)
        BY <3>1, <3>3 DEF RelyOn, At, Op, EngineSteps
      <3>4. CASE Permitted(c)
        <4>1. proc'[c].op = Op(c) /\ proc'[c].at = FirstStep(Op(c), proc[c].writes)
          BY <3>1, <3>4
        <4>2. Op(c) \in Swaps \cup {"play", "enter"} => StaysOn(c)
          BY <3>4 DEF Permitted, Swaps
        <4>3. Op(c) = "restore" => Settled
          BY <3>4 DEF Permitted, Swaps
        <4>4. proc'[c].at \notin {"wantConfig", "login"}
          BY <4>1 DEF FirstStep, Swaps
        <4>5. /\ proc'[c].at = "write" => Op(c) = "restore"
              /\ proc'[c].at = "settle" => Op(c) = "resolve"
              /\ Op(c) = "resolve" /\ proc'[c].at = "close" => proc[c].writes
          BY <4>1 DEF FirstStep, Swaps
        <4> QED
          BY <3>1, <3>2, <4>1, <4>2, <4>3, <4>4, <4>5
             DEF RelyOn, At, Op, StaysOn, OnTarget, Live, Settled, EngineSteps, Swaps
      <3> QED BY <3>3, <3>4
    <2>3. ASSUME NEW d \in Callers, d # c PROVE RelyOn(d)'
      BY <1>3, <2>3, StillReliesOn DEF TakeEngine, LockInv, GuardTypeOK
    <2> QED BY <2>1, <2>2, <2>3 DEF KitInv
  <1>4. ASSUME NEW c \in Callers, TakeConfig(c) PROVE KitInv'
    <2>1. LoginFollowsKit'
      BY <1>4 DEF TakeConfig, KitInv, LoginFollowsKit
    <2>2. RelyOn(c)'
      BY <1>4 DEF TakeConfig, MayTakeConfig, Moved, LockInv, GuardTypeOK, HoldsWhatItShould, KitInv, RelyOn, At,
         Op, StaysOn, OnTarget, Live, Settled, EngineSteps, Engined, Swaps
    <2>3. ASSUME NEW d \in Callers, d # c PROVE RelyOn(d)'
      BY <1>4, <2>3, StillReliesOn DEF TakeConfig, Moved, LockInv, GuardTypeOK
    <2> QED BY <2>1, <2>2, <2>3 DEF KitInv
  <1>5. ASSUME NEW c \in Callers, Close(c) PROVE KitInv'
    <2>1. LoginFollowsKit'
      BY <1>5 DEF Close, Journaled, Kit, KitInv, LoginFollowsKit, RelyOn, At, Op, Engined, Settled
    <2>2. RelyOn(c)'
      BY <1>5 DEF Close, Journaled, Kit, Moved, LockInv, GuardTypeOK, HoldsWhatItShould, KitInv,
         RelyOn, At, Op, StaysOn, OnTarget, Live, Settled, EngineSteps, Engined, Swaps
    <2>3. ASSUME NEW d \in Callers, d # c PROVE RelyOn(d)'
      <3>1. CASE kit' = kit
        BY <1>5, <2>3, <3>1, StillReliesOn DEF Close, Moved, LockInv, GuardTypeOK
      <3>2. CASE kit' # kit
        <4>1. engine /\ UnderEngine(c)
          BY <1>5, <3>2 DEF Close, Journaled, LockInv, HoldsWhatItShould, UnderEngine, At, Op,
             EngineSteps, Engined
        <4>2. ~UnderEngine(d)
          BY <2>3, <4>1, EngineAlone
        <4>3. proc'[d] = proc[d]
          BY <1>5, <2>3 DEF Close, Moved, LockInv, GuardTypeOK
        <4> QED
          BY <4>1, <4>2, <4>3, QuietRelies
      <3> QED BY <3>1, <3>2
    <2> QED BY <2>1, <2>2, <2>3 DEF KitInv
  <1>6. ASSUME NEW c \in Callers, FindsExternal(c) PROVE KitInv'
    <2>1. LoginFollowsKit'
      BY <1>6 DEF FindsExternal, KitInv, LoginFollowsKit, RelyOn, At, Op, Engined, Settled
    <2>2. RelyOn(c)'
      BY <1>6 DEF FindsExternal, Moved, LockInv, GuardTypeOK, HoldsWhatItShould, KitInv,
         RelyOn, At, Op, StaysOn, OnTarget, Live, Settled, EngineSteps, Engined, Swaps
    <2>3. ASSUME NEW d \in Callers, d # c PROVE RelyOn(d)'
      <3>1. CASE kit' = kit
        BY <1>6, <2>3, <3>1, StillReliesOn DEF FindsExternal, Moved, LockInv, GuardTypeOK
      <3>2. CASE kit' # kit
        <4>1. engine /\ UnderEngine(c)
          BY <1>6, <3>2 DEF FindsExternal, LockInv, HoldsWhatItShould, UnderEngine, At, Op,
             EngineSteps, Engined
        <4>2. ~UnderEngine(d)
          BY <2>3, <4>1, EngineAlone
        <4>3. proc'[d] = proc[d]
          BY <1>6, <2>3 DEF FindsExternal, Moved, LockInv, GuardTypeOK
        <4> QED
          BY <4>1, <4>2, <4>3, QuietRelies
      <3> QED BY <3>1, <3>2
    <2> QED BY <2>1, <2>2, <2>3 DEF KitInv
  <1>7. ASSUME NEW c \in Callers, Write(c) PROVE KitInv'
    <2>1. LoginFollowsKit'
      BY <1>7 DEF Write, KitInv, LoginFollowsKit, RelyOn, At, Op, Settled
    <2>2. RelyOn(c)'
      BY <1>7 DEF Write, Moved, LockInv, GuardTypeOK, HoldsWhatItShould, KitInv, RelyOn, At,
         Op, EngineSteps, Engined, Swaps
    <2>3. ASSUME NEW d \in Callers, d # c PROVE RelyOn(d)'
      <3>1. CASE Op(c) # "restore"
        BY <1>7, <2>3, <3>1, StillReliesOn DEF Write, Moved, LockInv, GuardTypeOK
      <3>2. CASE Op(c) = "restore"
        BY <1>7, <2>3, <3>2, LoginMoved DEF Write, Moved, LockInv, GuardTypeOK, UnderEngine, At
      <3> QED BY <3>1, <3>2
    <2> QED BY <2>1, <2>2, <2>3 DEF KitInv
  <1>8. ASSUME NEW c \in Callers, Login(c) PROVE KitInv'
    <2>1. LoginFollowsKit'
      <3>1. Op(c) \in Swaps \cup Engined
        BY <1>8 DEF LockInv, HoldsWhatItShould, Login, At, Op, EngineSteps
      <3> QED
        BY <1>8, <3>1 DEF Login, KitInv, LoginFollowsKit, RelyOn, At, Op, StaysOn, OnTarget,
           Live, Settled, EngineSteps, Swaps, Engined
    <2>2. RelyOn(c)'
      BY <1>8 DEF Login, Moved, LockInv, GuardTypeOK, KitInv, RelyOn, At, Op, StaysOn,
         OnTarget, Live, Settled, EngineSteps, Engined, Swaps
    <2>3. ASSUME NEW d \in Callers, d # c PROVE RelyOn(d)'
      BY <1>8, <2>3, LoginMoved DEF Login, Moved, LockInv, GuardTypeOK, UnderEngine, At,
         EngineSteps
    <2> QED BY <2>1, <2>2, <2>3 DEF KitInv
  <1>9. ASSUME NEW c \in Callers, Settle(c) PROVE KitInv'
    <2>1. LoginFollowsKit'
      BY <1>9 DEF Settle, Endings, Kit, KitInv, LoginFollowsKit, RelyOn, At, Op, Engined, Settled
    <2>0. Op(c) \in Swaps \cup Engined
      BY <1>9 DEF LockInv, HoldsWhatItShould, Settle, At, Op, EngineSteps
    <2>2. RelyOn(c)'
      <3>1. proc'[c].op \in Swaps \cup Engined /\ proc'[c].at \in {"release", "play", "hand"}
        BY <1>9, <2>0 DEF Settle, AfterGate, Moved, LockInv, GuardTypeOK, Op, Swaps, Engined
      <3> QED
        BY <3>1 DEF RelyOn, At, Op, EngineSteps, Swaps, Engined
    <2>3. ASSUME NEW d \in Callers, d # c PROVE RelyOn(d)'
      <3>0. proc'[d] = proc[d]
        BY <1>9, <2>3 DEF Settle, Moved, LockInv, GuardTypeOK
      <3>1. CASE Op(c) \in Swaps
        <4>1. kit' = Kit(kit.state, kit.on)
          BY <1>9, <3>1 DEF Settle, Endings, Swaps
        <4>2. kit'.state = kit.state /\ (kit.state = "none" \/ kit' = kit)
          BY <4>1 DEF Kit, LockInv, GuardTypeOK
        <4> QED
          BY <1>9, <3>0, <4>2, StillReliesOn DEF Settle
      <3>2. CASE Op(c) \in Engined
        <4>1. engine /\ UnderEngine(c)
          BY <1>9, <3>2 DEF Settle, LockInv, HoldsWhatItShould, UnderEngine, At, EngineSteps
        <4>2. ~UnderEngine(d)
          BY <2>3, <4>1, EngineAlone
        <4> QED
          BY <3>0, <4>1, <4>2, QuietRelies
      <3> QED BY <2>0, <3>1, <3>2
    <2> QED BY <2>1, <2>2, <2>3 DEF KitInv
  <1>10. ASSUME NEW c \in Callers, Release(c) PROVE KitInv'
    <2>1. LoginFollowsKit'
      BY <1>10 DEF Release, KitInv, LoginFollowsKit
    <2>2. RelyOn(c)'
      BY <1>10 DEF Release, AfterGate, Moved, LockInv, GuardTypeOK, HoldsWhatItShould, KitInv, RelyOn, At,
         Op, StaysOn, OnTarget, Live, Settled, EngineSteps, Engined, Swaps
    <2>3. ASSUME NEW d \in Callers, d # c PROVE RelyOn(d)'
      BY <1>10, <2>3, StillReliesOn DEF Release, Moved, LockInv, GuardTypeOK
    <2> QED BY <2>1, <2>2, <2>3 DEF KitInv
  <1>11. ASSUME NEW c \in Callers, Play(c) PROVE KitInv'
    <2>1. LoginFollowsKit'
      BY <1>11 DEF Play, KitInv, LoginFollowsKit
    <2>2. RelyOn(c)'
      BY <1>11 DEF Play, Moved, LockInv, GuardTypeOK, HoldsWhatItShould, KitInv, RelyOn, At,
         Op, StaysOn, OnTarget, Live, Settled, EngineSteps, Engined, Swaps
    <2>3. ASSUME NEW d \in Callers, d # c PROVE RelyOn(d)'
      BY <1>11, <2>3, StillReliesOn DEF Play, Moved, LockInv, GuardTypeOK
    <2> QED BY <2>1, <2>2, <2>3 DEF KitInv
  <1>12. ASSUME NEW c \in Callers, Hand(c) PROVE KitInv'
    <2>1. LoginFollowsKit'
      BY <1>12 DEF Hand, KitInv, LoginFollowsKit
    <2>2. RelyOn(c)'
      BY <1>12 DEF Hand, Resting, LockInv, GuardTypeOK, HoldsWhatItShould, KitInv, RelyOn, At,
         Op, StaysOn, OnTarget, Live, Settled, EngineSteps, Engined, Swaps
    <2>3. ASSUME NEW d \in Callers, d # c PROVE RelyOn(d)'
      BY <1>12, <2>3, StillReliesOn DEF Hand, Resting, LockInv, GuardTypeOK
    <2> QED BY <2>1, <2>2, <2>3 DEF KitInv
  <1>13. ASSUME NEW c \in Callers, Rewrite(c) PROVE KitInv'
    <2>1. LoginFollowsKit'
      BY <1>13 DEF Rewrite, KitInv, LoginFollowsKit
    <2>2. RelyOn(c)'
      BY <1>13 DEF Rewrite, Moved, LockInv, GuardTypeOK, RelyOn, At, Op, EngineSteps
    <2>3. ASSUME NEW d \in Callers, d # c PROVE RelyOn(d)'
      BY <1>13, <2>3, StillReliesOn DEF Rewrite, Moved, LockInv, GuardTypeOK
    <2> QED BY <2>1, <2>2, <2>3 DEF KitInv
  <1>14. ASSUME NEW c \in Callers, Fail(c) PROVE KitInv'
    <2>1. LoginFollowsKit'
      BY <1>14 DEF Fail, KitInv, LoginFollowsKit
    <2>2. RelyOn(c)'
      BY <1>14 DEF Fail, Dropped, LockInv, GuardTypeOK, HoldsWhatItShould, KitInv, RelyOn, At,
         Op, StaysOn, OnTarget, Live, Settled, EngineSteps, Engined, Swaps
    <2>3. ASSUME NEW d \in Callers, d # c PROVE RelyOn(d)'
      BY <1>14, <2>3, StillReliesOn DEF Fail, Dropped, LockInv, GuardTypeOK
    <2> QED BY <2>1, <2>2, <2>3 DEF KitInv
  <1>15. CASE Restart
    BY <1>15 DEF Restart, Resting, KitInv, LoginFollowsKit, RelyOn, At, Op, EngineSteps
  <1>16. CASE UNCHANGED guardVars
    BY <1>16 DEF guardVars, KitInv, LoginFollowsKit, RelyOn, At, Op, StaysOn, OnTarget, Live,
                 Settled
  <1> QED
    BY <1>1, <1>2, <1>3, <1>4, <1>5, <1>6, <1>7, <1>8, <1>9, <1>10, <1>11, <1>12, <1>13,
       <1>14, <1>15, <1>16 DEF GuardNext, Take, Step

\* What a swap relies on about the kit holds in every reachable state.
LEMMA KitHolds == GuardSpec => []KitInv
  BY KitInit, KitStep, LocksHeld, PTL DEF GuardSpec

\* The account a kit is live on is the one Steam signs in to.
THEOREM LoginStaysWithKit == GuardSpec => []LoginFollowsKit
  BY KitHolds, PTL DEF KitInv

\* A game on the account already signed in starts under the gate.
THEOREM GamesStartInside == GuardSpec => []PlayedInsideTheGate
  <1>1. KitInv => PlayedInsideTheGate
    BY DEF KitInv, RelyOn, PlayedInsideTheGate, StaysOn
  <1> QED
    BY <1>1, KitHolds, PTL
=============================================================================
