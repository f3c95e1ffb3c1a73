----------------------- MODULE MaestroProgressProofs -----------------------
(***************************************************************************)
(* Why StartAll and StopAll come to an end, for any services, trees and    *)
(* numbers of retries: no goroutine has more than a bounded number of steps*)
(* to take, and they never all wait for each other.  That one which can    *)
(* take a step takes it is the fairness assumed in Maestro.tla.            *)
(***************************************************************************)
EXTENDS MaestroOutcomeProofs, MaestroChannelProofs, WellFoundedInduction

(* When each service of W is one that another of W depends on, following   *)
(* the dependencies backwards leads into a circle.                         *)
LEMMA BackwardsCircle ==
  ASSUME NEW W \in SUBSET Services, W # {},
         \A x \in W : \E p \in W : x \in deps[p]
  PROVE  \E C \in SUBSET W : C # {} /\ IsKnot(C, deps)
<1> DEFINE Led == {X \in SUBSET W :
                     X # {} /\ \A x \in X : \E p \in X : x \in deps[p]}
           less == StrictSubsetOrdering(W)
<1>1. IsFiniteSet(W)  BY ServicesAssumption, FS_Subset
<1>2. IsWellFoundedOn(less, SUBSET W)
  BY <1>1, FS_FiniteSubsetsOfFinite, FS_StrictSubsetOrderingWellFounded
<1>3. Led \subseteq SUBSET W /\ Led # {}  OBVIOUS
<1>4. PICK C \in Led : \A Y \in Led : <<Y, C>> \notin less
  <2> HIDE DEF Led, less
  <2>1. QED  BY <1>2, <1>3, WFMin
<1>5. \A x \in C : deps[x] \cap C # {}
  <2> SUFFICES ASSUME NEW x \in C, deps[x] \cap C = {} PROVE FALSE
    OBVIOUS
  <2>1. \A y \in C : \E p \in C \ {x} : y \in deps[p]  OBVIOUS
  <2>2. C \ {x} \in Led  BY <2>1
  <2>3. <<C \ {x}, C>> \in less  BY DEF StrictSubsetOrdering
  <2>4. QED  BY <1>4, <2>2, <2>3
<1>6. QED  BY <1>4, <1>5 DEF IsKnot

-----------------------------------------------------------------------------
(* What is started has no circle *)

LEMMA InitProgress == Init => ProgressInductive
  BY DEF Init, BaseInit, ProgressInductive, StartedIsAcyclic, BootIsAcyclic,
         StuckIsJammed

(* A step that starts no service, and adds no dependency to a started one  *)
LEMMA NoNewCircle ==
  ASSUME TypeOK, StartedIsAcyclic,
         \A x \in Services : started'[x] => started[x] /\ deps'[x] = deps[x]
  PROVE  StartedIsAcyclic'
<1> SUFFICES ASSUME NEW C \in SUBSET Services, IsKnot(C, deps'),
                    \A x \in C : started'[x]
             PROVE  C = {}
  BY DEF StartedIsAcyclic
<1>1. IsKnot(C, deps) /\ \A x \in C : started[x]  BY DEF IsKnot
<1>2. QED  BY <1>1 DEF StartedIsAcyclic

(* A boot: hasCircularDeps found no circle among the registered services.  *)
LEMMA BootNoCircle ==
  ASSUME OrderInductive, ProgressInductive, NEW s \in Services,
         op = "StartAll", StartCallOk(s)
  PROVE  StartedIsAcyclic'
<1> SUFFICES ASSUME NEW C \in SUBSET Services, IsKnot(C, deps'),
                    \A x \in C : started'[x]
             PROVE  C = {}
  BY DEF StartedIsAcyclic
<1>1. deps' = deps /\ pc[s] = "call"  BY DEF StartCallOk, callVars
<1>2. CircularDeps = {}
  BY <1>1 DEF ProgressInductive, BootIsAcyclic
<1>3. \A x \in Services : started'[x] => x \in services
  BY <1>1 DEF OrderInductive, Registered, TypeOK, BaseTypeOK, StartCallOk,
              BaseStartNil
<1>4. C \in SUBSET services /\ IsKnot(C, deps)  BY <1>1, <1>3
<1>5. C \subseteq CircularDeps  BY <1>4 DEF CircularDeps, Circular
<1>6. QED  BY <1>2, <1>5

(* What a goroutine leaves alone, and how it gets stuck *)
LEMMA RoutineFrame ==
  ASSUME TypeOK, NEW s \in Services, StartRoutine(s) \/ StopRoutine(s)
  PROVE  /\ pc[s] \notin {"idle", "stuck"}
         /\ UNCHANGED <<op, services, deps>>
         /\ \A x \in Services \ {s} : /\ pc'[x] = pc[x]
                                      /\ pending'[x] = pending[x]
                                      /\ attempts'[x] = attempts[x]
         /\ jammed \subseteq jammed'
         /\ pc'[s] = "stuck" => s \in jammed'
         /\ ~StartCallOk(s) => \A x \in Services : started'[x] => started[x]
<1> USE DEF TypeOK, BaseTypeOK, callVars, baseVars, flagVars, routineVars, Goto
<1>1. CASE StartCheck(s) \/ StopCheck(s)
  BY <1>1 DEF StartCheck, StopCheck, Check, Finish
<1>2. CASE StartAwait(s) \/ StopAwait(s)
  BY <1>2 DEF StartAwait, StopAwait, Await, Started, Stopped
<1>3. CASE Receive(s)  BY <1>3 DEF Receive, Abandon
<1>4. CASE Call(s) \/ StartCallErr(s) \/ StopCallErr(s)
  BY <1>4 DEF Call, StartCallErr, StopCallErr, CallErr
<1>5. CASE Backoff(s)  BY <1>5 DEF Backoff, Retry, Finish
<1>6. CASE StartCallOk(s) \/ StopCallOk(s)
  BY <1>6 DEF StartCallOk, StopCallOk, BaseStartNil, BaseStopNil, Finish
<1>7. CASE StartPublish(s) \/ StopPublish(s)
  BY <1>7 DEF StartPublish, StopPublish, BaseStartErr, BaseStopErr,
              FinishPublished, Finish
<1>8. QED
  BY <1>1, <1>2, <1>3, <1>4, <1>5, <1>6, <1>7 DEF StartRoutine, StopRoutine

(* The steps of user goroutines are not about any of this. *)
LEMMA WatcherFrame ==
  ASSUME NEW w \in Watchers,
         \/ Watcher(w) \/ CancelWatcher(w)
         \/ \E s \in Services : ServiceReady(w, s) \/ AwaitStopped(w, s)
  PROVE  UNCHANGED <<flagVars, jammed, callVars, errC, pc, routineVars>>
  BY DEF Watcher, CancelWatcher, ServiceReady, AwaitStopped, Lookup, Subscribe,
         SkipErr, ReceiveNil, GiveUp, Abandon, Started, Stopped, baseVars

LEMMA RoutineProgress ==
  ASSUME OrderInductive, ProgressInductive, NEW s \in Services,
         StartRoutine(s) \/ StopRoutine(s)
  PROVE  ProgressInductive'
<1> TypeOK  BY DEF OrderInductive
<1> USE RoutineFrame DEF ProgressInductive
<1>1. StartedIsAcyclic'
  <2>1. CASE StartCallOk(s) /\ op = "StartAll"  BY <2>1, BootNoCircle
  <2>2. CASE ~StartCallOk(s)  BY <2>2, NoNewCircle
  <2>3. StopRoutine(s) => ~StartCallOk(s)
    <3> SUFFICES ASSUME StopRoutine(s), StartCallOk(s) PROVE FALSE
      OBVIOUS
    <3>1. stopped'[s] = FALSE /\ pc[s] = "call" /\ pc'[s] = "idle"
      BY DEF StartCallOk, BaseStartNil, Finish, Goto, OrderInductive, TypeOK,
             BaseTypeOK
    <3>2. StopCallOk(s) \/ CallErr(s)
      BY <3>1 DEF StopRoutine, StopCheck, StopAwait, Await, Check, Receive,
                  Call, StopCallErr, Backoff, StopPublish
    <3>3. QED
      BY <3>1, <3>2 DEF CallErr, StopCallOk, BaseStopNil, Goto, OrderInductive,
                        TypeOK, BaseTypeOK
  <2>4. QED  BY <2>1, <2>2, <2>3 DEF StartRoutine
<1>2. BootIsAcyclic'  BY DEF BootIsAcyclic, CircularDeps
<1>3. StuckIsJammed'
  BY DEF StuckIsJammed
<1>4. QED  BY <1>1, <1>2, <1>3

LEMMA CallProgress ==
  ASSUME OrderInductive, ProgressInductive,
         \/ \E s \in Services : \E ds \in MayDepend[s] : AddService(s, ds)
         \/ StartAll \/ StopAll \/ Return \/ Cancel
  PROVE  ProgressInductive'
<1> USE DEF OrderInductive, TypeOK, BaseTypeOK
<1>1. UNCHANGED baseVars
  BY DEF AddService, StartAll, StartAllMissing, StartAllCircular, StartAllBoot,
     StopAll, TakeLock, Return, Cancel
<1>2. op = "none" => \A x \in Services : pc[x] = "idle"  BY DEF Registered
<1>3. StartedIsAcyclic'
  <2>1. \A x \in Services : started[x] => deps'[x] = deps[x]
    BY DEF AddService, StartAll, StartAllMissing, StartAllCircular,
       StartAllBoot, StopAll, TakeLock, Return, Cancel, Registered
  <2>2. QED
    BY <1>1, <2>1, NoNewCircle DEF ProgressInductive, baseVars, flagVars
<1>4. BootIsAcyclic'
  BY <1>2 DEF ProgressInductive, BootIsAcyclic, CircularDeps, AddService,
     StartAll, StartAllMissing, StartAllCircular, StartAllBoot, StopAll,
     TakeLock, Return, Cancel
<1>5. StuckIsJammed'
  <2>1. \A x \in Services : pc'[x] = "stuck" => pc[x] = "stuck"
    BY DEF AddService, StartAll, StartAllMissing, StartAllCircular,
       StartAllBoot, StopAll, TakeLock, Return, Cancel, Spawn
  <2>2. QED  BY <1>1, <2>1 DEF ProgressInductive, StuckIsJammed, baseVars
<1>6. QED  BY <1>3, <1>4, <1>5 DEF ProgressInductive

(* ProgressInductive is inductive, in the states of OrderInductive: what   *)
(* is started, or being booted, never has a circle (the whole of           *)
(* Maestro.tla, hasCircularDeps in particular).                            *)
THEOREM ProgressHolds == Spec => []ProgressInductive
<1>1. OrderInductive /\ ProgressInductive /\ [Next]_vars => ProgressInductive'
  <2> SUFFICES ASSUME OrderInductive, ProgressInductive, [Next]_vars
               PROVE  ProgressInductive'
    OBVIOUS
  <2>1. ASSUME UNCHANGED <<flagVars, jammed, callVars, pc>>
        PROVE  ProgressInductive'
    BY <2>1 DEF ProgressInductive, StartedIsAcyclic, BootIsAcyclic,
                StuckIsJammed, CircularDeps, flagVars, callVars
  <2>2. CASE Next
    BY <2>1, <2>2, RoutineProgress, WatcherFrame, CallProgress DEF Next
  <2>3. CASE UNCHANGED vars  BY <2>1, <2>3 DEF vars, baseVars
  <2>4. QED  BY <2>2, <2>3
<1>2. QED  BY <1>1, InitProgress, OrderHolds, PTL DEF Spec

-----------------------------------------------------------------------------
(* Goroutines never all wait for each other *)

(* Somebody who waits, and can neither be told anything nor has missed it, *)
(* waits for somebody whose goroutine still runs.                          *)
LEMMA WaitsForRunning ==
  ASSUME OrderInductive, OutcomeInductive, Channels,
         op \in {"StartAll", "StopAll"}, ~Refused,
         NEW s \in Services, pc[s] = "await", ~Runnable(s), ~Unheard(s)
  PROVE  awaiting[s] \in Awaited(s) /\ pc[awaiting[s]] # "idle"
<1> DEFINE d == awaiting[s]
<1>1. d \in Services /\ d \in Awaited(s) /\ d \in services
  BY AwaitedRegistered
  DEF OrderInductive, AwaitsOne, OutcomeInductive, Advances
<1>2. s \in Listeners /\ unread[s] = 0 /\ ~closed[s]
  BY DEF Listeners, Runnable, OrderInductive, TypeOK, BaseTypeOK
<1>3. ~Reached(d)
  BY <1>1, <1>2
  DEF Channels, Listens, WaitsForStart, WaitsForStop, Reached
<1>4. ~Failed(d)  BY <1>2, <1>3 DEF Unheard
<1>5. Reports(d)  BY <1>1 DEF OutcomeInductive
<1>6. QED  BY <1>1, <1>3, <1>4, <1>5 DEF Reports

(* StartAll and StopAll never come to a stop because their goroutines wait *)
(* for each other, whatever graph was registered: StopAll looks for no     *)
(* circle, and relies on what StartAll has refused to start (start and     *)
(* stop, hasCircularDeps).                                                 *)
THEOREM NobodyDeadlocks == Spec => []NoDeadlock
<1>1. OrderInductive /\ OutcomeInductive /\ Channels /\ ProgressInductive
        => NoDeadlock
  <2> SUFFICES ASSUME OrderInductive, OutcomeInductive, Channels,
                      ProgressInductive, op \in {"StartAll", "StopAll"},
                      NEW r \in Services, pc[r] # "idle", jammed = {},
                      \A s \in Services : ~Runnable(s) /\ ~Unheard(s)
               PROVE  FALSE
    BY DEF NoDeadlock
  <2> DEFINE W == {s \in Services : pc[s] # "idle"}
  <2>1. \A s \in W : pc[s] = "await"
    BY DEF Runnable, ProgressInductive, StuckIsJammed, OrderInductive, TypeOK,
           RoutinePCs
  <2>2. ~Refused  BY DEF OutcomeInductive, RefusalIsFinal
  <2>3. \A s \in W : awaiting[s] \in Awaited(s) /\ awaiting[s] \in W
    BY <2>1, <2>2, WaitsForRunning DEF OrderInductive, AwaitsOne
  <2>4. W # {} /\ W \subseteq services
    BY DEF OrderInductive, Registered
  <2>5. CASE op = "StartAll"
    <3>1. IsKnot(W, deps)  BY <2>3, <2>5 DEF IsKnot, Awaited
    <3>2. W \subseteq CircularDeps
      BY <2>4, <3>1 DEF CircularDeps, Circular
    <3>3. QED
      BY <2>4, <2>5, <3>2 DEF ProgressInductive, BootIsAcyclic
  <2>6. CASE op = "StopAll"
    <3>1. \A s \in W : started[s]
      BY <2>1, <2>6 DEF OrderInductive, HaltProgress, Underway
    <3>2. \A s \in W : \E p \in W : s \in deps[p]
      BY <2>3, <2>6 DEF Awaited, Parents
    <3>3. PICK C \in SUBSET W : C # {} /\ IsKnot(C, deps)
      BY <2>4, <3>2, BackwardsCircle
    <3>4. QED
      BY <3>1, <3>3 DEF ProgressInductive, StartedIsAcyclic
  <2>7. QED  BY <2>5, <2>6
<1>2. QED  BY <1>1, OrderHolds, OutcomesHold, ChannelsHold, ProgressHolds, PTL

-----------------------------------------------------------------------------
(* No goroutine goes on for ever *)

LEMMA WorkIsNatural ==
  ASSUME OrderInductive, OutcomeInductive, NEW s \in Services
  PROVE  /\ Tries(s) \in Nat /\ Tries(s) >= 1
         /\ attempts[s] \in Nat /\ attempts[s] <= Tries(s)
         /\ IsFiniteSet(pending[s]) /\ Cardinality(pending[s]) \in Nat
         /\ Cardinality(Services) \in Nat
         /\ Work(s) \in Nat
<1>1. /\ Tries(s) \in Nat /\ Tries(s) >= 1
      /\ attempts[s] \in Nat /\ attempts[s] <= Tries(s)
  BY TriesPositive
  DEF OrderInductive, TypeOK, OutcomeInductive, GivesUpOnLastTry
<1>2. /\ IsFiniteSet(pending[s]) /\ Cardinality(pending[s]) \in Nat
      /\ Cardinality(Services) \in Nat
  BY ServicesAssumption, FS_Subset, FS_CardinalityType
  DEF OrderInductive, TypeOK
<1>3. Work(s) \in Nat
  BY <1>1, <1>2 DEF Work, WorkOfTries, WorkOfWaits, OrderInductive, TypeOK,
                    RoutinePCs
<1>4. QED  BY <1>1, <1>2, <1>3

LEMMA RoutineWork ==
  ASSUME OrderInductive, OutcomeInductive, NEW s \in Services,
         StartRoutine(s) \/ StopRoutine(s)
  PROVE  Work(s)' < Work(s) /\ Work(s)' <= Work(s)
<1> USE WorkIsNatural DEF OrderInductive, TypeOK, Goto
<1> DEFINE T == Tries(s)
           A == attempts[s]
           P == Cardinality(pending[s])
           N == Cardinality(Services)
<1>1. Tries(s)' = T /\ (T \in Nat /\ T >= 1)  BY DEF Tries
<1>2. \A l \in RoutinePCs : pc' = [pc EXCEPT ![s] = l] => pc'[s] = l
  OBVIOUS
<1>3. pc'[s] = "idle" => Work(s)' = 0  BY DEF Work
<1>4. pc'[s] \in {"depFailed", "callFailed"} => Work(s)' = 1  BY DEF Work
<1>5. CASE StartCheck(s) \/ StopCheck(s)
  <2>1. PICK ws \in SUBSET Services : \E done, kind : Check(s, done, kind, ws)
    BY <1>5 DEF StartCheck, StopCheck, Parents
  <2>2. pc[s] = "check" /\ Work(s) = 2 * T + 2 + 2 * N
    BY <2>1 DEF Check, Work
  <2>3. CASE pc'[s] = "idle"  BY <1>1, <1>3, <2>2, <2>3
  <2>4. CASE pc'[s] = "deps" /\ pending'[s] = ws
    <3>1. Cardinality(ws) \in Nat /\ Cardinality(ws) <= N
      BY ServicesAssumption, FS_Subset, FS_CardinalityType
    <3>2. Work(s)' = 2 * T + 1 + 2 * Cardinality(ws)
      BY <1>1, <2>4 DEF Work, WorkOfWaits
    <3>3. QED  BY <1>1, <2>2, <3>1, <3>2
  <2>5. QED  BY <2>1, <2>3, <2>4 DEF Check, Finish
<1>6. CASE StartAwait(s) \/ StopAwait(s)
  <2>1. PICK d \in pending[s] : Await(s, d)
    BY <1>6 DEF StartAwait, StopAwait
  <2>2. pc'[s] = "await" /\ pending'[s] = pending[s] \ {d} /\ pc[s] = "deps"
    BY <2>1 DEF Await
  <2>3. Cardinality(pending'[s]) = P - 1
    <3>1. d \in pending[s] /\ IsFiniteSet(pending[s])  OBVIOUS
    <3>2. Cardinality(pending[s] \ {d}) = P - 1  BY ONLY <3>1, FS_RemoveElement
    <3>3. QED  BY <2>2, <3>2
  <2>4. Work(s)' = 2 * T + 1 + 2 * (P - 1) + 1 /\ Work(s) = 2 * T + 1 + 2 * P
    BY <1>1, <2>2, <2>3 DEF Work, WorkOfWaits
  <2>5. QED  BY <1>1, <2>4
<1>7. CASE Receive(s)
  <2>1. Work(s) = 2 * T + 1 + 2 * P + 1
    BY <1>7 DEF Receive, Work, WorkOfWaits
  <2>2. CASE pc'[s] = "depFailed"  BY <1>1, <1>4, <2>1, <2>2
  <2>3. CASE pc'[s] = "deps" /\ pending' = pending
    <3>1. Work(s)' = 2 * T + 1 + 2 * P
      BY <1>1, <2>3 DEF Work, WorkOfWaits
    <3>2. QED  BY <1>1, <2>1, <3>1
  <2>4. QED  BY <1>7, <2>2, <2>3 DEF Receive
<1>8. CASE Call(s)
  <2>1. /\ pc[s] = "deps" /\ pending[s] = {}
        /\ pc'[s] = "call" /\ attempts'[s] = 1
    BY <1>8 DEF Call
  <2>2. Work(s)' = 2 * (T - 1) + 2 /\ Work(s) = 2 * T + 1 + 2 * P
    BY <1>1, <2>1 DEF Work, WorkOfTries, WorkOfWaits
  <2>3. QED  BY <1>1, <2>2
<1>9. CASE CallErr(s)
  <2>1. pc[s] = "call" /\ attempts'[s] = A /\ Work(s) = 2 * (T - A) + 2
    BY <1>9 DEF CallErr, routineVars, Work, WorkOfTries
  <2>2. CASE pc'[s] = "backoff"
    <3>1. Work(s)' = 2 * (T - A) + 1
      BY <1>1, <2>1, <2>2 DEF Work, WorkOfTries
    <3>2. QED  BY <1>1, <2>1, <3>1
  <2>3. CASE pc'[s] = "callFailed"  BY <1>1, <1>4, <2>1, <2>3
  <2>4. QED  BY <1>9, <2>2, <2>3 DEF CallErr
<1>10. CASE StartCallOk(s) \/ StopCallOk(s)
  <2>1. pc[s] = "call" /\ pc'[s] = "idle" /\ Work(s) = 2 * (T - A) + 2
    BY <1>10 DEF StartCallOk, StopCallOk, Finish, Work, WorkOfTries
  <2>2. QED  BY <1>1, <1>3, <2>1
<1>11. CASE Backoff(s)
  <2>1. pc[s] = "backoff" /\ Work(s) = 2 * (T - A) + 1
    BY <1>11 DEF Backoff, Work, WorkOfTries
  <2>2. A < T  BY <2>1, MaxRetriesAssumption
                 DEF OutcomeInductive, Advances, Tries
  <2>3. CASE pc'[s] = "idle"  BY <1>1, <1>3, <2>1, <2>3
  <2>4. CASE pc'[s] = "call" /\ attempts'[s] = A + 1
    <3>1. Work(s)' = 2 * (T - (A + 1)) + 2
      BY <1>1, <2>4 DEF Work, WorkOfTries
    <3>2. QED  BY <1>1, <2>1, <2>2, <3>1
  <2>5. QED  BY <1>11, <2>3, <2>4 DEF Backoff, Retry, Finish
<1>12. CASE StartPublish(s) \/ StopPublish(s)
  <2>1. pc[s] \in {"depFailed", "callFailed"} /\ Work(s) = 1
    BY <1>12 DEF StartPublish, StopPublish, Work
  <2>2. pc'[s] \in {"idle", "stuck"}
    BY <1>12 DEF StartPublish, StopPublish, FinishPublished, Finish
  <2>3. Work(s)' = 0  BY <2>2 DEF Work
  <2>4. QED  BY <2>1, <2>3
<1>13. QED
  BY <1>5, <1>6, <1>7, <1>8, <1>9, <1>10, <1>11, <1>12
  DEF StartRoutine, StopRoutine, StartCallErr, StopCallErr

LEMMA SameWork ==
  ASSUME OrderInductive, OutcomeInductive, NEW s \in Services,
         pc'[s] = pc[s], pending'[s] = pending[s], attempts'[s] = attempts[s]
  PROVE  Work(s)' <= Work(s)
<1>1. Work(s)' = Work(s)
  BY DEF Work, WorkOfTries, WorkOfWaits, Tries
<1>2. QED  BY <1>1, WorkIsNatural

(* Each step of a goroutine of StartAll or StopAll brings it nearer to its *)
(* end, and nothing else that happens takes it back: none of its loops, on *)
(* dependencies, on tries, goes on for ever (Maestro.start, Maestro.stop). *)
THEOREM WorkAlwaysShrinks == Spec => WorkShrinks
<1> DEFINE Shrinks ==
      \A s \in Services :
        /\ op \in {"StartAll", "StopAll"} => Work(s)' <= Work(s)
        /\ StartRoutine(s) \/ StopRoutine(s) => Work(s)' < Work(s)
<1>1. OrderInductive /\ OutcomeInductive /\ [Next]_vars => [Shrinks]_vars
  <2> SUFFICES ASSUME OrderInductive, OutcomeInductive, Next,
                      op \in {"StartAll", "StopAll"}, NEW s \in Services
               PROVE  Work(s)' <= Work(s)
    BY RoutineWork DEF StartRoutine, StopRoutine
  <2>1. ASSUME NEW r \in Services, StartRoutine(r) \/ StopRoutine(r)
        PROVE  Work(s)' <= Work(s)
    <3>1. CASE r = s  BY <2>1, <3>1, RoutineWork
    <3>2. CASE r # s
      BY <2>1, <3>2, RoutineFrame, SameWork DEF OrderInductive
    <3>3. QED  BY <3>1, <3>2
  <2>2. ASSUME NEW w \in Watchers,
               \/ Watcher(w) \/ CancelWatcher(w)
               \/ \E t \in Services : ServiceReady(w, t) \/ AwaitStopped(w, t)
        PROVE  Work(s)' <= Work(s)
    BY <2>2, WatcherFrame, SameWork DEF routineVars
  <2>3. CASE Return \/ Cancel
    BY <2>3, SameWork DEF Return, Cancel, routineVars
  <2>4. QED
    BY <2>1, <2>2, <2>3
    DEF Next, AddService, StartAll, StartAllMissing, StartAllCircular,
        StartAllBoot, StopAll, TakeLock
<1>2. QED  BY <1>1, OrderHolds, OutcomesHold, PTL DEF Spec, WorkShrinks

-----------------------------------------------------------------------------
(* How an operation can hang all the same *)

(* The goroutine of r touches no flag of another service, and no channel   *)
(* but its own and those of its lists.                                     *)
LEMMA RoutineReach ==
  ASSUME TypeOK, NEW r \in Services, StartRoutine(r) \/ StopRoutine(r),
         NEW x \in Services \ {r}
  PROVE  /\ started'[x] = started[x] /\ stopped'[x] = stopped[x]
         /\ awaiting'[x] = awaiting[x]
         /\ startedBacklog'[x] = startedBacklog[x]
         /\ stoppedBacklog'[x] = stoppedBacklog[x]
         /\ x \notin startedCs[r] \cup stoppedCs[r] =>
              unread'[x] = unread[x] /\ closed'[x] = closed[x]
<1> r \in Listeners /\ x \in Listeners /\ x \notin Watchers
  BY ListenersAssumption DEF Listeners
<1> USE DEF TypeOK, BaseTypeOK, callVars, baseVars, flagVars, chanVars,
            backlogVars, routineVars, Goto
<1>1. CASE StartCheck(r) \/ StopCheck(r)
  BY <1>1 DEF StartCheck, StopCheck, Check
<1>2. CASE StartAwait(r) \/ StopAwait(r)
  BY <1>2 DEF StartAwait, StopAwait, Await, Started, Stopped
<1>3. CASE Receive(r)  BY <1>3 DEF Receive, Abandon
<1>4. CASE Call(r) \/ StartCallErr(r) \/ StopCallErr(r)
  BY <1>4 DEF Call, StartCallErr, StopCallErr, CallErr
<1>5. CASE Backoff(r)  BY <1>5 DEF Backoff
<1>6. CASE StartCallOk(r) \/ StopCallOk(r)
  BY <1>6, SMTT(30)
  DEF StartCallOk, StopCallOk, BaseStartNil, BaseStopNil, Close
<1>7. CASE StartPublish(r) \/ StopPublish(r)
  <2>1. BaseStartErr(r) \/ BaseStopErr(r)
    BY <1>7 DEF StartPublish, StopPublish
  <2>2. UNCHANGED awaiting  BY <1>7 DEF StartPublish, StopPublish
  <2>3. QED
    BY <2>1, <2>2 DEF BaseStartErr, BaseStopErr, Push, HasRoom
<1>8. QED
  BY <1>1, <1>2, <1>3, <1>4, <1>5, <1>6, <1>7 DEF StartRoutine, StopRoutine

(* A goroutine only returns by itself. *)
LEMMA FailuresStay ==
  ASSUME NEW r \in Services, StartRoutine(r) \/ StopRoutine(r)
  PROVE  errC \subseteq errC'
  BY DEF StartRoutine, StopRoutine, StartCheck, StopCheck, Check, StartAwait,
     StopAwait, Await, Receive, Call, StartCallOk, StopCallOk, StartCallErr,
     StopCallErr, CallErr, Backoff, Retry, StartPublish, StopPublish,
     FinishPublished, Finish

(* A goroutine that asked a service for its channel too late, after the    *)
(* failure was published, is never told and waits for ever: it does not    *)
(* look at the context while it waits, and the operation it belongs to     *)
(* never returns (start and stop of service.go, which forget a failure     *)
(* once it is published; the loops of Maestro.start and Maestro.stop).     *)
Unheeded == \A s \in Services : Unheard(s) => Unheard(s)' /\ op' = op
THEOREM TheUnheardWaitForEver == Spec => [][Unheeded]_vars
<1>1. OrderInductive /\ OutcomeInductive /\ [Next]_vars => [Unheeded]_vars
  <2> SUFFICES ASSUME OrderInductive, OutcomeInductive, Next,
                      NEW s \in Services, Unheard(s)
               PROVE  Unheard(s)' /\ op' = op
    BY DEF Unheeded
  <2> USE DEF OrderInductive, TypeOK, BaseTypeOK
  <2>0. PICK d \in Services : d = awaiting[s]
    BY DEF Unheard, AwaitsOne
  <2>1. /\ pc[s] = "await" /\ op \in {"StartAll", "StopAll"}
        /\ s \in Listeners /\ s \notin Watchers
    BY ListenersAssumption
    DEF Unheard, AwaitsOne, Registered, Listeners
  <2>2. ~Refused  BY <2>1 DEF OutcomeInductive, RefusalIsFinal
  <2>3. pc[d] = "idle"
    BY <2>0, <2>1, <2>2 DEF Unheard, OutcomeInductive, Reports
  <2>4. ASSUME UNCHANGED <<flagVars, op, errC, pc, awaiting>>,
               unread'[s] = unread[s], closed'[s] = closed[s]
        PROVE  Unheard(s)' /\ op' = op
    BY <2>4 DEF Unheard, Failed, Reached, flagVars
  <2>5. ASSUME NEW r \in Services, StartRoutine(r) \/ StopRoutine(r)
        PROVE  Unheard(s)' /\ op' = op
    <3>1. r # d /\ pc[r] # "idle"  BY <2>3, <2>5, RoutineFrame
    <3>2. r # s
      BY <2>1, <2>5 DEF Unheard, StartRoutine, StopRoutine, StartCheck,
         StopCheck, Check, StartAwait, StopAwait, Await, Receive, Call,
         StartCallOk, StopCallOk, StartCallErr, StopCallErr, CallErr, Backoff,
         StartPublish, StopPublish
    <3>3. s \notin startedCs[r] \cup stoppedCs[r]
      BY <2>0, <3>1, ListedGoroutine
    <3>4. /\ unread'[s] = unread[s] /\ closed'[s] = closed[s]
          /\ awaiting'[s] = d /\ pc'[s] = pc[s] /\ op' = op
          /\ started'[d] = started[d] /\ stopped'[d] = stopped[d]
      BY <2>0, <2>1, <2>5, <3>1, <3>2, <3>3, RoutineReach, RoutineFrame
    <3>5. Failed(d) => Failed(d)'  BY <2>5, FailuresStay DEF Failed
    <3>6. QED  BY <2>0, <3>4, <3>5 DEF Unheard, Reached
  <2>6. ASSUME NEW w \in Watchers,
               \/ Watcher(w) \/ CancelWatcher(w)
               \/ \E t \in Services : ServiceReady(w, t) \/ AwaitStopped(w, t)
        PROVE  Unheard(s)' /\ op' = op
    <3>1. UNCHANGED <<flagVars, op, errC, pc, awaiting>>
      BY <2>6, WatcherFrame DEF callVars, routineVars
    <3>2. w # s /\ w \in Listeners  BY <2>1 DEF Listeners
    <3>3. unread'[s] = unread[s] /\ closed'[s] = closed[s]
      <4>1. \/ UNCHANGED <<unread, closed>> \/ Abandon(w) \/ SkipErr(w)
            \/ \E t : Started(w, t) \/ Stopped(w, t)
        BY <2>6 DEF Watcher, CancelWatcher, ServiceReady, AwaitStopped, Lookup,
                    Subscribe, ReceiveNil, GiveUp, baseVars, chanVars
      <4>2. QED  BY <2>1, <3>2, <4>1 DEF Abandon, SkipErr, Started, Stopped
    <3>4. QED  BY <2>4, <3>1, <3>3
  <2>7. CASE Cancel
    BY <2>4, <2>7 DEF Cancel, baseVars, chanVars, routineVars
  <2>8. ~Return  BY <2>1 DEF Return
  <2>9. QED
    BY <2>1, <2>5, <2>6, <2>7, <2>8
    DEF Next, AddService, StartAll, StartAllMissing, StartAllCircular,
        StartAllBoot, StopAll, TakeLock
<1>2. QED  BY <1>1, OrderHolds, OutcomesHold, PTL DEF Spec

(* A service is only jammed because one of its lists is full. *)
JammedIsFull ==
  \A s \in jammed : startedBacklog[s] = ChanCap \/ stoppedBacklog[s] = ChanCap

(* An operation that begins with room for one more error in every list     *)
(* never blocks on a send, for each of its goroutines publishes at most one*)
(* failure, when it ends: so far from full a channel nobody reads any more *)
(* does no harm (start and stop of service.go, called from the failure     *)
(* paths of Maestro.start and Maestro.stop).                               *)
THEOREM RoomIsEnough == Spec => RoomLasts
<1> DEFINE StaysRoomy == Roomy /\ op' = op => Roomy'
<1>1. TypeOK /\ [Next]_vars => [StaysRoomy]_vars
  <2> SUFFICES ASSUME TypeOK, Next, Roomy, op' = op PROVE Roomy'
    OBVIOUS
  <2> USE DEF TypeOK, BaseTypeOK
  <2>1. ASSUME NEW r \in Services, StartRoutine(r) \/ StopRoutine(r)
        PROVE  Roomy'
    <3>1. /\ pc[r] \notin {"idle", "stuck"}
          /\ \A x \in Services \ {r} :
               /\ pc'[x] = pc[x]
               /\ startedBacklog'[x] = startedBacklog[x]
               /\ stoppedBacklog'[x] = stoppedBacklog[x]
      BY <2>1, RoutineFrame, RoutineReach
    <3>2. CASE StartPublish(r) /\ op = "StartAll"
      <4>1. startedBacklog[r] < ChanCap  BY <3>1, <3>2 DEF Roomy
      <4>2. jammed' = jammed  BY <3>2, <4>1 DEF StartPublish, BaseStartErr
      <4>3. pc'[r] = "idle"
        BY <3>2, <4>1
        DEF StartPublish, BaseStartErr, FinishPublished, Finish, Goto
      <4>4. QED  BY <3>1, <3>2, <4>2, <4>3 DEF Roomy
    <3>3. CASE StopPublish(r) /\ op = "StopAll"
      <4>1. stoppedBacklog[r] < ChanCap  BY <3>1, <3>3 DEF Roomy
      <4>2. jammed' = jammed  BY <3>3, <4>1 DEF StopPublish, BaseStopErr
      <4>3. pc'[r] = "idle"
        BY <3>3, <4>1
        DEF StopPublish, BaseStopErr, FinishPublished, Finish, Goto
      <4>4. QED  BY <3>1, <3>3, <4>2, <4>3 DEF Roomy
    <3>4. CASE StartCallOk(r) \/ StopCallOk(r)
      BY <3>1, <3>4, ChanCapAssumption
      DEF Roomy, StartCallOk, StopCallOk, BaseStartNil, BaseStopNil
    <3>5. CASE UNCHANGED <<backlogVars, jammed>>
      BY <3>1, <3>5 DEF Roomy, backlogVars
    <3>6. QED
      BY <2>1, <3>2, <3>3, <3>4, <3>5
      DEF StartRoutine, StopRoutine, StartCheck, StopCheck, Check, StartAwait,
          StopAwait, Await, Receive, Call, StartCallErr, StopCallErr, CallErr,
          Backoff, Started, Stopped, Abandon, baseVars
  <2>2. ASSUME NEW w \in Watchers,
               \/ Watcher(w) \/ CancelWatcher(w)
               \/ \E t \in Services : ServiceReady(w, t) \/ AwaitStopped(w, t)
        PROVE  Roomy'
    BY <2>2 DEF Roomy, Watcher, CancelWatcher, ServiceReady, AwaitStopped,
       Lookup, Subscribe, SkipErr, ReceiveNil, GiveUp, Abandon, Started,
       Stopped, baseVars, backlogVars, callVars
  <2>3. CASE Cancel
    BY <2>3 DEF Cancel, Roomy, baseVars, backlogVars
  <2>4. ~Return  BY DEF Return, Roomy
  <2>5. QED
    BY <2>1, <2>2, <2>3, <2>4
    DEF Next, Roomy, AddService, StartAll, StartAllMissing, StartAllCircular,
        StartAllBoot, StopAll, TakeLock
<1>2. QED  BY <1>1, TypeCorrect, PTL DEF Spec, RoomLasts

(* So does one that begins, or is caught, in a state with that room: the   *)
(* lock of a service is only held for good by a send on one of its lists.  *)
BeginsRoomy == Room /\ op \in {"StartAll", "StopAll"} => Roomy
THEOREM RoomIsRoomy == Spec => []BeginsRoomy
<1>1. Init => JammedIsFull  BY DEF Init, BaseInit, JammedIsFull
<1>2. TypeOK /\ JammedIsFull /\ [Next]_vars => JammedIsFull'
  <2> SUFFICES ASSUME TypeOK, JammedIsFull, [Next]_vars PROVE JammedIsFull'
    OBVIOUS
  <2> USE DEF TypeOK, BaseTypeOK
  <2>1. ASSUME UNCHANGED <<backlogVars, jammed>> PROVE JammedIsFull'
    BY <2>1 DEF JammedIsFull, backlogVars
  <2>2. ASSUME NEW s \in Services,
               \/ BaseStartNil(s) \/ BaseStopNil(s)
               \/ BaseStartErr(s) \/ BaseStopErr(s)
        PROVE  JammedIsFull'
    <3>1. /\ s \notin jammed
          /\ \A x \in Services \ {s} :
               /\ startedBacklog'[x] = startedBacklog[x]
               /\ stoppedBacklog'[x] = stoppedBacklog[x]
          /\ \/ UNCHANGED jammed
             \/ /\ jammed' = jammed \cup {s}
                /\ \/ startedBacklog'[s] = ChanCap
                   \/ stoppedBacklog'[s] = ChanCap
      BY <2>2 DEF BaseStartNil, BaseStopNil, BaseStartErr, BaseStopErr
    <3>2. QED  BY <3>1 DEF JammedIsFull
  <2>3. ASSUME NEW s \in Services, StartRoutine(s) \/ StopRoutine(s)
        PROVE  JammedIsFull'
    BY <2>1, <2>2, <2>3
    DEF StartRoutine, StopRoutine, StartCheck, StopCheck, Check, StartAwait,
        StopAwait, Await, Receive, Call, StartCallOk, StopCallOk, StartCallErr,
        StopCallErr, CallErr, Backoff, StartPublish, StopPublish, Started,
        Stopped, Abandon, baseVars
  <2>4. ASSUME NEW w \in Watchers,
               \/ Watcher(w) \/ CancelWatcher(w)
               \/ \E t \in Services : ServiceReady(w, t) \/ AwaitStopped(w, t)
        PROVE  JammedIsFull'
    BY <2>1, <2>4 DEF Watcher, CancelWatcher, ServiceReady, AwaitStopped,
       Lookup, Subscribe, SkipErr, ReceiveNil, GiveUp, Abandon, Started,
       Stopped, baseVars
  <2>5. CASE \/ \E s \in Services : \E ds \in MayDepend[s] : AddService(s, ds)
             \/ StartAll \/ StopAll \/ Return \/ Cancel
    BY <2>1, <2>5 DEF AddService, StartAll, StartAllMissing, StartAllCircular,
       StartAllBoot, StopAll, TakeLock, Return, Cancel, baseVars
  <2>6. CASE UNCHANGED vars  BY <2>1, <2>6 DEF vars, baseVars
  <2>7. QED  BY <2>3, <2>4, <2>5, <2>6 DEF Next
<1>3. TypeOK /\ JammedIsFull => BeginsRoomy
  <2> SUFFICES ASSUME TypeOK, JammedIsFull, Room PROVE jammed = {}
    BY DEF BeginsRoomy, Roomy, Room
  <2>1. \A n \in 0..ChanCap : n < ChanCap => n # ChanCap
    BY ChanCapAssumption
  <2>2. \A s \in Services : startedBacklog[s] # ChanCap
                            /\ stoppedBacklog[s] # ChanCap
    BY <2>1 DEF Room, TypeOK, BaseTypeOK
  <2>3. QED  BY <2>2 DEF JammedIsFull, TypeOK, BaseTypeOK
<1>4. QED  BY <1>1, <1>2, <1>3, TypeCorrect, PTL DEF Spec

=============================================================================
