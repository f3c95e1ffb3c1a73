---------------------------- MODULE MaestroProofs ----------------------------
(***************************************************************************)
(* Proofs about Maestro.tla, for any services, watchers, dependencies,     *)
(* channel capacity, retries and failures.                                 *)
(***************************************************************************)
EXTENDS Maestro, TLAPS

-----------------------------------------------------------------------------
(* Type correctness *)

LEMMA InitType == Init => TypeOK
<1> SUFFICES ASSUME Init PROVE TypeOK  OBVIOUS
<1>1. BaseTypeOK  BY ChanCapAssumption DEF Init, BaseInit, BaseTypeOK
<1>2. errC \in SUBSET (Services \X Kinds)  BY DEF Init
<1>3. QED  BY <1>1, <1>2 DEF Init, TypeOK, RoutinePCs, WatcherPCs

(* Each operation on ServiceBase leaves the state of all services well     *)
(* typed.                                                                  *)
LEMMA BaseType ==
  ASSUME BaseTypeOK, NEW s \in Services, NEW l \in Listeners,
         \/ Started(l, s) \/ Stopped(l, s) \/ Abandon(l)
         \/ BaseStartErr(s) \/ BaseStartNil(s)
         \/ BaseStopErr(s) \/ BaseStopNil(s)
  PROVE  BaseTypeOK'
<1> USE ChanCapAssumption DEF BaseTypeOK, flagVars, chanVars, backlogVars
<1>1. CASE Started(l, s)  BY <1>1 DEF Started
<1>2. CASE Stopped(l, s)  BY <1>2 DEF Stopped
<1>3. CASE Abandon(l)  BY <1>3 DEF Abandon
<1>4. CASE BaseStartErr(s)
  <2>1. unread' \in [Listeners -> Nat]  BY <1>4 DEF BaseStartErr, Push
  <2>2. QED  BY <1>4, <2>1 DEF BaseStartErr
<1>5. CASE BaseStartNil(s)  BY <1>5 DEF BaseStartNil, Close
<1>6. CASE BaseStopErr(s)
  <2>1. unread' \in [Listeners -> Nat]  BY <1>6 DEF BaseStopErr, Push
  <2>2. QED  BY <1>6, <2>1 DEF BaseStopErr
<1>7. CASE BaseStopNil(s)  BY <1>7 DEF BaseStopNil, Close
<1>8. QED  BY <1>1, <1>2, <1>3, <1>4, <1>5, <1>6, <1>7

(* The part of TypeOK about the variables of Maestro *)
MaestroTypeOK ==
  /\ services \in SUBSET Services
  /\ deps \in [Services -> SUBSET Services]
  /\ op \in {"none", "StartAll", "StopAll", "Blocked"}
  /\ cancelled \in BOOLEAN
  /\ errC \in SUBSET (Services \X Kinds)
  /\ pc \in [Services -> RoutinePCs]
  /\ pending \in [Services -> SUBSET Services]
  /\ awaiting \in [Services -> Services \cup {NoService}]
  /\ attempts \in [Services -> Nat]

WatcherTypeOK ==
  /\ wpc \in [Watchers -> WatcherPCs]
  /\ wtarget \in [Watchers -> Services \cup {NoService}]
  /\ wcancelled \in [Watchers -> BOOLEAN]

LEMMA TypeParts == TypeOK <=> BaseTypeOK /\ MaestroTypeOK /\ WatcherTypeOK
  BY DEF TypeOK, MaestroTypeOK, WatcherTypeOK

LEMMA BaseTypeStutter ==
  ASSUME BaseTypeOK, UNCHANGED baseVars
  PROVE  BaseTypeOK'
  BY DEF BaseTypeOK, baseVars, flagVars, chanVars, backlogVars

LEMMA AbandonType ==
  ASSUME BaseTypeOK, NEW l \in Listeners, Abandon(l)
  PROVE  BaseTypeOK'
<1>1. /\ unread' \in [Listeners -> Nat] /\ closed' \in [Listeners -> BOOLEAN]
      /\ startedCs' \in [Services -> SUBSET Listeners]
      /\ stoppedCs' \in [Services -> SUBSET Listeners]
  BY DEF Abandon, BaseTypeOK
<1>2. QED  BY <1>1 DEF Abandon, BaseTypeOK, flagVars, backlogVars

(* The end of a goroutine *)
LEMMA FinishType ==
  ASSUME MaestroTypeOK, NEW s \in Services, NEW es \in SUBSET Kinds,
         Finish(s, es)
  PROVE  /\ errC' \in SUBSET (Services \X Kinds)
         /\ pc' \in [Services -> RoutinePCs]
         /\ pending' \in [Services -> SUBSET Services]
         /\ attempts' \in [Services -> Nat]
  BY DEF MaestroTypeOK, Finish, Goto, RoutinePCs

LEMMA RoutineType ==
  ASSUME TypeOK, NEW s \in Services, StartRoutine(s) \/ StopRoutine(s)
  PROVE  TypeOK'
<1> BaseTypeOK /\ MaestroTypeOK /\ WatcherTypeOK  BY TypeParts
<1> s \in Listeners  BY DEF Listeners
<1> USE DEF callVars, routineVars, watchVars
<1>1. ASSUME NEW done, NEW kind \in Kinds, NEW ws \in SUBSET Services,
             Check(s, done, kind, ws)
      PROVE  TypeOK'
  <2>1. BaseTypeOK' /\ WatcherTypeOK'
    BY <1>1, BaseTypeStutter DEF Check, WatcherTypeOK
  <2>2. MaestroTypeOK'
    <3>1. CASE Finish(s, {}) \/ Finish(s, {kind})
      BY <1>1, <3>1, FinishType DEF Check, MaestroTypeOK
    <3>2. CASE Goto(s, "deps") /\ pending' = [pending EXCEPT ![s] = ws]
                 /\ UNCHANGED <<errC, attempts>>
      BY <1>1, <3>2 DEF Check, MaestroTypeOK, Goto, RoutinePCs
    <3>3. QED  BY <1>1, <3>1, <3>2 DEF Check
  <2>3. QED  BY <2>1, <2>2 DEF TypeOK, MaestroTypeOK, WatcherTypeOK
<1>2. ASSUME NEW d \in Services, Await(s, d), Started(s, d) \/ Stopped(s, d)
      PROVE  TypeOK'
  <2>1. BaseTypeOK'  BY <1>2, BaseType
  <2>2. MaestroTypeOK' /\ WatcherTypeOK'
    BY <1>2 DEF Await, MaestroTypeOK, WatcherTypeOK, Goto, RoutinePCs
  <2>3. QED  BY <2>1, <2>2 DEF TypeOK, MaestroTypeOK, WatcherTypeOK
<1>3. CASE Receive(s)
  <2>1. BaseTypeOK'  BY <1>3, BaseType DEF Receive
  <2>2. MaestroTypeOK' /\ WatcherTypeOK'
    BY <1>3 DEF Receive, MaestroTypeOK, WatcherTypeOK, Goto, RoutinePCs
  <2>3. QED  BY <2>1, <2>2 DEF TypeOK, MaestroTypeOK, WatcherTypeOK
<1>4. CASE Call(s) \/ CallErr(s)
  <2>1. BaseTypeOK'  BY <1>4, BaseTypeStutter DEF Call, CallErr
  <2>2. MaestroTypeOK' /\ WatcherTypeOK'
    BY <1>4 DEF Call, CallErr, MaestroTypeOK, WatcherTypeOK, Goto, RoutinePCs
  <2>3. QED  BY <2>1, <2>2 DEF TypeOK, MaestroTypeOK, WatcherTypeOK
<1>5. CASE Backoff(s)
  <2>1. BaseTypeOK' /\ WatcherTypeOK'
    BY <1>5, BaseTypeStutter DEF Backoff, WatcherTypeOK
  <2>2. MaestroTypeOK'
    <3>1. CASE Finish(s, {"ContextErr"})
      BY <1>5, <3>1, FinishType DEF Backoff, MaestroTypeOK, Kinds
    <3>2. CASE Retry(s)
      BY <1>5, <3>2 DEF Backoff, Retry, MaestroTypeOK, Goto, RoutinePCs
    <3>3. QED  BY <1>5, <3>1, <3>2 DEF Backoff
  <2>3. QED  BY <2>1, <2>2 DEF TypeOK, MaestroTypeOK, WatcherTypeOK
<1>6. CASE StartCallOk(s) \/ StopCallOk(s)
  <2>1. BaseTypeOK'  BY <1>6, BaseType DEF StartCallOk, StopCallOk
  <2>2. WatcherTypeOK'  BY <1>6 DEF StartCallOk, StopCallOk, WatcherTypeOK
  <2>3. MaestroTypeOK'
    BY <1>6, FinishType DEF StartCallOk, StopCallOk, MaestroTypeOK
  <2>4. QED  BY <2>1, <2>2, <2>3 DEF TypeOK, MaestroTypeOK, WatcherTypeOK
<1>7. ASSUME NEW es \in SUBSET Kinds, FinishPublished(s, es),
             BaseStartErr(s) \/ BaseStopErr(s),
             UNCHANGED <<callVars, awaiting, watchVars>>
      PROVE  TypeOK'
  <2>1. BaseTypeOK'  BY <1>7, BaseType
  <2>2. WatcherTypeOK'  BY <1>7 DEF WatcherTypeOK
  <2>3. MaestroTypeOK'
    <3>1. CASE s \in jammed'
      BY <1>7, <3>1 DEF FinishPublished, MaestroTypeOK, Goto, RoutinePCs
    <3>2. CASE s \notin jammed'
      BY <1>7, <3>2, FinishType DEF FinishPublished, MaestroTypeOK
    <3>3. QED  BY <3>1, <3>2
  <2>4. QED  BY <2>1, <2>2, <2>3 DEF TypeOK, MaestroTypeOK, WatcherTypeOK
<1>8. pending[s] \in SUBSET Services /\ deps[s] \in SUBSET Services
      /\ Parents(s) \in SUBSET Services
  BY DEF MaestroTypeOK, Parents
<1>9. CASE StartCheck(s) \/ StopCheck(s)
  BY <1>1, <1>8, <1>9 DEF StartCheck, StopCheck, Kinds
<1>10. CASE StartAwait(s) \/ StopAwait(s)
  BY <1>2, <1>8, <1>10 DEF StartAwait, StopAwait
<1>11. CASE StartPublish(s) \/ StopPublish(s)
  BY <1>7, <1>11 DEF StartPublish, StopPublish, Kinds
<1>12. QED
  BY <1>3, <1>4, <1>5, <1>6, <1>9, <1>10, <1>11
  DEF StartRoutine, StopRoutine, StartCallErr, StopCallErr

LEMMA WatcherType ==
  ASSUME TypeOK, Targeted, NEW w \in Watchers,
         \/ Watcher(w) \/ CancelWatcher(w)
         \/ \E s \in Services : ServiceReady(w, s) \/ AwaitStopped(w, s)
  PROVE  TypeOK'
<1> USE DEF callVars, routineVars, watchVars, WatcherGoto
<1> BaseTypeOK /\ MaestroTypeOK /\ WatcherTypeOK  BY TypeParts
<1> w \in Listeners  BY DEF Listeners
<1>1. MaestroTypeOK'
  BY DEF Watcher, CancelWatcher, ServiceReady, AwaitStopped, Lookup, Subscribe,
         SkipErr, ReceiveNil, GiveUp, MaestroTypeOK
<1>2. WatcherTypeOK'
  BY ZenonT(30)
  DEF Watcher, CancelWatcher, ServiceReady, AwaitStopped, Lookup, Subscribe,
      SkipErr, ReceiveNil, GiveUp, Leave, WatcherTypeOK, WatcherPCs
<1>3. BaseTypeOK'
  <2>1. CASE CancelWatcher(w) \/ Lookup(w)
             \/ \E s \in Services : ServiceReady(w, s)
    BY <2>1, BaseTypeStutter DEF CancelWatcher, Lookup, ServiceReady
  <2>2. CASE \E s \in Services : AwaitStopped(w, s)
    BY <2>2, BaseType DEF AwaitStopped
  <2>3. CASE Subscribe(w)
    <3>1. wtarget[w] \in Services
      BY <2>3 DEF Subscribe, Targeted
    <3>2. QED  BY <2>3, <3>1, BaseType DEF Subscribe
  <2>4. CASE SkipErr(w)
    BY <2>4 DEF SkipErr, BaseTypeOK, flagVars, backlogVars
  <2>5. CASE ReceiveNil(w) \/ GiveUp(w)
    BY <2>5, AbandonType DEF ReceiveNil, GiveUp
  <2>6. QED  BY <2>1, <2>2, <2>3, <2>4, <2>5 DEF Watcher
<1>4. QED  BY <1>1, <1>2, <1>3 DEF TypeOK, MaestroTypeOK, WatcherTypeOK

(* The registry, and the beginning and the end of the operations *)
LEMMA CallType ==
  ASSUME TypeOK,
         \/ \E s \in Services : \E ds \in MayDepend[s] : AddService(s, ds)
         \/ StartAll \/ StopAll \/ Return \/ Cancel
  PROVE  TypeOK'
<1> USE DEF callVars, routineVars, watchVars
<1> BaseTypeOK /\ MaestroTypeOK /\ WatcherTypeOK  BY TypeParts
<1>1. BaseTypeOK' /\ WatcherTypeOK'
  BY BaseTypeStutter DEF AddService, StartAll, StartAllMissing, StartAllCircular,
     StartAllBoot, StopAll, TakeLock, Return, Cancel, WatcherTypeOK
<1>2. MaestroTypeOK'
  <2>1. CASE \E s \in Services : \E ds \in MayDepend[s] : AddService(s, ds)
    <3>1. PICK s \in Services, ds \in SUBSET Services : AddService(s, ds)
      BY <2>1, MayDependAssumption
    <3>2. QED  BY <3>1 DEF AddService, MaestroTypeOK
  <2>2. CASE StartAllMissing
    <3>1. \A m \in MissingDeps : m[1] \in Services
      BY DEF MissingDeps, Missing, MaestroTypeOK
    <3>2. errC' \in SUBSET (Services \X Kinds)
      BY <2>2, <3>1 DEF StartAllMissing, MaestroTypeOK, Kinds
    <3>3. QED  BY <2>2, <3>2 DEF StartAllMissing, TakeLock, MaestroTypeOK
  <2>3. CASE StartAllCircular
    <3>1. CircularDeps \subseteq Services  BY DEF CircularDeps, Circular, MaestroTypeOK
    <3>2. errC' \in SUBSET (Services \X Kinds)
      BY <2>3, <3>1 DEF StartAllCircular, Kinds
    <3>3. QED  BY <2>3, <3>2 DEF StartAllCircular, TakeLock, MaestroTypeOK
  <2>4. CASE StartAllBoot \/ StopAll
    BY <2>4 DEF StartAllBoot, StopAll, TakeLock, Spawn, MaestroTypeOK, RoutinePCs
  <2>5. CASE Return \/ Cancel
    BY <2>5 DEF Return, Cancel, MaestroTypeOK
  <2>6. QED  BY <2>1, <2>2, <2>3, <2>4, <2>5 DEF StartAll
<1>3. QED  BY <1>1, <1>2 DEF TypeOK, MaestroTypeOK, WatcherTypeOK

LEMMA NextType == TypeOK /\ Targeted /\ [Next]_vars => TypeOK'
<1> SUFFICES ASSUME TypeOK, Targeted, [Next]_vars PROVE TypeOK'  OBVIOUS
<1>1. CASE Next  BY <1>1, RoutineType, WatcherType, CallType DEF Next
<1>2. CASE UNCHANGED vars
  BY <1>2, BaseTypeStutter
  DEF TypeOK, vars, callVars, routineVars, watchVars
<1>3. QED  BY <1>1, <1>2

LEMMA NextTargeted == TypeOK /\ Targeted /\ [Next]_vars => Targeted'
<1> SUFFICES ASSUME TypeOK, Targeted, [Next]_vars PROVE Targeted'  OBVIOUS
<1> USE DEF TypeOK, Targeted
<1>1. CASE UNCHANGED watchVars  BY <1>1 DEF watchVars
<1>2. ASSUME NEW w \in Watchers, Watcher(w) \/ CancelWatcher(w)
      PROVE  Targeted'
  BY <1>2 DEF Watcher, CancelWatcher, Lookup, Subscribe, SkipErr, ReceiveNil,
              GiveUp, Leave, WatcherGoto, watchVars
<1>3. ASSUME NEW w \in Watchers, NEW s \in Services,
             ServiceReady(w, s) \/ AwaitStopped(w, s)
      PROVE  Targeted'
  BY <1>3 DEF ServiceReady, AwaitStopped, WatcherGoto
<1>4. ASSUME NEW s \in Services, StartRoutine(s) \/ StopRoutine(s)
      PROVE  UNCHANGED watchVars
  BY <1>4 DEF StartRoutine, StopRoutine, StartCheck, StopCheck, Check,
     StartAwait, StopAwait, Await, Receive, Call, StartCallOk, StopCallOk,
     StartCallErr, StopCallErr, CallErr, Backoff, StartPublish, StopPublish
<1>5. CASE \/ \E s \in Services : \E ds \in MayDepend[s] : AddService(s, ds)
           \/ StartAll \/ StopAll \/ Return \/ Cancel
  BY <1>1, <1>5 DEF AddService, StartAll, StartAllMissing, StartAllCircular,
     StartAllBoot, StopAll, TakeLock, Return, Cancel
<1>6. CASE UNCHANGED vars  BY <1>1, <1>6 DEF vars
<1>7. QED  BY <1>1, <1>2, <1>3, <1>4, <1>5, <1>6 DEF Next

-----------------------------------------------------------------------------
(* The order of boots and shutdowns *)

(* OrderInductive, without the types *)
OrderParts ==
  /\ Registered /\ FlagsOpposite
  /\ ListedWait /\ AwaitsOne
  /\ BootProgress /\ HaltProgress /\ StartedOnStarted

LEMMA InductiveParts == OrderInductive <=> TypeOK /\ Targeted /\ OrderParts
  BY DEF OrderInductive, OrderParts

(* The same for the goroutines only, whose lists have no watcher *)
LEMMA ListedGoroutine ==
  ASSUME OrderInductive, NEW s \in Services, NEW d \in Services
  PROVE  /\ s \in startedCs[d] =>
              op = "StartAll" /\ pc[s] = "await" /\ awaiting[s] = d
         /\ s \in stoppedCs[d] =>
              op = "StopAll" /\ pc[s] = "await" /\ awaiting[s] = d
  BY ListenersAssumption
  DEF OrderInductive, ListedWait, WaitsForStart, WaitsForStop

LEMMA InitOrder == Init => OrderParts
  BY DEF Init, BaseInit, OrderParts, Registered, FlagsOpposite, ListedWait,
         AwaitsOne, BootProgress, HaltProgress, StartedOnStarted

(* A step of the goroutine of s that leaves the flags and lists alone *)
LEMMA QuietStep ==
  ASSUME OrderInductive, NEW s \in Services, op \in {"StartAll", "StopAll"},
         UNCHANGED <<baseVars, callVars, awaiting>>,
         NEW l \in RoutinePCs, Goto(s, l), l # "await", pc[s] # "await",
         pc[s] # "idle",
         \A x \in Services : x # s => pending'[x] = pending[x],
         l \notin {"idle", "check"} => Underway(s) \/ started[s] = (op = "StopAll"),
         op = "StartAll" /\ l \notin {"idle", "check"} =>
            \A d \in deps[s] \ Ahead(s)' : started[d],
         op = "StopAll" /\ l \notin {"idle", "check"} =>
            \A p \in Parents(s) \ Ahead(s)' : ~started[p]
  PROVE  OrderParts'
<1> USE DEF OrderInductive, TypeOK, BaseTypeOK, Goto, callVars, baseVars,
            flagVars, chanVars, backlogVars
<1>1. Registered'  BY DEF Registered
<1>2. FlagsOpposite'  BY DEF FlagsOpposite
<1>3. ListedWait'
  BY ListedGoroutine DEF ListedWait, WaitsForStart, WaitsForStop
<1>4. AwaitsOne'  BY DEF AwaitsOne
<1>5. BootProgress'
  <2> SUFFICES ASSUME op = "StartAll", NEW x \in Services, Underway(x)'
               PROVE  /\ ~started[x]
                      /\ pc'[x] = "await" /\ closed[x] => started[awaiting[x]]
                      /\ \A d \in deps[x] \ Ahead(x)' : started[d]
    BY DEF BootProgress
  <2>1. CASE x = s  BY <2>1 DEF BootProgress, Underway
  <2>2. CASE x # s  BY <2>2 DEF BootProgress, Underway, Ahead
  <2>3. QED  BY <2>1, <2>2
<1>6. HaltProgress'
  <2> SUFFICES ASSUME op = "StopAll", NEW x \in Services, Underway(x)'
               PROVE  /\ started[x]
                      /\ pc'[x] = "await" /\ closed[x] => ~started[awaiting[x]]
                      /\ \A p \in Parents(x) \ Ahead(x)' : ~started[p]
    BY DEF HaltProgress, Parents
  <2>1. CASE x = s  BY <2>1 DEF HaltProgress, Underway
  <2>2. CASE x # s  BY <2>2 DEF HaltProgress, Underway, Ahead
  <2>3. QED  BY <2>1, <2>2
<1>7. StartedOnStarted'  BY DEF StartedOnStarted
<1>8. QED  BY <1>1, <1>2, <1>3, <1>4, <1>5, <1>6, <1>7 DEF OrderParts

LEMMA QuietSteps ==
  ASSUME OrderInductive, NEW s \in Services,
         \/ op = "StartAll" /\ StartCheck(s)
         \/ op = "StopAll" /\ StopCheck(s)
         \/ op \in {"StartAll", "StopAll"} /\ (Call(s) \/ CallErr(s) \/ Backoff(s))
  PROVE  OrderParts'
<1> USE DEF OrderInductive, TypeOK, BaseTypeOK, callVars, routineVars, RoutinePCs
<1>1. CASE op = "StartAll" /\ StartCheck(s)
  <2>1. CASE Goto(s, "idle")
    BY <1>1, <2>1, QuietStep DEF StartCheck, Check, Finish
  <2>2. CASE Goto(s, "deps") /\ pending' = [pending EXCEPT ![s] = deps[s]]
             /\ ~started[s]
    <3>1. Ahead(s)' = deps[s]  BY <2>2 DEF Ahead, Goto
    <3>2. QED  BY <1>1, <2>2, <3>1, QuietStep DEF StartCheck, Check
  <2>3. QED  BY <1>1, <2>1, <2>2 DEF StartCheck, Check, Finish
<1>2. CASE op = "StopAll" /\ StopCheck(s)
  <2>1. CASE Goto(s, "idle")
    BY <1>2, <2>1, QuietStep DEF StopCheck, Check, Finish
  <2>2. CASE Goto(s, "deps") /\ pending' = [pending EXCEPT ![s] = Parents(s)]
             /\ ~stopped[s]
    <3>1. Ahead(s)' = Parents(s)  BY <2>2 DEF Ahead, Goto, Parents
    <3>2. started[s]  BY <2>2 DEF FlagsOpposite
    <3>3. QED  BY <1>2, <2>2, <3>1, <3>2, QuietStep DEF StopCheck, Check
  <2>3. QED  BY <1>2, <2>1, <2>2 DEF StopCheck, Check, Finish
<1>3. CASE op \in {"StartAll", "StopAll"} /\ Call(s)
  <2>1. Ahead(s) = {}  BY <1>3 DEF Call, Ahead
  <2>2. Ahead(s)' = {}  BY <1>3 DEF Call, Ahead, Goto
  <2>3. QED
    BY <1>3, <2>1, <2>2, QuietStep
    DEF Call, BootProgress, HaltProgress, Underway
<1>4. CASE op \in {"StartAll", "StopAll"} /\ CallErr(s)
  <2>1. Ahead(s) = {}  BY <1>4 DEF CallErr, Ahead
  <2>2. PICK l \in {"backoff", "callFailed"} : Goto(s, l)
    BY <1>4 DEF CallErr
  <2>3. deps[s] \ Ahead(s)' \subseteq deps[s] /\ Parents(s) \ Ahead(s)' \subseteq Parents(s)
    OBVIOUS
  <2>4. QED
    BY <1>4, <2>1, <2>2, <2>3, QuietStep
    DEF CallErr, BootProgress, HaltProgress, Underway
<1>5. CASE op \in {"StartAll", "StopAll"} /\ Backoff(s)
  <2>1. Ahead(s) = {}  BY <1>5 DEF Backoff, Ahead
  <2>2. CASE Finish(s, {"ContextErr"})
    BY <1>5, <2>2, QuietStep DEF Backoff, Finish, Underway
  <2>3. CASE Retry(s)
    <3>1. Ahead(s)' = {}  BY <2>3 DEF Retry, Ahead, Goto
    <3>2. QED
      BY <1>5, <2>1, <2>3, <3>1, QuietStep
      DEF Backoff, Retry, BootProgress, HaltProgress, Underway
  <2>4. QED  BY <1>5, <2>2, <2>3 DEF Backoff
<1>6. QED  BY <1>1, <1>2, <1>3, <1>4, <1>5

(* The goroutine of s gets a channel of d. *)
LEMMA AwaitStep ==
  ASSUME OrderInductive, NEW s \in Services, NEW d \in Services, Await(s, d),
         \/ op = "StartAll" /\ Started(s, d)
         \/ op = "StopAll" /\ Stopped(s, d)
  PROVE  OrderParts'
<1> USE DEF OrderInductive, TypeOK, BaseTypeOK, Await, Goto, callVars, flagVars,
            Started, Stopped
<1> s \in Listeners  BY DEF Listeners
<1>1. Registered'  BY DEF Registered
<1>2. FlagsOpposite'  BY DEF FlagsOpposite
<1>3. ListedWait'
  <2> SUFFICES ASSUME NEW x \in Services, NEW y \in Services
               PROVE  /\ x \in startedCs'[y] => WaitsForStart(x, y)'
                      /\ x \in stoppedCs'[y] => WaitsForStop(x, y)'
    BY DEF ListedWait
  <2> QED  BY ListedGoroutine DEF WaitsForStart, WaitsForStop
<1>4. AwaitsOne'  BY DEF AwaitsOne
<1>5. BootProgress'
  <2> SUFFICES ASSUME op = "StartAll", NEW x \in Services, Underway(x)'
               PROVE  /\ ~started[x]
                      /\ pc'[x] = "await" /\ closed'[x] => started[awaiting'[x]]
                      /\ \A e \in deps[x] \ Ahead(x)' : started[e]
    BY DEF BootProgress
  <2>1. CASE x = s
    <3>1. Ahead(s)' = Ahead(s)  BY DEF Ahead
    <3>2. QED  BY <2>1, <3>1, SMTT(30) DEF BootProgress, Underway
  <2>2. CASE x # s  BY <2>2 DEF BootProgress, Underway, Ahead, Listeners
  <2>3. QED  BY <2>1, <2>2
<1>6. HaltProgress'
  <2> SUFFICES ASSUME op = "StopAll", NEW x \in Services, Underway(x)'
               PROVE  /\ started[x]
                      /\ pc'[x] = "await" /\ closed'[x] => ~started[awaiting'[x]]
                      /\ \A e \in Parents(x) \ Ahead(x)' : ~started[e]
    BY DEF HaltProgress, Parents
  <2>1. CASE x = s
    <3>1. Ahead(s)' = Ahead(s)  BY DEF Ahead
    <3>2. QED
      BY <2>1, <3>1, SMTT(30) DEF HaltProgress, Underway, FlagsOpposite
  <2>2. CASE x # s  BY <2>2 DEF HaltProgress, Underway, Ahead, Listeners
  <2>3. QED  BY <2>1, <2>2
<1>7. StartedOnStarted'  BY DEF StartedOnStarted
<1>8. QED  BY <1>1, <1>2, <1>3, <1>4, <1>5, <1>6, <1>7 DEF OrderParts

(* The goroutine of s has an answer. *)
LEMMA ReceiveStep ==
  ASSUME OrderInductive, NEW s \in Services, Receive(s),
         op \in {"StartAll", "StopAll"}
  PROVE  OrderParts'
<1> USE DEF OrderInductive, TypeOK, BaseTypeOK, Receive, Goto, callVars,
            flagVars, Abandon
<1> s \in Listeners  BY DEF Listeners
<1>1. Registered'  BY DEF Registered
<1>2. FlagsOpposite'  BY DEF FlagsOpposite
<1>3. ListedWait'
  <2> SUFFICES ASSUME NEW x \in Services, NEW y \in Services
               PROVE  /\ x \in startedCs'[y] => WaitsForStart(x, y)'
                      /\ x \in stoppedCs'[y] => WaitsForStop(x, y)'
    BY DEF ListedWait
  <2> QED  BY ListedGoroutine DEF WaitsForStart, WaitsForStop
<1>4. AwaitsOne'  BY DEF AwaitsOne
<1>5. BootProgress'
  <2> SUFFICES ASSUME op = "StartAll", NEW x \in Services, Underway(x)'
               PROVE  /\ ~started[x]
                      /\ pc'[x] = "await" /\ closed'[x] => started[awaiting'[x]]
                      /\ \A e \in deps[x] \ Ahead(x)' : started[e]
    BY DEF BootProgress
  <2>1. CASE x = s
    <3>1. Ahead(s) = pending[s] \cup {awaiting[s]}  BY DEF Ahead
    <3>2. pc'[s] = "deps" => Ahead(s)' = pending[s] /\ closed[s]  BY DEF Ahead
    <3>3. pc'[s] = "depFailed" => Ahead(s)' = Services  BY DEF Ahead
    <3>4. QED  BY <2>1, <3>1, <3>2, <3>3, SMTT(30) DEF BootProgress, Underway
  <2>2. CASE x # s  BY <2>2 DEF BootProgress, Underway, Ahead, Listeners
  <2>3. QED  BY <2>1, <2>2
<1>6. HaltProgress'
  <2> SUFFICES ASSUME op = "StopAll", NEW x \in Services, Underway(x)'
               PROVE  /\ started[x]
                      /\ pc'[x] = "await" /\ closed'[x] => ~started[awaiting'[x]]
                      /\ \A e \in Parents(x) \ Ahead(x)' : ~started[e]
    BY DEF HaltProgress, Parents
  <2>1. CASE x = s
    <3>1. Ahead(s) = pending[s] \cup {awaiting[s]}  BY DEF Ahead
    <3>2. pc'[s] = "deps" => Ahead(s)' = pending[s] /\ closed[s]  BY DEF Ahead
    <3>3. pc'[s] = "depFailed" => Ahead(s)' = Services  BY DEF Ahead
    <3>4. Parents(s) \subseteq Services  BY DEF Parents
    <3>5. QED  BY <2>1, <3>1, <3>2, <3>3, <3>4, SMTT(30) DEF HaltProgress, Underway
  <2>2. CASE x # s  BY <2>2 DEF HaltProgress, Underway, Ahead, Listeners
  <2>3. QED  BY <2>1, <2>2
<1>7. StartedOnStarted'  BY DEF StartedOnStarted
<1>8. QED  BY <1>1, <1>2, <1>3, <1>4, <1>5, <1>6, <1>7 DEF OrderParts

(* s is started: those that wait for it are woken. *)
LEMMA StartOkStep ==
  ASSUME OrderInductive, NEW s \in Services, op = "StartAll", StartCallOk(s)
  PROVE  OrderParts'
<1> USE DEF OrderInductive, TypeOK, BaseTypeOK, StartCallOk, BaseStartNil, Close,
            Finish, Goto, callVars
<1>1. Registered'  BY DEF Registered
<1>2. FlagsOpposite'  BY DEF FlagsOpposite
<1>3. ListedWait'
  <2> SUFFICES ASSUME NEW x \in Services, NEW y \in Services
               PROVE  /\ x \in startedCs'[y] => WaitsForStart(x, y)'
                      /\ x \in stoppedCs'[y] => WaitsForStop(x, y)'
    BY DEF ListedWait
  <2> QED  BY ListedGoroutine DEF WaitsForStart, WaitsForStop
<1>4. AwaitsOne'  BY DEF AwaitsOne
<1>5. \A d \in deps[s] : started[d]
  <2>1. Ahead(s) = {}  BY DEF Ahead
  <2>2. QED  BY <2>1 DEF BootProgress, Underway
<1>6. BootProgress'
  <2> SUFFICES ASSUME NEW x \in Services, Underway(x)'
               PROVE  /\ ~started'[x]
                      /\ pc'[x] = "await" /\ closed'[x] => started'[awaiting[x]]
                      /\ \A e \in deps[x] \ Ahead(x)' : started'[e]
    BY DEF BootProgress
  <2>1. x # s /\ Underway(x)  BY DEF Underway
  <2>2. Ahead(x)' = Ahead(x)  BY <2>1 DEF Ahead
  <2>3. pc[x] = "await" /\ closed'[x] => started'[awaiting[x]]
    <3> SUFFICES ASSUME pc[x] = "await", closed'[x] PROVE started'[awaiting[x]]
      OBVIOUS
    <3>1. x \in startedCs[s] \/ closed[x]  BY DEF Listeners
    <3>2. CASE x \in startedCs[s]  BY <3>2, ListedGoroutine
    <3>3. CASE closed[x]  BY <2>1, <3>3 DEF BootProgress, AwaitsOne
    <3>4. QED  BY <3>1, <3>2, <3>3
  <2>4. QED  BY <2>1, <2>2, <2>3 DEF BootProgress
<1>7. HaltProgress'  BY DEF HaltProgress
<1>8. StartedOnStarted'  BY <1>5 DEF StartedOnStarted
<1>9. QED  BY <1>1, <1>2, <1>3, <1>4, <1>6, <1>7, <1>8 DEF OrderParts

(* s is stopped: those that wait for it are woken. *)
LEMMA StopOkStep ==
  ASSUME OrderInductive, NEW s \in Services, op = "StopAll", StopCallOk(s)
  PROVE  OrderParts'
<1> USE DEF OrderInductive, TypeOK, BaseTypeOK, StopCallOk, BaseStopNil, Close,
            Finish, Goto, callVars
<1>1. Registered'  BY DEF Registered
<1>2. FlagsOpposite'  BY DEF FlagsOpposite
<1>3. ListedWait'
  <2> SUFFICES ASSUME NEW x \in Services, NEW y \in Services
               PROVE  /\ x \in startedCs'[y] => WaitsForStart(x, y)'
                      /\ x \in stoppedCs'[y] => WaitsForStop(x, y)'
    BY DEF ListedWait
  <2> QED  BY ListedGoroutine DEF WaitsForStart, WaitsForStop
<1>4. AwaitsOne'  BY DEF AwaitsOne
<1>5. \A p \in Parents(s) : ~started[p]
  <2>1. Ahead(s) = {}  BY DEF Ahead
  <2>2. QED  BY <2>1 DEF HaltProgress, Underway
<1>6. HaltProgress'
  <2> SUFFICES ASSUME NEW x \in Services, Underway(x)'
               PROVE  /\ started'[x]
                      /\ pc'[x] = "await" /\ closed'[x] => ~started'[awaiting[x]]
                      /\ \A e \in Parents(x) \ Ahead(x)' : ~started'[e]
    BY DEF HaltProgress, Parents
  <2>1. x # s /\ Underway(x)  BY DEF Underway
  <2>2. Ahead(x)' = Ahead(x)  BY <2>1 DEF Ahead
  <2>3. pc[x] = "await" /\ closed'[x] => ~started'[awaiting[x]]
    <3> SUFFICES ASSUME pc[x] = "await", closed'[x] PROVE ~started'[awaiting[x]]
      OBVIOUS
    <3>1. x \in stoppedCs[s] \/ closed[x]  BY DEF Listeners
    <3>2. CASE x \in stoppedCs[s]  BY <3>2, ListedGoroutine
    <3>3. CASE closed[x]  BY <2>1, <3>3 DEF HaltProgress, AwaitsOne
    <3>4. QED  BY <3>1, <3>2, <3>3
  <2>4. Parents(x) \subseteq Services  BY DEF Parents
  <2>5. QED  BY <2>1, <2>2, <2>3, <2>4 DEF HaltProgress
<1>7. BootProgress'  BY DEF BootProgress
<1>8. StartedOnStarted'
  BY <1>5 DEF StartedOnStarted, Parents, Registered
<1>9. QED  BY <1>1, <1>2, <1>3, <1>4, <1>6, <1>7, <1>8 DEF OrderParts

(* A failure is published: the flags already say so. *)
LEMMA PublishStep ==
  ASSUME OrderInductive, NEW s \in Services,
         \/ op = "StartAll" /\ StartPublish(s)
         \/ op = "StopAll" /\ StopPublish(s)
  PROVE  OrderParts'
<1> USE DEF OrderInductive, TypeOK, BaseTypeOK, callVars
<1>1. UNCHANGED <<startedCs, stoppedCs, closed, callVars, awaiting>>
  BY DEF StartPublish, StopPublish, BaseStartErr, BaseStopErr
<1>2. Underway(s)  BY DEF StartPublish, StopPublish, Underway
<1>3. UNCHANGED <<started, stopped>>
  <2>1. CASE op = "StartAll"
    <3>1. started[s] = FALSE /\ stopped[s] = TRUE
      BY <1>2, <2>1 DEF BootProgress, FlagsOpposite
    <3>2. /\ started' = [started EXCEPT ![s] = FALSE]
          /\ stopped' = [stopped EXCEPT ![s] = TRUE]
      BY <2>1 DEF StartPublish, BaseStartErr
    <3>3. QED  BY <3>1, <3>2
  <2>2. CASE op = "StopAll"
    <3>1. stopped[s] = FALSE
      BY <1>2, <2>2 DEF HaltProgress, FlagsOpposite
    <3>2. started' = started /\ stopped' = [stopped EXCEPT ![s] = FALSE]
      BY <2>2 DEF StopPublish, BaseStopErr
    <3>3. QED  BY <3>1, <3>2
  <2>3. QED  BY <2>1, <2>2
<1>4. PICK l \in {"idle", "stuck"} : Goto(s, l)
  BY DEF StartPublish, StopPublish, FinishPublished, Finish
<1>5. \A x \in Services : x # s => pending'[x] = pending[x]
  BY DEF StartPublish, StopPublish, FinishPublished, Finish
<1>6. pc[s] \in {"depFailed", "callFailed"}  BY DEF StartPublish, StopPublish
<1>7. l = "stuck" => Ahead(s)' = Services  BY <1>4 DEF Ahead, Goto
<1>8. Registered'  BY <1>1, <1>3, <1>4, <1>6 DEF Registered, Goto
<1>9. FlagsOpposite'  BY <1>3 DEF FlagsOpposite
<1>10. ListedWait'
  BY <1>1, <1>4, <1>6, ListedGoroutine DEF ListedWait, WaitsForStart, WaitsForStop, Goto
<1>11. AwaitsOne'  BY <1>1, <1>4 DEF AwaitsOne, Goto
<1>12. BootProgress'
  <2> SUFFICES ASSUME op = "StartAll", NEW x \in Services, Underway(x)'
               PROVE  /\ ~started[x]
                      /\ pc'[x] = "await" /\ closed[x] => started[awaiting[x]]
                      /\ \A e \in deps[x] \ Ahead(x)' : started[e]
    BY <1>1, <1>3 DEF BootProgress
  <2>1. CASE x = s
    BY <1>2, <1>4, <1>7, <2>1 DEF BootProgress, Underway, Goto
  <2>2. CASE x # s
    BY <1>4, <1>5, <1>1, <2>2 DEF BootProgress, Underway, Ahead, Goto
  <2>3. QED  BY <2>1, <2>2
<1>13. HaltProgress'
  <2> SUFFICES ASSUME op = "StopAll", NEW x \in Services, Underway(x)'
               PROVE  /\ started[x]
                      /\ pc'[x] = "await" /\ closed[x] => ~started[awaiting[x]]
                      /\ \A e \in Parents(x) \ Ahead(x)' : ~started[e]
    BY <1>1, <1>3 DEF HaltProgress, Parents
  <2> Parents(x) \subseteq Services  BY DEF Parents
  <2>1. CASE x = s
    BY <1>2, <1>4, <1>7, <2>1 DEF HaltProgress, Underway, Goto
  <2>2. CASE x # s
    BY <1>4, <1>5, <1>1, <2>2 DEF HaltProgress, Underway, Ahead, Goto
  <2>3. QED  BY <2>1, <2>2
<1>14. StartedOnStarted'  BY <1>1, <1>3 DEF StartedOnStarted
<1>15. QED  BY <1>8, <1>9, <1>10, <1>11, <1>12, <1>13, <1>14 DEF OrderParts

(* What the watchers do to the channels is not seen by the goroutines. *)
LEMMA WatcherStep ==
  ASSUME OrderInductive, NEW w \in Watchers,
         \/ Watcher(w) \/ CancelWatcher(w)
         \/ \E s \in Services : ServiceReady(w, s) \/ AwaitStopped(w, s)
  PROVE  OrderParts'
<1> USE DEF OrderInductive, TypeOK, BaseTypeOK, callVars, routineVars, flagVars
<1> w \in Listeners /\ w \notin Services /\ Services \subseteq Listeners
  BY ListenersAssumption DEF Listeners
<1>1. UNCHANGED <<flagVars, callVars, pc, routineVars>>
  BY DEF Watcher, CancelWatcher, ServiceReady, AwaitStopped, Lookup, Subscribe,
     SkipErr, ReceiveNil, GiveUp, Abandon, Started, Stopped, baseVars
<1>2. wpc[w] = "subscribe" => wtarget[w] \in Services  BY DEF Targeted
<1>3. \A x \in Services : closed'[x] = closed[x]
  BY DEF Watcher, CancelWatcher, ServiceReady, AwaitStopped, Lookup, Subscribe,
     SkipErr, ReceiveNil, GiveUp, Abandon, Started, Stopped, baseVars, chanVars
<1>4. \A x, y \in Services :
        /\ x \in startedCs'[y] => x \in startedCs[y]
        /\ x \in stoppedCs'[y] => x \in stoppedCs[y]
  BY <1>2, SMTT(30)
  DEF Watcher, CancelWatcher, ServiceReady, AwaitStopped, Lookup, Subscribe,
     SkipErr, ReceiveNil, GiveUp, Abandon, Started, Stopped, baseVars, chanVars
<1>5. \A x \in Services : Ahead(x)' = Ahead(x) /\ Underway(x)' = Underway(x)
                          /\ Parents(x)' = Parents(x)
  BY <1>1 DEF Ahead, Underway, Parents
<1>6. ListedWait'
  <2> SUFFICES ASSUME NEW x \in Services, NEW y \in Services
               PROVE  /\ x \in startedCs'[y] => WaitsForStart(x, y)'
                      /\ x \in stoppedCs'[y] => WaitsForStop(x, y)'
    BY DEF ListedWait
  <2>1. /\ x \in startedCs[y] =>
             op = "StartAll" /\ pc[x] = "await" /\ awaiting[x] = y
        /\ x \in stoppedCs[y] =>
             op = "StopAll" /\ pc[x] = "await" /\ awaiting[x] = y
    BY ListedGoroutine
  <2>2. UNCHANGED <<op, pc, awaiting>>  BY <1>1
  <2>3. QED  BY <1>4, <2>1, <2>2 DEF WaitsForStart, WaitsForStop
<1>7. BootProgress' /\ HaltProgress'
  BY <1>1, <1>3, <1>5 DEF BootProgress, HaltProgress
<1>8. Registered' /\ FlagsOpposite' /\ AwaitsOne' /\ StartedOnStarted'
  BY <1>1 DEF Registered, FlagsOpposite, AwaitsOne, StartedOnStarted
<1>9. QED  BY <1>6, <1>7, <1>8 DEF OrderParts

(* Between two operations there is no goroutine. *)
LEMMA CallStep ==
  ASSUME OrderInductive,
         \/ \E s \in Services : \E ds \in MayDepend[s] : AddService(s, ds)
         \/ StartAll \/ StopAll \/ Return \/ Cancel
  PROVE  OrderParts'
<1> USE DEF OrderInductive, TypeOK, BaseTypeOK, baseVars, flagVars, chanVars,
            routineVars
<1>1. CASE Cancel
  <2>1. UNCHANGED <<baseVars, services, deps, op, pc, routineVars>>
    BY <1>1 DEF Cancel
  <2>2. \A x \in Services : Ahead(x)' = Ahead(x) /\ Underway(x)' = Underway(x)
                            /\ Parents(x)' = Parents(x)
    BY <2>1 DEF Ahead, Underway, Parents
  <2>3. ListedWait'
    BY <2>1, ListedGoroutine DEF ListedWait, WaitsForStart, WaitsForStop
  <2>4. QED
    BY <2>1, <2>2, <2>3 DEF OrderParts, Registered, FlagsOpposite, AwaitsOne,
       BootProgress, HaltProgress, StartedOnStarted
<1>2. CASE ~Cancel
  <2>1. \A x \in Services : pc[x] = "idle"
    BY <1>2 DEF Registered, AddService, StartAll, StartAllMissing,
       StartAllCircular, StartAllBoot, StopAll, TakeLock, Return
  <2>2. \A x, y \in Services : x \notin startedCs[y] /\ x \notin stoppedCs[y]
    BY <2>1, ListedGoroutine
  <2>3. UNCHANGED baseVars
    BY <1>2 DEF AddService, StartAll, StartAllMissing, StartAllCircular,
       StartAllBoot, StopAll, TakeLock, Return
  <2>4. \A x \in Services : ~Underway(x)' /\ pc'[x] \in {"idle", "check"}
    BY <1>2, <2>1 DEF AddService, StartAll, StartAllMissing, StartAllCircular,
       StartAllBoot, StopAll, TakeLock, Return, Underway, Spawn
  <2>5. \A x \in Services : pc'[x] # "idle" =>
          x \in services' /\ op' \in {"StartAll", "StopAll"}
    BY <1>2, <2>1 DEF AddService, StartAll, StartAllMissing, StartAllCircular,
       StartAllBoot, StopAll, TakeLock, Return, Spawn
  <2>6. services \subseteq services' /\ \A x \in services : deps'[x] = deps[x]
    BY <1>2 DEF AddService, StartAll, StartAllMissing, StartAllCircular,
       StartAllBoot, StopAll, TakeLock, Return
  <2>7. Registered'  BY <2>3, <2>5, <2>6 DEF Registered
  <2>8. FlagsOpposite'  BY <2>3 DEF FlagsOpposite
  <2>9. ListedWait'  BY <2>2, <2>3 DEF ListedWait
  <2>10. AwaitsOne' /\ BootProgress' /\ HaltProgress'
    BY <2>4 DEF AwaitsOne, BootProgress, HaltProgress
  <2>11. StartedOnStarted'
    BY <2>3, <2>6 DEF StartedOnStarted, Registered
  <2>12. QED  BY <2>7, <2>8, <2>9, <2>10, <2>11 DEF OrderParts
<1>3. QED  BY <1>1, <1>2

LEMMA NextOrder == OrderInductive /\ [Next]_vars => OrderParts'
<1> SUFFICES ASSUME OrderInductive, [Next]_vars PROVE OrderParts'  OBVIOUS
<1>1. ASSUME NEW s \in Services, StartRoutine(s) \/ StopRoutine(s)
      PROVE  OrderParts'
  <2>1. \A d \in pending[s] : d \in Services
    BY DEF OrderInductive, TypeOK
  <2>2. QED
    BY <1>1, <2>1, QuietSteps, AwaitStep, ReceiveStep, StartOkStep, StopOkStep,
       PublishStep
    DEF StartRoutine, StopRoutine, StartAwait, StopAwait, StartCallErr, StopCallErr
<1>2. CASE UNCHANGED vars
  <2>1. UNCHANGED <<baseVars, services, deps, op, pc, routineVars>>
    BY <1>2 DEF vars, callVars
  <2> USE DEF baseVars, flagVars, chanVars, routineVars
  <2>2. \A x \in Services : Ahead(x)' = Ahead(x) /\ Underway(x)' = Underway(x)
                            /\ Parents(x)' = Parents(x)
    BY <2>1 DEF Ahead, Underway, Parents
  <2>3. ListedWait'
    BY <2>1, ListedGoroutine DEF ListedWait, WaitsForStart, WaitsForStop
  <2>4. QED
    BY <2>1, <2>2, <2>3 DEF OrderInductive, OrderParts, Registered, FlagsOpposite,
       AwaitsOne, BootProgress, HaltProgress, StartedOnStarted
<1>3. QED  BY <1>1, <1>2, WatcherStep, CallStep DEF Next

(* OrderInductive is inductive (the whole of Maestro.tla). *)
THEOREM OrderHolds == Spec => []OrderInductive
<1>1. Init => OrderInductive
  BY InitType, InitOrder, InductiveParts DEF Init, Targeted
<1>2. OrderInductive /\ [Next]_vars => OrderInductive'
  BY NextType, NextTargeted, NextOrder DEF OrderInductive, OrderParts
<1>3. QED  BY <1>1, <1>2, PTL DEF Spec

(* Every variable keeps its type.  In particular the errors in an abandoned*)
(* channel never exceed its capacity (ServiceBase.start and stop).         *)
THEOREM TypeCorrect == Spec => []TypeOK
<1>1. OrderInductive => TypeOK  BY DEF OrderInductive
<1>2. QED  BY <1>1, OrderHolds, PTL

(* started and stopped never agree, whatever sequence of start(err),       *)
(* start(nil), stop(err) and stop(nil) a service goes through.             *)
THEOREM FlagsStayOpposite == Spec => []FlagsOpposite
<1>1. OrderInductive => FlagsOpposite  BY DEF OrderInductive
<1>2. QED  BY <1>1, OrderHolds, PTL

LEMMA PhaseOf ==
  ASSUME OrderInductive, NEW s \in Services
  PROVE  /\ phase[s] = "booting" <=> InBoot(s)
         /\ phase[s] = "halting" <=> InHalt(s)
         /\ phase[s] = "up" <=> ~InHalt(s) /\ started[s]
         /\ phase[s] = "down" <=> ~InBoot(s) /\ ~started[s]
         /\ InBoot(s) => ~started[s] /\ ~InHalt(s)
         /\ InHalt(s) => started[s]
<1>1. InBoot(s) => ~started[s] /\ ~InHalt(s)
  BY DEF OrderInductive, BootProgress, Underway, InBoot, InHalt
<1>2. InHalt(s) => started[s]
  BY DEF OrderInductive, HaltProgress, Underway, InHalt
<1>3. QED  BY <1>1, <1>2 DEF phase

LEMMA OrderImpliesUp == OrderInductive => DependenciesUp
<1> SUFFICES ASSUME OrderInductive, NEW s \in Services, phase[s] # "down",
                    NEW d \in deps[s]
             PROVE  phase[d] = "up"
  BY DEF DependenciesUp, Order!DependenciesUp
<1>1. d \in Services  BY DEF OrderInductive, TypeOK
<1>2. started[d]
  <2>1. CASE started[s]  BY <2>1 DEF OrderInductive, StartedOnStarted
  <2>2. CASE InBoot(s)
    BY <2>2 DEF OrderInductive, BootProgress, InBoot, Underway, Ahead
  <2>3. QED  BY <2>1, <2>2, PhaseOf
<1>3. ~InHalt(d)
  <2> SUFFICES ASSUME InHalt(d) PROVE FALSE  OBVIOUS
  <2>1. started[s]  BY PhaseOf DEF InBoot, InHalt
  <2>2. s \in Parents(d)  BY <2>1 DEF OrderInductive, Registered, Parents
  <2>3. QED
    BY <1>1, <2>1, <2>2
    DEF OrderInductive, HaltProgress, InHalt, Underway, Ahead
<1>4. QED  BY <1>1, <1>2, <1>3, PhaseOf

(* As long as a service is started, boots or is shut down, all of its      *)
(* dependencies are started and none is being shut down (StartAll and      *)
(* StopAll), for any graph of dependencies, failures and cancellations.    *)
THEOREM DependenciesStayUp == Spec => []DependenciesUp
  BY OrderHolds, OrderImpliesUp, PTL

-----------------------------------------------------------------------------
(* Maestro implements DependencyOrder *)

LEMMA InitRefines == Init => Order!OrderInit
  BY DEF Init, BaseInit, Order!OrderInit, phase, InBoot, InHalt

(* A step of one goroutine moves the phase of one service. *)
LEMMA OnePhase ==
  ASSUME TypeOK, NEW s \in Services, StartRoutine(s) \/ StopRoutine(s)
  PROVE  /\ phase' = [phase EXCEPT ![s] = phase'[s]]
         /\ UNCHANGED <<services, deps>>
<1>1. UNCHANGED callVars
  BY DEF StartRoutine, StopRoutine, StartCheck, StopCheck, Check, StartAwait,
     StopAwait, Await, Receive, Call, StartCallOk, StopCallOk, StartCallErr,
     StopCallErr, CallErr, Backoff, StartPublish, StopPublish
<1>2. \A x \in Services : x # s => pc'[x] = pc[x]
  BY DEF TypeOK, StartRoutine, StopRoutine, StartCheck, StopCheck, Check,
     StartAwait, StopAwait, Await, Receive, Call, StartCallOk, StopCallOk,
     StartCallErr, StopCallErr, CallErr, Backoff, Retry, StartPublish,
     StopPublish, FinishPublished, Finish, Goto
<1>3. \A x \in Services : x # s => started'[x] = started[x]
  BY DEF TypeOK, BaseTypeOK, StartRoutine, StopRoutine, StartCheck, StopCheck,
     Check, StartAwait, StopAwait, Await, Started, Stopped, Receive, Abandon,
     Call, StartCallOk, StopCallOk, StartCallErr, StopCallErr, CallErr, Backoff,
     StartPublish, StopPublish, BaseStartErr, BaseStartNil, BaseStopErr,
     BaseStopNil, baseVars, flagVars
<1>4. \A x \in Services : x # s => phase'[x] = phase[x]
  BY <1>1, <1>2, <1>3 DEF phase, InBoot, InHalt, callVars
<1>5. phase' = [phase EXCEPT ![s] = phase'[s]]  BY <1>4 DEF phase
<1>6. QED  BY <1>1, <1>5 DEF callVars

LEMMA RoutineRefines ==
  ASSUME OrderInductive, NEW s \in Services, StartRoutine(s) \/ StopRoutine(s)
  PROVE  Order!OrderNext \/ UNCHANGED <<services, deps, phase>>
<1> USE DEF OrderInductive, TypeOK, BaseTypeOK
<1> DEFINE Move(p, q) == phase[s] = p /\ phase'[s] = q
           Stay == phase'[s] = phase[s]
<1>1. Stay => UNCHANGED <<services, deps, phase>>
  <2>1. [phase EXCEPT ![s] = phase[s]] = phase  BY DEF phase
  <2>2. QED  BY <2>1, OnePhase
<1>2. Move("booting", "up") \/ Move("booting", "down") => Order!EndBoot(s)
  BY OnePhase DEF Order!EndBoot, Order!Enter
<1>3. Move("halting", "up") \/ Move("halting", "down") => Order!EndHalt(s)
  BY OnePhase DEF Order!EndHalt, Order!Enter
<1>4. CASE op = "StartAll" /\ StartRoutine(s)
  <2>1. op' = op
    BY <1>4 DEF StartRoutine, StartCheck, Check, StartAwait, Await, Receive, Call,
       StartCallOk, StartCallErr, CallErr, Backoff, StartPublish, callVars
  <2>2. CASE StartCheck(s) \/ StartAwait(s) \/ Receive(s)
    <3>1. /\ pc[s] \notin {"call", "backoff"} /\ pc'[s] \notin {"call", "backoff"}
          /\ started' = started
      BY <2>2 DEF StartCheck, Check, StartAwait, Await, Started, Receive, Abandon,
         Finish, Goto, baseVars, flagVars
    <3>2. Stay  BY <1>4, <2>1, <3>1 DEF phase, InBoot, InHalt
    <3>3. QED  BY <1>1, <3>2
  <2>3. CASE Call(s)
    <3>1. phase[s] = "down"
      BY <1>4, <2>3 DEF Call, BootProgress, Underway, phase, InBoot, InHalt
    <3>2. phase'[s] = "booting"
      BY <1>4, <2>1, <2>3 DEF Call, Goto, phase, InBoot, InHalt
    <3>3. \A d \in deps[s] : phase[d] = "up"
      <4>1. \A d \in deps[s] : d \in Services /\ started[d]
        BY <1>4, <2>3 DEF Call, BootProgress, Underway, Ahead
      <4>2. \A d \in deps[s] : ~InBoot(d) /\ ~InHalt(d)
        BY <1>4, <4>1, PhaseOf DEF InHalt
      <4>3. QED  BY <4>1, <4>2 DEF phase
    <3>4. s \in services  BY <2>3 DEF Call, Registered
    <3>5. Order!BeginBoot(s)
      BY <3>1, <3>2, <3>3, <3>4, OnePhase DEF Order!BeginBoot, Order!Enter
    <3>6. QED  BY <3>5 DEF Order!OrderNext
  <2>4. CASE StartCallOk(s)
    <3>1. Move("booting", "up")
      BY <1>4, <2>1, <2>4
      DEF StartCallOk, BaseStartNil, Finish, Goto, phase, InBoot, InHalt
    <3>2. QED  BY <1>2, <3>1 DEF Order!OrderNext
  <2>5. CASE CallErr(s) \/ Backoff(s)
    <3>1. pc[s] \in {"call", "backoff"} /\ started' = started /\ ~started[s]
      BY <1>4, <2>5 DEF CallErr, Backoff, baseVars, flagVars, BootProgress, Underway
    <3>2. Move("booting", "booting") \/ Move("booting", "down")
      BY <1>4, <2>1, <3>1 DEF phase, InBoot, InHalt
    <3>3. QED  BY <1>1, <1>2, <3>2 DEF Order!OrderNext
  <2>6. CASE StartPublish(s)
    <3>1. pc[s] \notin {"call", "backoff"} /\ pc'[s] \notin {"call", "backoff"}
      BY <2>6 DEF StartPublish, FinishPublished, Finish, Goto
    <3>2. ~started[s] /\ ~started'[s]
      BY <1>4, <2>6 DEF StartPublish, BaseStartErr, BootProgress, Underway
    <3>3. Stay  BY <1>4, <2>1, <3>1, <3>2 DEF phase, InBoot, InHalt
    <3>4. QED  BY <1>1, <3>3
  <2>7. QED
    BY <1>4, <2>2, <2>3, <2>4, <2>5, <2>6 DEF StartRoutine, StartCallErr
<1>5. CASE op = "StopAll" /\ StopRoutine(s)
  <2>1. op' = op
    BY <1>5 DEF StopRoutine, StopCheck, Check, StopAwait, Await, Receive, Call,
       StopCallOk, StopCallErr, CallErr, Backoff, StopPublish, callVars
  <2>2. CASE StopCheck(s) \/ StopAwait(s) \/ Receive(s)
    <3>1. /\ pc[s] \notin {"call", "backoff"} /\ pc'[s] \notin {"call", "backoff"}
          /\ started' = started
      BY <2>2 DEF StopCheck, Check, StopAwait, Await, Stopped, Receive, Abandon,
         Finish, Goto, baseVars, flagVars
    <3>2. Stay  BY <1>5, <2>1, <3>1 DEF phase, InBoot, InHalt
    <3>3. QED  BY <1>1, <3>2
  <2>3. CASE Call(s)
    <3>1. phase[s] = "up"
      BY <1>5, <2>3 DEF Call, HaltProgress, Underway, phase, InBoot, InHalt
    <3>2. phase'[s] = "halting"
      BY <1>5, <2>1, <2>3 DEF Call, Goto, phase, InBoot, InHalt
    <3>3. \A p \in services : s \in deps[p] => phase[p] = "down"
      <4> SUFFICES ASSUME NEW p \in services, s \in deps[p] PROVE phase[p] = "down"
        OBVIOUS
      <4>1. ~started[p]
        BY <1>5, <2>3 DEF Call, HaltProgress, Underway, Ahead, Parents
      <4>2. p \in Services /\ ~InBoot(p)  BY <1>5 DEF InBoot
      <4>3. QED  BY <4>1, <4>2, PhaseOf
    <3>4. Order!BeginHalt(s)
      BY <3>1, <3>2, <3>3, OnePhase DEF Order!BeginHalt, Order!Enter
    <3>5. QED  BY <3>4 DEF Order!OrderNext
  <2>4. CASE StopCallOk(s)
    <3>1. Move("halting", "down")
      BY <1>5, <2>1, <2>4
      DEF StopCallOk, BaseStopNil, Finish, Goto, phase, InBoot, InHalt
    <3>2. QED  BY <1>3, <3>1 DEF Order!OrderNext
  <2>5. CASE CallErr(s) \/ Backoff(s)
    <3>1. pc[s] \in {"call", "backoff"} /\ started' = started /\ started[s]
      BY <1>5, <2>5 DEF CallErr, Backoff, baseVars, flagVars, HaltProgress, Underway
    <3>2. Move("halting", "halting") \/ Move("halting", "up")
      BY <1>5, <2>1, <3>1 DEF phase, InBoot, InHalt
    <3>3. QED  BY <1>1, <1>3, <3>2 DEF Order!OrderNext
  <2>6. CASE StopPublish(s)
    <3>1. pc[s] \notin {"call", "backoff"} /\ pc'[s] \notin {"call", "backoff"}
          /\ started' = started
      BY <2>6 DEF StopPublish, BaseStopErr, FinishPublished, Finish, Goto
    <3>2. Stay  BY <1>5, <2>1, <3>1 DEF phase, InBoot, InHalt
    <3>3. QED  BY <1>1, <3>2
  <2>7. QED
    BY <1>5, <2>2, <2>3, <2>4, <2>5, <2>6 DEF StopRoutine, StopCallErr
<1>6. QED  BY <1>4, <1>5 DEF StartRoutine, StopRoutine

LEMMA CallRefines ==
  ASSUME OrderInductive,
         \/ \E s \in Services : \E ds \in MayDepend[s] : AddService(s, ds)
         \/ StartAll \/ StopAll \/ Return \/ Cancel
         \/ \E w \in Watchers : Watcher(w) \/ CancelWatcher(w)
         \/ \E w \in Watchers, s \in Services :
               ServiceReady(w, s) \/ AwaitStopped(w, s)
         \/ UNCHANGED vars
  PROVE  Order!OrderNext \/ UNCHANGED <<services, deps, phase>>
<1> USE DEF OrderInductive, TypeOK, BaseTypeOK, baseVars, flagVars, callVars
<1>1. CASE \E s \in Services : \E ds \in MayDepend[s] : AddService(s, ds)
  <2>1. PICK s \in Services, ds \in SUBSET Services : AddService(s, ds)
    BY <1>1, MayDependAssumption
  <2>2. phase' = phase  BY <2>1 DEF AddService, phase, InBoot, InHalt
  <2>3. Order!Declare(s, ds)  BY <2>1, <2>2 DEF AddService, Order!Declare
  <2>4. QED  BY <2>3 DEF Order!OrderNext
<1>2. CASE StartAll \/ StopAll \/ Return
  <2>1. \A x \in Services : pc[x] = "idle" /\ pc'[x] \in {"idle", "check"}
    BY <1>2 DEF Registered, StartAll, StartAllMissing, StartAllCircular,
       StartAllBoot, StopAll, TakeLock, Return, Spawn
  <2>2. UNCHANGED <<started, services, deps>>
    BY <1>2 DEF StartAll, StartAllMissing, StartAllCircular, StartAllBoot,
       StopAll, TakeLock, Return
  <2>3. phase' = phase  BY <2>1, <2>2 DEF phase, InBoot, InHalt
  <2>4. QED  BY <2>2, <2>3
<1>3. CASE \/ Cancel
           \/ \E w \in Watchers : Watcher(w) \/ CancelWatcher(w)
           \/ \E w \in Watchers, s \in Services :
                 ServiceReady(w, s) \/ AwaitStopped(w, s)
           \/ UNCHANGED vars
  <2>1. UNCHANGED <<started, op, pc, services, deps>>
    BY <1>3 DEF Cancel, Watcher, CancelWatcher, ServiceReady, AwaitStopped,
       Lookup, Subscribe, SkipErr, ReceiveNil, GiveUp, Abandon, Started, Stopped,
       vars
  <2>2. phase' = phase  BY <2>1 DEF phase, InBoot, InHalt
  <2>3. QED  BY <2>1, <2>2
<1>4. QED  BY <1>1, <1>2, <1>3

(* The Maestro implements DependencyOrder: every step of StartAll, StopAll *)
(* and AddService is one of its steps, or changes no service's phase.      *)
THEOREM Refinement == Spec => RefinesDependencyOrder
<1>1. OrderInductive /\ [Next]_vars => [Order!OrderNext]_<<services, deps, phase>>
  BY RoutineRefines, CallRefines DEF Next
<1>2. Spec => Order!OrderInit /\ [][Order!OrderNext]_<<services, deps, phase>>
  BY <1>1, InitRefines, OrderHolds, PTL DEF Spec
<1>3. QED
  BY <1>2 DEF RefinesDependencyOrder, Order!OrderSpec, Order!orderVars
=============================================================================
