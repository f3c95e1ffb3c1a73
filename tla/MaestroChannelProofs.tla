------------------------ MODULE MaestroChannelProofs ------------------------
(***************************************************************************)
(* The channels of Started() and Stopped(), for any services, goroutines   *)
(* that wait and capacity: nobody misses what he waits for, and a channel  *)
(* holds what its list says (ServiceBase.tla as Maestro.tla uses it).      *)
(***************************************************************************)
EXTENDS MaestroProofs

(* Whoever waits is in the list or has his channel closed, and the lists   *)
(* have nobody else.                                                       *)
Listens ==
  \A l \in Listeners, s \in Services :
    /\ WaitsForStart(l, s) => closed[l] \/ l \in startedCs[s]
    /\ WaitsForStop(l, s) => closed[l] \/ l \in stoppedCs[s]
    /\ l \in startedCs[s] => WaitsForStart(l, s) /\ ~started[s]
    /\ l \in stoppedCs[s] => WaitsForStop(l, s) /\ ~stopped[s]

(* The number kept for each list bounds what a reader in it holds, as the  *)
(* oldest channel of a list is the first one full: a list with room has no *)
(* channel without.                                                        *)
BacklogsBound ==
  \A l \in Listeners, s \in Services :
    /\ unread[l] <= ChanCap
    /\ l \in startedCs[s] => unread[l] <= startedBacklog[s]
    /\ l \in stoppedCs[s] => unread[l] <= stoppedBacklog[s]

Channels == Listens /\ BacklogsBound

LEMMA InitChannels == Init => Channels
  BY ChanCapAssumption
  DEF Init, BaseInit, Channels, Listens, BacklogsBound, WaitsForStart,
      WaitsForStop, Listeners

(* One waits for one service, and for one thing. *)
LEMMA WaitsForOne ==
  ASSUME NEW l \in Listeners, NEW s \in Services, NEW t \in Services
  PROVE  /\ WaitsForStart(l, s) => ~WaitsForStop(l, t)
         /\ WaitsForStart(l, s) /\ WaitsForStart(l, t) => s = t
         /\ WaitsForStop(l, s) /\ WaitsForStop(l, t) => s = t
  BY ListenersAssumption DEF WaitsForStart, WaitsForStop

-----------------------------------------------------------------------------
(* The operations on ServiceBase *)

(* The step changes nobody's wait, but perhaps that of a. *)
OthersWait(a) ==
  \A l \in Listeners \ {a}, s \in Services :
    /\ WaitsForStart(l, s)' <=> WaitsForStart(l, s)
    /\ WaitsForStop(l, s)' <=> WaitsForStop(l, s)

Waits(l) == \E s \in Services : WaitsForStart(l, s) \/ WaitsForStop(l, s)

SameWaits ==
  \A l \in Listeners, s \in Services :
    /\ WaitsForStart(l, s)' <=> WaitsForStart(l, s)
    /\ WaitsForStop(l, s)' <=> WaitsForStop(l, s)

LEMMA QuietChannels ==
  ASSUME Channels, SameWaits, UNCHANGED baseVars
  PROVE  Channels'
<1> USE DEF baseVars, flagVars, chanVars, backlogVars
<1>1. Listens'  BY DEF Channels, Listens, SameWaits
<1>2. BacklogsBound'  BY DEF Channels, BacklogsBound
<1>3. QED  BY <1>1, <1>2 DEF Channels

(* a gets a channel of d. *)
LEMMA RegisterChannels ==
  ASSUME TypeOK, Channels, NEW a \in Listeners, NEW d \in Services,
         OthersWait(a), ~Waits(a),
         \/ Started(a, d) /\ \A s \in Services :
              (WaitsForStart(a, s)' <=> s = d) /\ ~WaitsForStop(a, s)'
         \/ Stopped(a, d) /\ \A s \in Services :
              (WaitsForStop(a, s)' <=> s = d) /\ ~WaitsForStart(a, s)'
  PROVE  Channels'
<1> USE DEF TypeOK, BaseTypeOK, flagVars, backlogVars
<1>1. \A s \in Services : a \notin startedCs[s] /\ a \notin stoppedCs[s]
  BY DEF Channels, Listens, Waits
<1>2. UNCHANGED <<flagVars, backlogVars>>  BY DEF Started, Stopped
<1>3. \A l \in Listeners \ {a}, s \in Services :
        /\ closed'[l] = closed[l] /\ unread'[l] = unread[l]
        /\ l \in startedCs'[s] <=> l \in startedCs[s]
        /\ l \in stoppedCs'[s] <=> l \in stoppedCs[s]
  BY DEF Started, Stopped
<1>4. unread'[a] = 0  BY DEF Started, Stopped
<1>5. Listens'
  <2> SUFFICES ASSUME NEW l \in Listeners, NEW s \in Services
      PROVE /\ WaitsForStart(l, s)' => closed'[l] \/ l \in startedCs'[s]
            /\ WaitsForStop(l, s)' => closed'[l] \/ l \in stoppedCs'[s]
            /\ l \in startedCs'[s] => WaitsForStart(l, s)' /\ ~started'[s]
            /\ l \in stoppedCs'[s] => WaitsForStop(l, s)' /\ ~stopped'[s]
    BY DEF Listens
  <2>1. CASE l = a  BY <1>1, <1>2, <2>1 DEF Started, Stopped
  <2>2. CASE l # a
    BY <1>2, <1>3, <2>2 DEF Channels, Listens, OthersWait
  <2>3. QED  BY <2>1, <2>2
<1>6. BacklogsBound'
  <2> SUFFICES ASSUME NEW l \in Listeners, NEW s \in Services
      PROVE /\ unread'[l] <= ChanCap
            /\ l \in startedCs'[s] => unread'[l] <= startedBacklog'[s]
            /\ l \in stoppedCs'[s] => unread'[l] <= stoppedBacklog'[s]
    BY DEF BacklogsBound
  <2>1. CASE l = a  BY <1>2, <1>4, <2>1, ChanCapAssumption
  <2>2. CASE l # a
    BY <1>2, <1>3, <2>2 DEF Channels, BacklogsBound
  <2>3. QED  BY <2>1, <2>2
<1>7. QED  BY <1>5, <1>6 DEF Channels

(* a does not wait any more. *)
LEMMA AbandonChannels ==
  ASSUME TypeOK, Channels, NEW a \in Listeners, OthersWait(a), ~Waits(a)',
         Abandon(a)
  PROVE  Channels'
<1> USE DEF TypeOK, BaseTypeOK, flagVars, backlogVars
<1>1. UNCHANGED <<flagVars, backlogVars>>  BY DEF Abandon
<1>2. \A l \in Listeners \ {a}, s \in Services :
        /\ closed'[l] = closed[l] /\ unread'[l] = unread[l]
        /\ l \in startedCs'[s] <=> l \in startedCs[s]
        /\ l \in stoppedCs'[s] <=> l \in stoppedCs[s]
  BY DEF Abandon
<1>3. /\ unread'[a] = 0
      /\ \A s \in Services : a \notin startedCs'[s] /\ a \notin stoppedCs'[s]
  BY DEF Abandon
<1>4. Listens'
  BY <1>1, <1>2, <1>3 DEF Channels, Listens, OthersWait, Waits
<1>5. BacklogsBound'
  BY <1>1, <1>2, <1>3, ChanCapAssumption DEF Channels, BacklogsBound
<1>6. QED  BY <1>4, <1>5 DEF Channels

(* start(nil) and stop(nil): a list is closed and forgotten. *)
LEMMA CloseChannels ==
  ASSUME TypeOK, Channels, NEW s \in Services, SameWaits,
         BaseStartNil(s) \/ BaseStopNil(s)
  PROVE  Channels'
<1> USE DEF TypeOK, BaseTypeOK
<1>1. Listens'
  <2> SUFFICES ASSUME NEW l \in Listeners, NEW t \in Services
      PROVE /\ WaitsForStart(l, t)' => closed'[l] \/ l \in startedCs'[t]
            /\ WaitsForStop(l, t)' => closed'[l] \/ l \in stoppedCs'[t]
            /\ l \in startedCs'[t] => WaitsForStart(l, t)' /\ ~started'[t]
            /\ l \in stoppedCs'[t] => WaitsForStop(l, t)' /\ ~stopped'[t]
    BY DEF Listens
  <2>1. /\ WaitsForStart(l, t) => closed[l] \/ l \in startedCs[t]
        /\ WaitsForStop(l, t) => closed[l] \/ l \in stoppedCs[t]
        /\ l \in startedCs[t] => WaitsForStart(l, t) /\ ~started[t]
        /\ l \in stoppedCs[t] => WaitsForStop(l, t) /\ ~stopped[t]
    BY DEF Channels, Listens
  <2>2. /\ WaitsForStart(l, t)' <=> WaitsForStart(l, t)
        /\ WaitsForStop(l, t)' <=> WaitsForStop(l, t)
    BY DEF SameWaits
  <2>3. CASE BaseStartNil(s)  BY <2>1, <2>2, <2>3 DEF BaseStartNil, Close
  <2>4. CASE BaseStopNil(s)  BY <2>1, <2>2, <2>4 DEF BaseStopNil, Close
  <2>5. QED  BY <2>3, <2>4
<1>2. BacklogsBound'
  BY SMTT(30) DEF Channels, BacklogsBound, BaseStartNil, BaseStopNil
<1>3. QED  BY <1>1, <1>2 DEF Channels

(* start(err) and stop(err): the channels of a list take one more error.   *)
(* start(err) says that s is stopped, and nobody waits to be told.         *)
LEMMA PushChannels ==
  ASSUME TypeOK, Channels, NEW s \in Services, SameWaits,
         (BaseStartErr(s) /\ stopped[s]) \/ BaseStopErr(s)
  PROVE  Channels'
<1> USE DEF TypeOK, BaseTypeOK
<1>1. Listens'
  <2> SUFFICES ASSUME NEW l \in Listeners, NEW t \in Services
      PROVE /\ WaitsForStart(l, t)' => closed'[l] \/ l \in startedCs'[t]
            /\ WaitsForStop(l, t)' => closed'[l] \/ l \in stoppedCs'[t]
            /\ l \in startedCs'[t] => WaitsForStart(l, t)' /\ ~started'[t]
            /\ l \in stoppedCs'[t] => WaitsForStop(l, t)' /\ ~stopped'[t]
    BY DEF Listens
  <2>1. /\ WaitsForStart(l, t) => closed[l] \/ l \in startedCs[t]
        /\ WaitsForStop(l, t) => closed[l] \/ l \in stoppedCs[t]
        /\ l \in startedCs[t] => WaitsForStart(l, t) /\ ~started[t]
        /\ l \in stoppedCs[t] => WaitsForStop(l, t) /\ ~stopped[t]
    BY DEF Channels, Listens
  <2>2. /\ WaitsForStart(l, t)' <=> WaitsForStart(l, t)
        /\ WaitsForStop(l, t)' <=> WaitsForStop(l, t)
    BY DEF SameWaits
  <2>3. QED  BY <2>1, <2>2 DEF BaseStartErr, BaseStopErr
<1>2. ASSUME BaseStartErr(s) PROVE BacklogsBound'
  <2> SUFFICES ASSUME NEW l \in Listeners, NEW t \in Services
      PROVE /\ unread'[l] <= ChanCap
            /\ l \in startedCs'[t] => unread'[l] <= startedBacklog'[t]
            /\ l \in stoppedCs'[t] => unread'[l] <= stoppedBacklog'[t]
    BY DEF BacklogsBound
  <2>1. /\ unread[l] <= ChanCap
        /\ l \in startedCs[t] => unread[l] <= startedBacklog[t]
        /\ l \in stoppedCs[t] => unread[l] <= stoppedBacklog[t]
        /\ l \in startedCs[s] => unread[l] <= startedBacklog[s]
    BY DEF Channels, BacklogsBound
  <2>2. l \in startedCs[s] =>
          l \notin stoppedCs[t] /\ (l \in startedCs[t] => t = s)
    BY WaitsForOne DEF Channels, Listens
  <2>3. CASE /\ startedBacklog[s] < ChanCap
             /\ startedBacklog' = [startedBacklog EXCEPT ![s] = @ + 1]
             /\ Push(startedCs[s])
    BY <1>2, <2>1, <2>2, <2>3, ChanCapAssumption DEF BaseStartErr, Push
  <2>4. CASE /\ startedBacklog[s] = ChanCap
             /\ \E ls \in SUBSET HasRoom(startedCs[s] \cap Watchers) : Push(ls)
             /\ UNCHANGED startedBacklog
    <3>1. PICK ls \in SUBSET HasRoom(startedCs[s] \cap Watchers) : Push(ls)
      BY <2>4
    <3>2. l \in ls => l \in startedCs[s] /\ unread[l] < ChanCap
      BY <3>1 DEF HasRoom
    <3>3. QED
      BY <1>2, <2>1, <2>2, <2>4, <3>1, <3>2, ChanCapAssumption
      DEF BaseStartErr, Push
  <2>5. QED  BY <1>2, <2>3, <2>4 DEF BaseStartErr
<1>3. ASSUME BaseStopErr(s) PROVE BacklogsBound'
  <2> SUFFICES ASSUME NEW l \in Listeners, NEW t \in Services
      PROVE /\ unread'[l] <= ChanCap
            /\ l \in startedCs'[t] => unread'[l] <= startedBacklog'[t]
            /\ l \in stoppedCs'[t] => unread'[l] <= stoppedBacklog'[t]
    BY DEF BacklogsBound
  <2>1. /\ unread[l] <= ChanCap
        /\ l \in startedCs[t] => unread[l] <= startedBacklog[t]
        /\ l \in stoppedCs[t] => unread[l] <= stoppedBacklog[t]
        /\ l \in stoppedCs[s] => unread[l] <= stoppedBacklog[s]
    BY DEF Channels, BacklogsBound
  <2>2. l \in stoppedCs[s] =>
          l \notin startedCs[t] /\ (l \in stoppedCs[t] => t = s)
    BY WaitsForOne DEF Channels, Listens
  <2>3. CASE /\ stoppedBacklog[s] < ChanCap
             /\ stoppedBacklog' = [stoppedBacklog EXCEPT ![s] = @ + 1]
             /\ Push(stoppedCs[s])
    BY <1>3, <2>1, <2>2, <2>3, ChanCapAssumption DEF BaseStopErr, Push
  <2>4. CASE /\ stoppedBacklog[s] = ChanCap
             /\ \E ls \in SUBSET HasRoom(stoppedCs[s] \cap Watchers) : Push(ls)
             /\ UNCHANGED stoppedBacklog
    <3>1. PICK ls \in SUBSET HasRoom(stoppedCs[s] \cap Watchers) : Push(ls)
      BY <2>4
    <3>2. l \in ls => l \in stoppedCs[s] /\ unread[l] < ChanCap
      BY <3>1 DEF HasRoom
    <3>3. QED
      BY <1>3, <2>1, <2>2, <2>4, <3>1, <3>2, ChanCapAssumption
      DEF BaseStopErr, Push
  <2>5. QED  BY <1>3, <2>3, <2>4 DEF BaseStopErr
<1>4. QED  BY <1>1, <1>2, <1>3 DEF Channels

-----------------------------------------------------------------------------
(* The steps of Maestro *)

(* A step of the goroutine of s *)
LEMMA RoutineOthers ==
  ASSUME TypeOK, NEW s \in Services, StartRoutine(s) \/ StopRoutine(s)
  PROVE  /\ UNCHANGED <<op, watchVars>>
         /\ \A x \in Services \ {s} : pc'[x] = pc[x] /\ awaiting'[x] = awaiting[x]
         /\ OthersWait(s)
<1>1. UNCHANGED <<op, watchVars>>
  BY DEF StartRoutine, StopRoutine, StartCheck, StopCheck, Check, StartAwait,
     StopAwait, Await, Receive, Call, StartCallOk, StopCallOk, StartCallErr,
     StopCallErr, CallErr, Backoff, StartPublish, StopPublish, callVars
<1>2. \A x \in Services \ {s} : pc'[x] = pc[x] /\ awaiting'[x] = awaiting[x]
  BY DEF TypeOK, StartRoutine, StopRoutine, StartCheck, StopCheck, Check,
     StartAwait, StopAwait, Await, Receive, Call, StartCallOk, StopCallOk,
     StartCallErr, StopCallErr, CallErr, Backoff, Retry, StartPublish,
     StopPublish, FinishPublished, Finish, Goto, routineVars
<1>3. OthersWait(s)
  BY <1>1, <1>2
  DEF OthersWait, WaitsForStart, WaitsForStop, watchVars, Listeners
<1>4. QED  BY <1>1, <1>2, <1>3

LEMMA NotAwaiting ==
  ASSUME NEW s \in Services, pc[s] # "await"
  PROVE  ~Waits(s)
  BY ListenersAssumption DEF Waits, WaitsForStart, WaitsForStop

LEMMA NotAwaitingNext ==
  ASSUME NEW s \in Services, pc'[s] # "await"
  PROVE  ~Waits(s)'
  BY ListenersAssumption DEF Waits, WaitsForStart, WaitsForStop

LEMMA RoutineChannels ==
  ASSUME OrderInductive, Channels, NEW s \in Services,
         StartRoutine(s) \/ StopRoutine(s)
  PROVE  Channels'
<1> s \in Listeners /\ TypeOK  BY DEF Listeners, OrderInductive
<1>1. OthersWait(s) /\ UNCHANGED op  BY RoutineOthers
<1>2. pc[s] # "await" /\ pc'[s] # "await" => SameWaits
  BY <1>1, NotAwaiting, NotAwaitingNext DEF OthersWait, SameWaits, Waits
<1>3. ASSUME \/ StartCheck(s) \/ StopCheck(s) \/ Call(s) \/ CallErr(s)
             \/ Backoff(s)
      PROVE  Channels'
  <2>1. UNCHANGED baseVars
    BY <1>3 DEF StartCheck, StopCheck, Check, Call, CallErr, Backoff
  <2>2. pc[s] # "await" /\ pc'[s] # "await"
    BY <1>3 DEF TypeOK, StartCheck, StopCheck, Check, Call, CallErr, Backoff,
       Retry, Finish, Goto
  <2>3. QED  BY <1>2, <2>1, <2>2, QuietChannels
<1>4. ASSUME NEW d \in pending[s], Await(s, d),
             \/ op = "StartAll" /\ Started(s, d)
             \/ op = "StopAll" /\ Stopped(s, d)
      PROVE  Channels'
  <2>1. d \in Services  BY DEF TypeOK
  <2>2. ~Waits(s)  BY <1>4, NotAwaiting DEF Await
  <2>3. pc'[s] = "await" /\ awaiting'[s] = d
    BY <1>4 DEF Await, Goto, TypeOK
  <2>4. \A t \in Services :
          /\ WaitsForStart(s, t)' <=> op = "StartAll" /\ t = d
          /\ WaitsForStop(s, t)' <=> op = "StopAll" /\ t = d
    BY <1>1, <2>3, ListenersAssumption DEF WaitsForStart, WaitsForStop
  <2>5. QED  BY <1>1, <1>4, <2>1, <2>2, <2>4, RegisterChannels
<1>5. ASSUME Receive(s) PROVE Channels'
  <2>1. pc'[s] # "await"  BY <1>5 DEF Receive, Goto, TypeOK
  <2>2. Abandon(s)  BY <1>5 DEF Receive
  <2>3. QED  BY <1>1, <2>1, <2>2, NotAwaitingNext, AbandonChannels
<1>6. ASSUME StartCallOk(s) \/ StopCallOk(s) PROVE Channels'
  <2>1. pc[s] # "await" /\ pc'[s] # "await"
    BY <1>6 DEF StartCallOk, StopCallOk, Finish, Goto, TypeOK
  <2>2. BaseStartNil(s) \/ BaseStopNil(s)
    BY <1>6 DEF StartCallOk, StopCallOk
  <2>3. QED  BY <1>2, <2>1, <2>2, CloseChannels
<1>7. ASSUME \/ op = "StartAll" /\ StartPublish(s)
             \/ op = "StopAll" /\ StopPublish(s)
      PROVE  Channels'
  <2>1. pc[s] # "await" /\ pc'[s] # "await"
    BY <1>7 DEF StartPublish, StopPublish, FinishPublished, Finish, Goto, TypeOK
  <2>2. op = "StartAll" => stopped[s]
    BY <1>7 DEF StartPublish, StopPublish, OrderInductive, BootProgress,
       Underway, FlagsOpposite
  <2>3. (BaseStartErr(s) /\ stopped[s]) \/ BaseStopErr(s)
    BY <1>7, <2>2 DEF StartPublish, StopPublish
  <2>4. QED  BY <1>2, <2>1, <2>3, PushChannels
<1>8. QED
  BY <1>3, <1>4, <1>5, <1>6, <1>7
  DEF StartRoutine, StopRoutine, StartAwait, StopAwait, StartCallErr,
      StopCallErr

LEMMA WatcherChannels ==
  ASSUME OrderInductive, Channels, NEW w \in Watchers,
         \/ Watcher(w) \/ CancelWatcher(w)
         \/ \E s \in Services : ServiceReady(w, s) \/ AwaitStopped(w, s)
  PROVE  Channels'
<1> w \in Listeners /\ w \notin Services /\ TypeOK
  BY ListenersAssumption DEF Listeners, OrderInductive
<1>1. UNCHANGED <<op, pc, awaiting>>
  BY DEF Watcher, CancelWatcher, ServiceReady, AwaitStopped, Lookup, Subscribe,
     SkipErr, ReceiveNil, GiveUp, callVars, routineVars
<1>2. \A v \in Watchers \ {w} : wpc'[v] = wpc[v] /\ wtarget'[v] = wtarget[v]
  BY DEF Watcher, CancelWatcher, ServiceReady, AwaitStopped, Lookup, Subscribe,
     SkipErr, ReceiveNil, GiveUp, Leave, WatcherGoto, watchVars, TypeOK
<1>3. OthersWait(w)
  BY <1>1, <1>2 DEF OthersWait, WaitsForStart, WaitsForStop, Listeners
<1>4. ~Waits(w) <=> wpc[w] \notin {"ready", "stopped"} \/ wtarget[w] \notin Services
  BY DEF Waits, WaitsForStart, WaitsForStop
<1>5. wpc'[w] \notin {"ready", "stopped"} => ~Waits(w)'
  BY DEF Waits, WaitsForStart, WaitsForStop
<1>6. wpc'[w] = wpc[w] /\ wtarget'[w] = wtarget[w] => SameWaits
  BY <1>1, <1>3 DEF OthersWait, SameWaits, WaitsForStart, WaitsForStop
<1>7. ~Waits(w) /\ ~Waits(w)' => SameWaits
  BY <1>3 DEF OthersWait, SameWaits, Waits
<1>8. CASE \/ CancelWatcher(w) \/ Lookup(w)
           \/ \E s \in Services : ServiceReady(w, s)
  <2>1. UNCHANGED baseVars
    BY <1>8 DEF CancelWatcher, Lookup, ServiceReady
  <2>2. SameWaits
    BY <1>4, <1>5, <1>6, <1>7, <1>8 DEF CancelWatcher, Lookup, ServiceReady,
       Leave, WatcherGoto, TypeOK
  <2>3. QED  BY <2>1, <2>2, QuietChannels
<1>9. CASE Subscribe(w)
  <2>1. PICK s \in Services : s = wtarget[w] /\ Started(w, s)
    BY <1>9 DEF Subscribe, OrderInductive, Targeted
  <2>2. wpc'[w] = "ready" /\ wtarget'[w] = s
    BY <1>9, <2>1 DEF Subscribe, WatcherGoto, TypeOK
  <2>3. \A t \in Services : /\ WaitsForStart(w, t)' <=> t = s
                            /\ ~WaitsForStop(w, t)'
    BY <2>2 DEF WaitsForStart, WaitsForStop
  <2>4. ~Waits(w)  BY <1>4, <1>9 DEF Subscribe
  <2>5. QED  BY <1>3, <2>1, <2>3, <2>4, RegisterChannels
<1>10. CASE \E s \in Services : AwaitStopped(w, s)
  <2>1. PICK s \in Services : AwaitStopped(w, s)  BY <1>10
  <2>2. wpc'[w] = "stopped" /\ wtarget'[w] = s /\ Stopped(w, s)
    BY <2>1 DEF AwaitStopped, WatcherGoto, TypeOK
  <2>3. \A t \in Services : /\ WaitsForStop(w, t)' <=> t = s
                            /\ ~WaitsForStart(w, t)'
    BY <2>2 DEF WaitsForStart, WaitsForStop
  <2>4. ~Waits(w)  BY <1>4, <2>1 DEF AwaitStopped
  <2>5. QED  BY <1>3, <2>2, <2>3, <2>4, RegisterChannels
<1>11. CASE SkipErr(w)
  <2>1. SameWaits  BY <1>6, <1>11 DEF SkipErr, watchVars
  <2>2. UNCHANGED <<flagVars, startedCs, stoppedCs, closed, backlogVars>>
    BY <1>11 DEF SkipErr
  <2>3. Listens'
    BY <2>1, <2>2 DEF Channels, Listens, SameWaits, flagVars
  <2>4. \A l \in Listeners : unread'[l] \in Nat /\ unread'[l] <= unread[l]
                             /\ unread[l] \in Nat
    BY <1>11 DEF SkipErr, TypeOK, BaseTypeOK
  <2>5. ASSUME NEW s \in Services
        PROVE  startedBacklog[s] \in Nat /\ stoppedBacklog[s] \in Nat
    <3>1. startedBacklog[s] \in 0..ChanCap /\ stoppedBacklog[s] \in 0..ChanCap
      BY DEF TypeOK, BaseTypeOK
    <3>2. QED  BY <3>1, ChanCapAssumption
  <2>6. BacklogsBound'
    BY <2>2, <2>4, <2>5, ChanCapAssumption
    DEF Channels, BacklogsBound, backlogVars
  <2>7. QED  BY <2>3, <2>6 DEF Channels
<1>12. CASE ReceiveNil(w) \/ GiveUp(w)
  <2>1. Abandon(w) /\ wpc'[w] = "out"
    BY <1>12 DEF ReceiveNil, GiveUp, Leave, WatcherGoto, TypeOK
  <2>2. QED  BY <1>3, <1>5, <2>1, AbandonChannels
<1>13. QED  BY <1>8, <1>9, <1>10, <1>11, <1>12 DEF Watcher

(* No goroutine waits when an operation begins or ends. *)
LEMMA CallChannels ==
  ASSUME OrderInductive, Channels,
         \/ \E s \in Services : \E ds \in MayDepend[s] : AddService(s, ds)
         \/ StartAll \/ StopAll \/ Return \/ Cancel
  PROVE  Channels'
<1>1. UNCHANGED <<baseVars, watchVars, awaiting>>
  BY DEF AddService, StartAll, StartAllMissing, StartAllCircular, StartAllBoot,
     StopAll, TakeLock, Return, Cancel, routineVars
<1>2. \/ UNCHANGED <<op, pc>>
      \/ \A x \in Services : pc[x] # "await" /\ pc'[x] # "await"
  BY DEF AddService, StartAll, StartAllMissing, StartAllCircular, StartAllBoot,
     StopAll, TakeLock, Return, Cancel, OrderInductive, Registered, Spawn
<1>3. SameWaits
  BY <1>1, <1>2, ListenersAssumption
  DEF SameWaits, WaitsForStart, WaitsForStop, watchVars, Listeners
<1>4. QED  BY <1>1, <1>3, QuietChannels

-----------------------------------------------------------------------------
THEOREM ChannelsHold == Spec => []Channels
<1>1. OrderInductive /\ Channels /\ [Next]_vars => Channels'
  <2> SUFFICES ASSUME OrderInductive, Channels, [Next]_vars PROVE Channels'
    OBVIOUS
  <2>1. CASE Next
    BY <2>1, RoutineChannels, WatcherChannels, CallChannels DEF Next
  <2>2. CASE UNCHANGED vars
    <3>1. SameWaits
      BY <2>2 DEF SameWaits, WaitsForStart, WaitsForStop, vars, callVars,
         routineVars, watchVars
    <3>2. QED  BY <2>2, <3>1, QuietChannels DEF vars
  <2>3. QED  BY <2>1, <2>2
<1>2. QED  BY <1>1, InitChannels, OrderHolds, PTL DEF Spec

(* Nobody who waits for a service, or for its end, is ever left without a  *)
(* channel that will tell him (Started, Stopped, start and stop).          *)
THEOREM NoWakeupIsLost == Spec => []NoLostWakeup
<1>1. Channels => NoLostWakeup  BY DEF Channels, Listens, NoLostWakeup
<1>2. QED  BY <1>1, ChannelsHold, PTL

-----------------------------------------------------------------------------
(* What the closing of a channel promises *)

(* A closed channel is in no list: nothing is sent on it any more. *)
ClosedIsUnlisted ==
  \A l \in Listeners, s \in Services :
    closed[l] => l \notin startedCs[s] /\ l \notin stoppedCs[s]

(* What a step can do to the channels *)
LEMMA StepOnChannels ==
  ASSUME OrderInductive, Channels, Next
  PROVE  \/ UNCHANGED <<startedCs, stoppedCs, closed>>
         \/ \E l \in Listeners : Abandon(l)
         \/ \E l \in Listeners, s \in Services :
              /\ ~Waits(l)
              /\ Started(l, s) \/ Stopped(l, s)
         \/ \E s \in Services : BaseStartNil(s) \/ BaseStopNil(s)
<1> USE DEF baseVars, chanVars
<1>1. ASSUME NEW s \in Services, StartRoutine(s) \/ StopRoutine(s)
      PROVE  \/ UNCHANGED <<startedCs, stoppedCs, closed>>
             \/ Abandon(s)
             \/ \E d \in Services : /\ ~Waits(s)
                                    /\ Started(s, d) \/ Stopped(s, d)
             \/ BaseStartNil(s) \/ BaseStopNil(s)
  <2>1. StartAwait(s) \/ StopAwait(s) =>
          ~Waits(s) /\ \E d \in Services : Started(s, d) \/ Stopped(s, d)
    BY NotAwaiting DEF StartAwait, StopAwait, Await, OrderInductive, TypeOK
  <2>2. QED
    BY <1>1, <2>1
    DEF StartRoutine, StopRoutine, StartCheck, StopCheck, Check, Receive, Call,
        StartCallOk, StopCallOk, StartCallErr, StopCallErr, CallErr, Backoff,
        StartPublish, StopPublish, BaseStartErr, BaseStopErr
<1>2. ASSUME NEW w \in Watchers,
             \/ Watcher(w) \/ CancelWatcher(w)
             \/ \E s \in Services : ServiceReady(w, s) \/ AwaitStopped(w, s)
      PROVE  \/ UNCHANGED <<startedCs, stoppedCs, closed>>
             \/ Abandon(w)
             \/ \E s \in Services : /\ ~Waits(w)
                                    /\ Started(w, s) \/ Stopped(w, s)
  <2>1. wpc[w] \notin {"ready", "stopped"} => ~Waits(w)
    BY ListenersAssumption DEF Waits, WaitsForStart, WaitsForStop
  <2>2. Subscribe(w) \/ (\E s \in Services : AwaitStopped(w, s)) =>
          ~Waits(w) /\ \E s \in Services : Started(w, s) \/ Stopped(w, s)
    BY <2>1 DEF Subscribe, AwaitStopped, OrderInductive, Targeted
  <2>3. QED
    BY <1>2, <2>2 DEF Watcher, CancelWatcher, ServiceReady, Lookup, SkipErr,
                      ReceiveNil, GiveUp
<1>3. CASE \/ \E s \in Services : \E ds \in MayDepend[s] : AddService(s, ds)
           \/ StartAll \/ StopAll \/ Return \/ Cancel
  BY <1>3 DEF AddService, StartAll, StartAllMissing, StartAllCircular,
     StartAllBoot, StopAll, TakeLock, Return, Cancel
<1>4. Services \subseteq Listeners /\ Watchers \subseteq Listeners
  BY DEF Listeners
<1>5. QED  BY <1>1, <1>2, <1>3, <1>4 DEF Next

LEMMA UnlistedStep ==
  ASSUME OrderInductive, Channels, ClosedIsUnlisted, [Next]_vars
  PROVE  ClosedIsUnlisted'
<1> USE DEF OrderInductive, TypeOK, BaseTypeOK
<1>1. CASE UNCHANGED <<startedCs, stoppedCs, closed>>
  BY <1>1 DEF ClosedIsUnlisted
<1>2. ASSUME NEW l \in Listeners, Abandon(l) PROVE ClosedIsUnlisted'
  BY <1>2 DEF ClosedIsUnlisted, Abandon
<1>3. ASSUME NEW l \in Listeners, NEW s \in Services, ~Waits(l),
             Started(l, s) \/ Stopped(l, s)
      PROVE  ClosedIsUnlisted'
  <2>1. \A t \in Services : l \notin startedCs[t] /\ l \notin stoppedCs[t]
    BY <1>3 DEF Channels, Listens, Waits
  <2>2. QED
    BY <1>3, <2>1, SMTT(30) DEF ClosedIsUnlisted, Started, Stopped
<1>4. ASSUME NEW s \in Services, BaseStartNil(s) \/ BaseStopNil(s)
      PROVE  ClosedIsUnlisted'
  <2> SUFFICES ASSUME NEW l \in Listeners, NEW t \in Services, closed'[l]
               PROVE  l \notin startedCs'[t] /\ l \notin stoppedCs'[t]
    BY DEF ClosedIsUnlisted
  <2>1. CASE BaseStartNil(s)
    <3>1. l \in startedCs[s] =>
            l \notin stoppedCs[t] /\ (l \in startedCs[t] => t = s)
      BY WaitsForOne DEF Channels, Listens
    <3>2. QED
      BY <2>1, <3>1 DEF ClosedIsUnlisted, BaseStartNil, Close
  <2>2. CASE BaseStopNil(s)
    <3>1. l \in stoppedCs[s] =>
            l \notin startedCs[t] /\ (l \in stoppedCs[t] => t = s)
      BY WaitsForOne DEF Channels, Listens
    <3>2. QED
      BY <2>2, <3>1 DEF ClosedIsUnlisted, BaseStopNil, Close
  <2>3. QED  BY <1>4, <2>1, <2>2
<1>5. QED
  BY <1>1, <1>2, <1>3, <1>4, StepOnChannels DEF vars, baseVars, chanVars

(* No error is sent after the nil that the closing of a channel stands for:*)
(* closed channels are in no list (start, stop, Started and Stopped of     *)
(* service.go).                                                            *)
THEOREM ClosedForGood == Spec => []ClosedIsUnlisted
<1>1. Init => ClosedIsUnlisted  BY DEF Init, BaseInit, ClosedIsUnlisted
<1>2. QED
  BY <1>1, UnlistedStep, OrderHolds, ChannelsHold, PTL DEF Spec

(* Whom the service is up for, and how many failures he may have to skip   *)
UpForReady ==
  \A w \in Watchers : wpc[w] = "ready" /\ started[wtarget[w]] =>
    closed[w] /\ unread[w] <= ChanCap

(* He only gets nearer to the end of them. *)
Drains ==
  \A w \in Watchers : wpc[w] \in {"ready", "stopped"} /\ closed[w] =>
    \/ wpc'[w] = "out"
    \/ /\ wpc'[w] = wpc[w] /\ closed'[w] /\ unread'[w] <= unread[w]
       /\ SkipErr(w) => unread'[w] < unread[w]

(* Once its service is started a call of ServiceReady has its channel      *)
(* closed, and no more than the capacity of the channel left to skip ...   *)
THEOREM ReadyWhenUp == Spec => []UpForReady
<1>1. OrderInductive /\ Channels => UpForReady
  BY DEF OrderInductive, Targeted, Channels, Listens, BacklogsBound,
         WaitsForStart, UpForReady, Listeners
<1>2. QED  BY <1>1, OrderHolds, ChannelsHold, PTL

(* ... and from then on nothing is added to it, whatever boots, fails or   *)
(* stops in the meantime: each error it skips is one fewer (ServiceReady). *)
THEOREM ReadersDrain == Spec => [][Drains]_vars
<1>1. OrderInductive /\ Channels /\ ClosedIsUnlisted /\ [Next]_vars
        => [Drains]_vars
  <2> SUFFICES ASSUME OrderInductive, ClosedIsUnlisted, Next,
                      NEW w \in Watchers, wpc[w] \in {"ready", "stopped"},
                      closed[w]
               PROVE  \/ wpc'[w] = "out"
                      \/ /\ wpc'[w] = wpc[w] /\ closed'[w]
                         /\ unread'[w] <= unread[w]
                         /\ SkipErr(w) => unread'[w] < unread[w]
    BY DEF Drains
  <2> USE DEF OrderInductive, TypeOK, BaseTypeOK
  <2>1. w \in Listeners /\ w \notin Services /\ unread[w] \in Nat
    BY ListenersAssumption DEF Listeners
  <2>2. \A s \in Services : w \notin startedCs[s] /\ w \notin stoppedCs[s]
    BY <2>1 DEF ClosedIsUnlisted
  <2>3. ASSUME wpc'[w] = wpc[w], closed'[w], unread'[w] = unread[w], ~SkipErr(w)
        PROVE  wpc'[w] = wpc[w] /\ closed'[w] /\ unread'[w] <= unread[w]
    BY <2>1, <2>3
  <2>4. CASE SkipErr(w)
    BY <2>1, <2>4 DEF SkipErr, watchVars
  <2>5. CASE ReceiveNil(w) \/ GiveUp(w)
    BY <2>5 DEF ReceiveNil, GiveUp, Leave, WatcherGoto
  <2>6. CASE CancelWatcher(w)
    BY <2>1, <2>6 DEF CancelWatcher, baseVars, chanVars, SkipErr, watchVars
  <2>7. ASSUME NEW v \in Watchers, v # w,
               \/ Watcher(v) \/ CancelWatcher(v)
               \/ \E s \in Services : ServiceReady(v, s) \/ AwaitStopped(v, s)
        PROVE  wpc'[w] = wpc[w] /\ closed'[w] /\ unread'[w] = unread[w]
    <3>1. wpc'[w] = wpc[w]
      BY <2>7 DEF Watcher, CancelWatcher, ServiceReady, AwaitStopped, Lookup,
         Subscribe, SkipErr, ReceiveNil, GiveUp, Leave, WatcherGoto, watchVars
    <3>2. \/ UNCHANGED <<unread, closed>> \/ Abandon(v) \/ SkipErr(v)
          \/ \E t : Started(v, t) \/ Stopped(v, t)
      BY <2>7 DEF Watcher, CancelWatcher, ServiceReady, AwaitStopped, Lookup,
                  Subscribe, ReceiveNil, GiveUp, baseVars, chanVars
    <3>3. QED
      BY <2>1, <2>7, <3>1, <3>2 DEF Abandon, SkipErr, Started, Stopped
  <2>8. ASSUME NEW r \in Services, StartRoutine(r) \/ StopRoutine(r)
        PROVE  wpc'[w] = wpc[w] /\ closed'[w] /\ unread'[w] = unread[w]
    <3>1. wpc' = wpc  BY <2>8, RoutineOthers DEF watchVars
    <3>2. r # w  BY <2>1
    <3>3. \/ UNCHANGED <<unread, closed>> \/ Abandon(r)
          \/ \E d : Started(r, d) \/ Stopped(r, d)
          \/ BaseStartNil(r) \/ BaseStopNil(r)
          \/ BaseStartErr(r) \/ BaseStopErr(r)
      BY <2>8 DEF StartRoutine, StopRoutine, StartCheck, StopCheck, Check,
         StartAwait, StopAwait, Receive, Call, StartCallOk, StopCallOk,
         StartCallErr, StopCallErr, CallErr, Backoff, StartPublish,
         StopPublish, baseVars, chanVars
    <3>4. QED
      BY <2>1, <2>2, <3>1, <3>2, <3>3
      DEF Abandon, Started, Stopped, BaseStartNil, BaseStopNil, BaseStartErr,
          BaseStopErr, Close, Push, HasRoom
  <2>9. CASE \/ \E s \in Services : \E ds \in MayDepend[s] : AddService(s, ds)
             \/ StartAll \/ StopAll \/ Return \/ Cancel
    <3>1. UNCHANGED <<wpc, closed, unread>>
      BY <2>9 DEF AddService, StartAll, StartAllMissing, StartAllCircular,
         StartAllBoot, StopAll, TakeLock, Return, Cancel, baseVars, chanVars,
         watchVars
    <3>2. QED  BY <2>1, <3>1 DEF SkipErr
  <2>10. QED
    BY <2>3, <2>4, <2>5, <2>6, <2>7, <2>8, <2>9
    DEF Next, Watcher, Lookup, Subscribe, ServiceReady, AwaitStopped
<1>2. QED
  BY <1>1, OrderHolds, ChannelsHold, ClosedForGood, PTL DEF Spec

=============================================================================
