------------------------------ MODULE Maestro ------------------------------
(***************************************************************************)
(* The Maestro (maestro.go): a registry of services with dependencies, and *)
(* the two operations that boot and shut down the whole tree.              *)
(*                                                                         *)
(* StartAll and StopAll hold the Maestro's lock from start to end and run  *)
(* one goroutine per service.  Goroutines wait for each other through the  *)
(* channels of ServiceBase: a booting service for its dependencies, a      *)
(* stopping one for the services that depend on it (its parents).  The     *)
(* service's own Start and Stop, retried with a backoff, are external: they*)
(* succeed or fail.  The context of an operation may be cancelled at any   *)
(* time.  User goroutines register services, run the operations one after  *)
(* the other, and wait for services to be ready (ServiceReady) or stopped. *)
(***************************************************************************)
EXTENDS ServiceBase, DependencyGraph, FiniteSets

CONSTANTS
  MayDepend,     \* MayDepend[s]: the sets of names AddService(s) may be given
  MaxRetries,    \* MaxRetries[s]: the maxRetries s is registered with
  StartFails,    \* services whose Start may return an error
  StopFails,     \* services whose Stop may return an error
  MayCancel,     \* may the context of an operation be cancelled?
  NoService      \* stands for no service at all

ASSUME MayDependAssumption == MayDepend \in [Services -> SUBSET SUBSET Services]
ASSUME MaxRetriesAssumption == MaxRetries \in [Services -> Nat]
ASSUME NoServiceAssumption == NoService \notin Services
ASSUME ServicesAssumption == IsFiniteSet(Services)

VARIABLES
  services,    \* the names in Maestro.services
  deps,        \* ServiceBase.directDeps of each service
  op,          \* the operation that holds the Maestro's lock as a writer
  cancelled,   \* is the context of that operation done?
  errC,        \* the errors sent on the channel that operation returns
  pc,          \* where the goroutine of each service is
  pending,     \* the dependencies (or parents) it has still to wait for
  awaiting,    \* the one whose channel it is reading
  attempts,    \* the calls to Start (or Stop) of its retry loop
  wpc,         \* where each watcher is
  wtarget,     \* the service it waits for
  wcancelled   \* is the context of its call done?

callVars == <<services, deps, op, cancelled>>
routineVars == <<pending, awaiting, attempts>>
watchVars == <<wpc, wtarget, wcancelled>>
vars == <<baseVars, callVars, errC, pc, routineVars, watchVars>>

Kinds == {"DependencyMissing", "DependencyCircular", "DependencyUnavailable",
          "ParentUnavailable", "ServiceStartFailure", "ServiceStopFailure",
          "ContextErr"}

(* idle: no goroutine; check: its first select; deps: between two waits;   *)
(* await: reading a channel; call: inside Start or Stop; backoff: asleep   *)
(* before a retry; depFailed, callFailed: about to publish its failure;    *)
(* stuck: blocked on a full channel while publishing it.                   *)
RoutinePCs == {"idle", "check", "deps", "await", "call", "backoff",
               "depFailed", "callFailed", "stuck"}

WatcherPCs == {"out", "lookup", "subscribe", "ready", "stopped"}

TypeOK ==
  /\ BaseTypeOK
  /\ services \in SUBSET Services
  /\ deps \in [Services -> SUBSET Services]
  /\ op \in {"none", "StartAll", "StopAll", "Blocked"}
  /\ cancelled \in BOOLEAN
  /\ errC \in SUBSET (Services \X Kinds)
  /\ pc \in [Services -> RoutinePCs]
  /\ pending \in [Services -> SUBSET Services]
  /\ awaiting \in [Services -> Services \cup {NoService}]
  /\ attempts \in [Services -> Nat]
  /\ wpc \in [Watchers -> WatcherPCs]
  /\ wtarget \in [Watchers -> Services \cup {NoService}]
  /\ wcancelled \in [Watchers -> BOOLEAN]

Init ==
  /\ BaseInit
  /\ services = {}
  /\ deps = [s \in Services |-> {}]
  /\ op = "none"
  /\ cancelled = FALSE
  /\ errC = {}
  /\ pc = [s \in Services |-> "idle"]
  /\ pending = [s \in Services |-> {}]
  /\ awaiting = [s \in Services |-> NoService]
  /\ attempts = [s \in Services |-> 0]
  /\ wpc = [w \in Watchers |-> "out"]
  /\ wtarget = [w \in Watchers |-> NoService]
  /\ wcancelled = [w \in Watchers |-> FALSE]

-----------------------------------------------------------------------------
(* The registry *)

(* AddService, AddServiceWithBackoff: a name is registered once, and a     *)
(* service that depends on itself is refused with a panic.                 *)
AddService(s, ds) ==
  /\ op = "none"
  /\ s \notin services
  /\ s \notin ds
  /\ services' = services \cup {s}
  /\ deps' = [deps EXCEPT ![s] = ds]
  /\ UNCHANGED <<baseVars, op, cancelled, errC, pc, routineVars, watchVars>>

(* Mutant of MissingDeps: the check of hasMissingDeps is left out. *)
NoMissingDeps == {}

(* What hasMissingDeps finds (DependencyCheck.tla says how) *)
MissingDeps == Missing(services, deps)

(* Mutant of CircularDeps: the check of hasCircularDeps is left out. *)
NoCircularDeps == {}

(* What hasCircularDeps finds *)
CircularDeps == Circular(services, deps)

(* Mutant of Parents: a service stops without waiting for anybody. *)
NoParents(s) == {}

(* The registered services that depend on s *)
Parents(s) == {p \in services : s \in deps[p]}

-----------------------------------------------------------------------------
(* The goroutines, one per service and operation *)

Goto(s, l) == pc' = [pc EXCEPT ![s] = l]

(* The goroutine of s ends and sends the errors es of s on errC. *)
Finish(s, es) ==
  /\ Goto(s, "idle")
  /\ errC' = errC \cup ({s} \X es)
  /\ pending' = [pending EXCEPT ![s] = {}]
  /\ attempts' = [attempts EXCEPT ![s] = 0]

(* Mutant of FinishPublished: wg.Done() is skipped on the error path. *)
FinishNotDone(s, es) ==
  /\ Goto(s, "stuck")
  /\ errC' = errC \cup ({s} \X es)
  /\ UNCHANGED <<pending, attempts>>

(* It ends after publishing its failure, unless that send blocks. *)
FinishPublished(s, es) ==
  IF s \in jammed'
    THEN /\ Goto(s, "stuck")
         /\ UNCHANGED <<errC, pending, attempts>>
    ELSE Finish(s, es)

(* Mutant of RetriesLeft: attempts > maxRetries instead of >=. *)
OneMoreRetry(s) == attempts[s] <= MaxRetries[s]

RetriesLeft(s) == attempts[s] < MaxRetries[s]

-----------------------------------------------------------------------------
(* The steps that Maestro.start and Maestro.stop have in common *)

(* The select at the top takes any of its ready cases.  A goroutine that   *)
(* goes on has the services of ws to wait for.                             *)
Check(s, done, kind, ws) ==
  /\ pc[s] = "check"
  /\ \/ /\ done
        /\ Finish(s, {})
     \/ /\ cancelled
        /\ Finish(s, {kind})
     \/ /\ ~done /\ ~cancelled
        /\ Goto(s, "deps")
        /\ pending' = [pending EXCEPT ![s] = ws]
        /\ UNCHANGED <<errC, attempts>>
  /\ UNCHANGED <<baseVars, callVars, awaiting, watchVars>>

(* The next service to wait for, in the order of a map: any *)
Await(s, d) ==
  /\ pc[s] = "deps" /\ d \in pending[s]
  /\ Goto(s, "await")
  /\ awaiting' = [awaiting EXCEPT ![s] = d]
  /\ pending' = [pending EXCEPT ![s] = @ \ {d}]
  /\ UNCHANGED <<callVars, errC, attempts, watchVars>>

(* Mutant of Receive: an error is taken for the closing of the channel. *)
ReceiveAny(s) ==
  /\ pc[s] = "await"
  /\ unread[s] > 0 \/ closed[s]
  /\ Goto(s, "deps")
  /\ Abandon(s)
  /\ awaiting' = [awaiting EXCEPT ![s] = NoService]
  /\ UNCHANGED <<callVars, errC, pending, attempts, watchVars>>

(* An error ends the wait for the remaining services. *)
Receive(s) ==
  /\ pc[s] = "await"
  /\ \/ unread[s] > 0 /\ Goto(s, "depFailed")
     \/ unread[s] = 0 /\ closed[s] /\ Goto(s, "deps")
  /\ Abandon(s)
  /\ awaiting' = [awaiting EXCEPT ![s] = NoService]
  /\ UNCHANGED <<callVars, errC, pending, attempts, watchVars>>

(* Nobody is left to wait for: the service's own Start or Stop is called. *)
Call(s) ==
  /\ pc[s] = "deps" /\ pending[s] = {}
  /\ Goto(s, "call")
  /\ attempts' = [attempts EXCEPT ![s] = 1]
  /\ UNCHANGED <<baseVars, callVars, errC, pending, awaiting, watchVars>>

(* Mutant of CallErr: every failed try is published, not the last only. *)
CallErrLoud(s) ==
  /\ pc[s] = "call"
  /\ IF op = "StartAll" THEN BaseStartErr(s) ELSE BaseStopErr(s)
  /\ Goto(s, IF RetriesLeft(s) THEN "backoff" ELSE "callFailed")
  /\ UNCHANGED <<callVars, errC, routineVars, watchVars>>

CallErr(s) ==
  /\ pc[s] = "call"
  /\ Goto(s, IF RetriesLeft(s) THEN "backoff" ELSE "callFailed")
  /\ UNCHANGED <<baseVars, callVars, errC, routineVars, watchVars>>

(* Mutant of Retry: the loop does not count its attempts. *)
RetryUncounted(s) ==
  /\ Goto(s, "call")
  /\ UNCHANGED <<errC, pending, attempts>>

Retry(s) ==
  /\ Goto(s, "call")
  /\ attempts' = [attempts EXCEPT ![s] = @ + 1]
  /\ UNCHANGED <<errC, pending>>

(* Mutant of Backoff: a cancelled retry returns nil. *)
BackoffSilent(s) ==
  /\ pc[s] = "backoff"
  /\ (cancelled /\ Finish(s, {})) \/ Retry(s)
  /\ UNCHANGED <<baseVars, callVars, awaiting, watchVars>>

(* Mutant of Backoff: a cancelled retry sends its error and goes on. *)
BackoffTwice(s) ==
  /\ pc[s] = "backoff"
  /\ \/ /\ cancelled
        /\ Goto(s, "callFailed")
        /\ errC' = errC \cup {<<s, "ContextErr">>}
        /\ UNCHANGED <<pending, attempts>>
     \/ Retry(s)
  /\ UNCHANGED <<baseVars, callVars, awaiting, watchVars>>

(* The sleep before a retry is cut short by the context, in which case the *)
(* goroutine returns without a word to those that wait for the service.    *)
Backoff(s) ==
  /\ pc[s] = "backoff"
  /\ (cancelled /\ Finish(s, {"ContextErr"})) \/ Retry(s)
  /\ UNCHANGED <<baseVars, callVars, awaiting, watchVars>>

-----------------------------------------------------------------------------
(* Maestro.start: waits for the dependencies of s, then boots it *)

StartCheck(s) == Check(s, started[s], "ServiceStartFailure", deps[s])
StartAwait(s) == \E d \in pending[s] : Await(s, d) /\ Started(s, d)
StartCallOk(s) ==
  /\ pc[s] = "call"
  /\ BaseStartNil(s)
  /\ Finish(s, {})
  /\ UNCHANGED <<callVars, awaiting, watchVars>>
StartCallErr(s) == s \in StartFails /\ CallErr(s)
StartPublish(s) ==
  /\ pc[s] \in {"depFailed", "callFailed"}
  /\ BaseStartErr(s)
  /\ FinishPublished(s, IF pc[s] = "depFailed" THEN {"DependencyUnavailable"}
                                               ELSE {"ServiceStartFailure"})
  /\ UNCHANGED <<callVars, awaiting, watchVars>>

StartRoutine(s) ==
  /\ op = "StartAll"
  /\ \/ StartCheck(s) \/ StartAwait(s) \/ Receive(s) \/ Call(s)
     \/ StartCallOk(s) \/ StartCallErr(s) \/ Backoff(s) \/ StartPublish(s)

(* Maestro.stop: waits for the parents of s, then shuts it down *)

StopCheck(s) == Check(s, stopped[s], "ServiceStopFailure", Parents(s))
StopAwait(s) == \E p \in pending[s] : Await(s, p) /\ Stopped(s, p)
StopCallOk(s) ==
  /\ pc[s] = "call"
  /\ BaseStopNil(s)
  /\ Finish(s, {})
  /\ UNCHANGED <<callVars, awaiting, watchVars>>
StopCallErr(s) == s \in StopFails /\ CallErr(s)
StopPublish(s) ==
  /\ pc[s] \in {"depFailed", "callFailed"}
  /\ BaseStopErr(s)
  /\ FinishPublished(s, IF pc[s] = "depFailed" THEN {"ParentUnavailable"}
                                               ELSE {"ServiceStopFailure"})
  /\ UNCHANGED <<callVars, awaiting, watchVars>>

StopRoutine(s) ==
  /\ op = "StopAll"
  /\ \/ StopCheck(s) \/ StopAwait(s) \/ Receive(s) \/ Call(s)
     \/ StopCallOk(s) \/ StopCallErr(s) \/ Backoff(s) \/ StopPublish(s)

-----------------------------------------------------------------------------
(* StartAll and StopAll.  Between two operations errC is empty: the channel*)
(* belongs to the caller once it is returned.                              *)

Spawn == pc' = [s \in Services |-> IF s \in services THEN "check" ELSE "idle"]

(* The context of an operation may be done before the operation begins. *)
TakeLock(o) ==
  /\ op = "none"
  /\ op' = o
  /\ cancelled' \in (IF MayCancel THEN BOOLEAN ELSE {FALSE})
  /\ UNCHANGED <<baseVars, services, deps, routineVars, watchVars>>

(* hasMissingDeps sends one error per missing dependency on a channel with *)
(* room for one per service that nobody can read yet.                      *)
StartAllMissing ==
  /\ MissingDeps # {}
  /\ IF Cardinality(MissingDeps) <= Cardinality(services)
       THEN /\ TakeLock("StartAll")
            /\ errC' = {<<m[1], "DependencyMissing">> : m \in MissingDeps}
       ELSE TakeLock("Blocked") /\ UNCHANGED errC
  /\ UNCHANGED pc

(* hasCircularDeps reports the first service it meets a cycle from. *)
StartAllCircular ==
  /\ MissingDeps = {} /\ CircularDeps # {}
  /\ TakeLock("StartAll")
  /\ \E s \in CircularDeps : errC' = {<<s, "DependencyCircular">>}
  /\ UNCHANGED pc

StartAllBoot ==
  /\ MissingDeps = {} /\ CircularDeps = {}
  /\ TakeLock("StartAll")
  /\ Spawn
  /\ UNCHANGED errC

StartAll == StartAllMissing \/ StartAllCircular \/ StartAllBoot

StopAll == TakeLock("StopAll") /\ Spawn /\ UNCHANGED errC

(* wg.Wait() is over: the channel is closed and returned, the lock freed. *)
Return ==
  /\ op \in {"StartAll", "StopAll"}
  /\ \A s \in Services : pc[s] = "idle"
  /\ op' = "none"
  /\ cancelled' = FALSE
  /\ errC' = {}
  /\ UNCHANGED <<baseVars, services, deps, pc, routineVars, watchVars>>

Cancel ==
  /\ MayCancel /\ op \in {"StartAll", "StopAll"} /\ ~cancelled
  /\ cancelled' = TRUE
  /\ UNCHANGED <<baseVars, services, deps, op, errC, pc, routineVars, watchVars>>

-----------------------------------------------------------------------------
(* User goroutines: ServiceReady, and reading the channel of Stopped() *)

WatcherGoto(w, l) == wpc' = [wpc EXCEPT ![w] = l]

(* The call of w ends. *)
Leave(w) ==
  /\ WatcherGoto(w, "out")
  /\ wtarget' = [wtarget EXCEPT ![w] = NoService]
  /\ wcancelled' = [wcancelled EXCEPT ![w] = FALSE]

ServiceReady(w, s) ==
  /\ wpc[w] = "out"
  /\ WatcherGoto(w, "lookup")
  /\ wtarget' = [wtarget EXCEPT ![w] = s]
  /\ UNCHANGED <<baseVars, callVars, errC, pc, routineVars, wcancelled>>

(* m.Service(name) waits for the Maestro's lock, whatever the context says.*)
Lookup(w) ==
  /\ wpc[w] = "lookup" /\ op = "none"
  /\ IF wtarget[w] \in services
       THEN WatcherGoto(w, "subscribe") /\ UNCHANGED <<wtarget, wcancelled>>
       ELSE Leave(w)
  /\ UNCHANGED <<baseVars, callVars, errC, pc, routineVars>>

(* s.Started(), with the Maestro's lock free again *)
Subscribe(w) ==
  /\ wpc[w] = "subscribe"
  /\ Started(w, wtarget[w])
  /\ WatcherGoto(w, "ready")
  /\ UNCHANGED <<callVars, errC, pc, routineVars, wtarget, wcancelled>>

AwaitStopped(w, s) ==
  /\ wpc[w] = "out"
  /\ Stopped(w, s)
  /\ WatcherGoto(w, "stopped")
  /\ wtarget' = [wtarget EXCEPT ![w] = s]
  /\ UNCHANGED <<callVars, errC, pc, routineVars, wcancelled>>

(* case err := <-startedC: an error is skipped and the next one awaited *)
SkipErr(w) ==
  /\ wpc[w] \in {"ready", "stopped"} /\ unread[w] > 0
  /\ unread' = [unread EXCEPT ![w] = @ - 1]
  /\ UNCHANGED <<flagVars, startedCs, stoppedCs, closed, backlogVars, jammed,
                 callVars, errC, pc, routineVars, watchVars>>

(* case err := <-startedC, err == nil: the service is handed out *)
ReceiveNil(w) ==
  /\ wpc[w] \in {"ready", "stopped"} /\ unread[w] = 0 /\ closed[w]
  /\ Abandon(w)
  /\ Leave(w)
  /\ UNCHANGED <<callVars, errC, pc, routineVars>>

(* Mutant of GiveUp: the context is only looked at after an error. *)
GiveUpOnError(w) ==
  /\ wpc[w] \in {"ready", "stopped"} /\ wcancelled[w] /\ unread[w] > 0
  /\ Abandon(w)
  /\ Leave(w)
  /\ UNCHANGED <<callVars, errC, pc, routineVars>>

(* case <-ctx.Done(): nil is handed out *)
GiveUp(w) ==
  /\ wpc[w] \in {"ready", "stopped"} /\ wcancelled[w]
  /\ Abandon(w)
  /\ Leave(w)
  /\ UNCHANGED <<callVars, errC, pc, routineVars>>

CancelWatcher(w) ==
  /\ wpc[w] # "out" /\ ~wcancelled[w]
  /\ wcancelled' = [wcancelled EXCEPT ![w] = TRUE]
  /\ UNCHANGED <<baseVars, callVars, errC, pc, routineVars, wpc, wtarget>>

Watcher(w) ==
  \/ Lookup(w) \/ Subscribe(w) \/ SkipErr(w) \/ ReceiveNil(w) \/ GiveUp(w)

-----------------------------------------------------------------------------
Next ==
  \/ \E s \in Services : \E ds \in MayDepend[s] : AddService(s, ds)
  \/ StartAll
  \/ StopAll
  \/ Return
  \/ Cancel
  \/ \E s \in Services : StartRoutine(s) \/ StopRoutine(s)
  \/ \E w \in Watchers, s \in Services : ServiceReady(w, s) \/ AwaitStopped(w, s)
  \/ \E w \in Watchers : Watcher(w) \/ CancelWatcher(w)

Spec == Init /\ [][Next]_vars

(***************************************************************************)
(* Every goroutine that can run does, external calls and sleeps end, a     *)
(* select does not ignore a ready case forever, and a reader that waits    *)
(* for the Maestro's lock gets it when a writer frees it (sync.RWMutex).   *)
(* Nobody has to call anything or to cancel a context.                     *)
(***************************************************************************)
Fairness ==
  /\ WF_vars(Return)
  /\ \A s \in Services : WF_vars(StartRoutine(s)) /\ WF_vars(StopRoutine(s))
  /\ \A w \in Watchers : /\ SF_vars(Lookup(w))
                         /\ WF_vars(Subscribe(w))
                         /\ WF_vars(SkipErr(w))
                         /\ WF_vars(ReceiveNil(w))
                         /\ WF_vars(GiveUp(w))

FairSpec == Spec /\ Fairness

-----------------------------------------------------------------------------
(* Safety *)

InBoot(s) == op = "StartAll" /\ pc[s] \in {"call", "backoff"}
InHalt(s) == op = "StopAll" /\ pc[s] \in {"call", "backoff"}

(* Where each service is in its life: started is TRUE during a shutdown. *)
phase == [s \in Services |-> IF InBoot(s) THEN "booting"
                             ELSE IF InHalt(s) THEN "halting"
                             ELSE IF started[s] THEN "up"
                             ELSE "down"]

Order == INSTANCE DependencyOrder
           WITH Services <- Services, services <- services, deps <- deps,
                phase <- phase

(* The Maestro boots and shuts down services in the order of the           *)
(* dependency tree, whatever fails or is cancelled (StartAll, StopAll).    *)
RefinesDependencyOrder == Order!OrderSpec

(* While Start or Stop of a service runs, and as long as it is started,    *)
(* all its dependencies are started, and none of them is being stopped.    *)
DependenciesUp == Order!DependenciesUp

(* The two flags of a service are opposite, although stop(err) and         *)
(* start(err) set them without looking at each other.  start(err) relies on*)
(* it: it sets stopped and does not close the channels of stoppedCs.       *)
FlagsOpposite == \A s \in Services : stopped[s] = ~started[s]

(* The state a listener waits for, and the list its channel belongs to *)
WaitsForStart(l, s) ==
  \/ l \in Services /\ op = "StartAll" /\ pc[l] = "await" /\ awaiting[l] = s
  \/ l \in Watchers /\ wpc[l] = "ready" /\ wtarget[l] = s
WaitsForStop(l, s) ==
  \/ l \in Services /\ op = "StopAll" /\ pc[l] = "await" /\ awaiting[l] = s
  \/ l \in Watchers /\ wpc[l] = "stopped" /\ wtarget[l] = s

(* A wake-up is never lost: whoever waits for a service is registered with *)
(* it, and the service is not there yet, or has its channel closed or an   *)
(* error to read; and nobody is registered who does not wait (Started,     *)
(* Stopped, start and stop of ServiceBase against the readers' loops).     *)
NoLostWakeup ==
  \A l \in Listeners, s \in Services :
    /\ WaitsForStart(l, s) =>
         closed[l] \/ unread[l] > 0 \/ (l \in startedCs[s] /\ ~started[s])
    /\ WaitsForStop(l, s) =>
         closed[l] \/ unread[l] > 0 \/ (l \in stoppedCs[s] /\ ~stopped[s])
    /\ l \in startedCs[s] => WaitsForStart(l, s) /\ ~started[s]
    /\ l \in stoppedCs[s] => WaitsForStop(l, s) /\ ~stopped[s]

(* A goroutine only looks up registered dependencies, so that              *)
(* d := m.services[dep] is never nil, although a name may be given as a    *)
(* dependency before, or without ever, being registered.                   *)
NoNilDependency ==
  \A s \in Services :
    /\ pc[s] \in {"deps", "await"} => pending[s] \subseteq services
    /\ pc[s] = "await" => awaiting[s] \in services

Tries(s) == IF MaxRetries[s] = 0 THEN 1 ELSE MaxRetries[s]

(* Start (or Stop) is tried max(1, maxRetries) times: no failure is        *)
(* published before, and there is no further try.                          *)
GivesUpOnLastTry ==
  \A s \in Services :
    /\ attempts[s] <= Tries(s)
    /\ pc[s] = "callFailed" => attempts[s] = Tries(s)

(* The errors of an operation fit in the channel it returns, so that no    *)
(* goroutine blocks on a channel nobody can read before wg.Wait() is over. *)
ErrCFits == Cardinality(errC) <= Cardinality(services)

(* The operation o is over, but for returning its channel. *)
Returning(o) == op = o /\ \A s \in Services : pc[s] = "idle"

Failed(s) == \E k \in Kinds : <<s, k>> \in errC
Refused == \E e \in errC : e[2] \in {"DependencyMissing", "DependencyCircular"}

(* When the channel is returned all services that sent no error on it are  *)
(* up (StartAll) or down (StopAll): no failure is swallowed.  A tree that  *)
(* was refused is the exception, nothing of it was started.                *)
SilenceIsSuccess ==
  \A s \in services :
    /\ Returning("StartAll") /\ ~Refused => started[s] \/ Failed(s)
    /\ Returning("StopAll") => stopped[s] \/ Failed(s)

(* A service is only blamed on its dependencies (its parents, at shutdown) *)
(* when one of them failed in the same operation and is not up (down).     *)
BlameIsFounded ==
  \A s \in Services :
    /\ <<s, "DependencyUnavailable">> \in errC =>
         ~started[s] /\ \E d \in deps[s] : Failed(d) /\ ~started[d]
    /\ <<s, "ParentUnavailable">> \in errC =>
         ~stopped[s] /\ \E p \in Parents(s) : Failed(p) /\ ~stopped[p]

-----------------------------------------------------------------------------
(* The inductive invariant behind the order of boots and shutdowns *)

(* A watcher in a call has a service to wait for. *)
Targeted == \A w \in Watchers : wpc[w] # "out" => wtarget[w] \in Services

(* Only registered services start, and goroutines belong to an operation. *)
Registered ==
  \A s \in Services :
    /\ started[s] => s \in services
    /\ pc[s] # "idle" => s \in services /\ op \in {"StartAll", "StopAll"}

(* The services a goroutine has still to wait for *)
Ahead(s) ==
  CASE pc[s] = "deps" -> pending[s]
    [] pc[s] = "await" -> pending[s] \cup {awaiting[s]}
    [] pc[s] \in {"call", "backoff"} -> {}
    [] OTHER -> Services

Underway(s) == pc[s] \notin {"idle", "check"}

BootProgress ==
  op = "StartAll" => \A s \in Services : Underway(s) =>
    /\ ~started[s]
    /\ pc[s] = "await" /\ closed[s] => started[awaiting[s]]
    /\ \A d \in deps[s] \ Ahead(s) : started[d]

HaltProgress ==
  op = "StopAll" => \A s \in Services : Underway(s) =>
    /\ started[s]
    /\ pc[s] = "await" /\ closed[s] => ~started[awaiting[s]]
    /\ \A p \in Parents(s) \ Ahead(s) : ~started[p]

(* Only the goroutine that reads a channel now is in a list: none is woken *)
(* for a service it does not wait for.                                     *)
ListedWait ==
  \A s, d \in Services :
    /\ s \in startedCs[d] => WaitsForStart(s, d)
    /\ s \in stoppedCs[d] => WaitsForStop(s, d)

AwaitsOne == \A s \in Services : pc[s] = "await" => awaiting[s] \in Services

StartedOnStarted ==
  \A s \in Services : started[s] => \A d \in deps[s] : started[d]

(* The order of boots and shutdowns holds in a state like this one, and in *)
(* every state a step leads to from it: what a goroutine has been told, the*)
(* lists of channels and the flags agree (StartAll and StopAll).           *)
OrderInductive ==
  /\ TypeOK /\ Targeted /\ Registered /\ FlagsOpposite
  /\ ListedWait /\ AwaitsOne
  /\ BootProgress /\ HaltProgress /\ StartedOnStarted

-----------------------------------------------------------------------------
(* The inductive invariant behind what an operation returns *)

(* Whom the goroutine of s waits for, and what it is there to reach *)
Awaited(s) == IF op = "StartAll" THEN deps[s] ELSE Parents(s)
Reached(s) == IF op = "StartAll" THEN started[s] ELSE stopped[s]

(* Somebody s waits for has failed. *)
LetDown(s) == \E d \in Awaited(s) : Failed(d) /\ ~Reached(d)

(* How far the goroutine of s has got with its waits and its tries *)
Advances(s) ==
  /\ pc[s] # "idle" => Awaited(s) \subseteq services
  /\ pc[s] \in {"deps", "await"} => pending[s] \subseteq Awaited(s)
  /\ pc[s] = "await" => awaiting[s] \in Awaited(s)
  /\ pc[s] \in {"call", "backoff"} => attempts[s] >= 1
  /\ pc[s] = "backoff" => attempts[s] < MaxRetries[s]

(* What it has been told, and what it has said when it ends *)
Reports(s) ==
  /\ pc[s] = "await" /\ unread[s] > 0 =>
       Failed(awaiting[s]) /\ ~Reached(awaiting[s])
  /\ pc[s] = "depFailed" => LetDown(s)
  /\ Failed(s) => pc[s] = "idle" /\ s \in services
  /\ <<s, "DependencyUnavailable">> \in errC =>
       op = "StartAll" /\ ~Reached(s) /\ LetDown(s)
  /\ <<s, "ParentUnavailable">> \in errC =>
       op = "StopAll" /\ ~Reached(s) /\ LetDown(s)
  /\ s \in services /\ pc[s] = "idle" /\ op \in {"StartAll", "StopAll"} =>
       Reached(s) \/ Failed(s)

OneErrorEach == \A e, f \in errC : e[1] = f[1] => e = f

(* An operation that was refused has no goroutine, and says why it was.    *)
RefusalIsFinal ==
  /\ op = "StartAll" /\ ErrCFits
  /\ \A s \in Services : pc[s] = "idle"
  /\ errC \subseteq Services \X {"DependencyMissing", "DependencyCircular"}

(* An operation that was not refused tells at most one error of a service, *)
(* when its goroutine ends, and the waits of the others are told the truth.*)
OutcomeInductive ==
  /\ op = "none" => errC = {}
  /\ \A s \in Services : Advances(s)
  /\ GivesUpOnLastTry
  /\ Refused => RefusalIsFinal
  /\ ~Refused => OneErrorEach /\ \A s \in Services : Reports(s)

-----------------------------------------------------------------------------
(* Why operations come to an end *)

(* The goroutine of s has a step to take, unless a service is jammed. *)
Runnable(s) ==
  \/ pc[s] \in {"check", "deps", "call", "backoff", "depFailed", "callFailed"}
  \/ pc[s] = "await" /\ (unread[s] > 0 \/ closed[s])

(* It waits for one that failed in this operation, and was not told.       *)
Unheard(s) ==
  /\ pc[s] = "await" /\ unread[s] = 0 /\ ~closed[s]
  /\ Failed(awaiting[s]) /\ ~Reached(awaiting[s])

(* Goroutines never wait for each other in a circle, whatever the graph,   *)
(* not even in StopAll, which does not look for circles: some goroutine of *)
(* an operation can go on, or one waits for a failure it was not told, or  *)
(* a service is jammed (start and stop against hasCircularDeps).           *)
NoDeadlock ==
  op \in {"StartAll", "StopAll"} /\ (\E s \in Services : pc[s] # "idle") =>
    jammed # {} \/ \E s \in Services : Runnable(s) \/ Unheard(s)

(* What is started has no circle, nor has what StartAll is booting; and    *)
(* only the send on a full channel blocks for good.                        *)
StartedIsAcyclic ==
  \A C \in SUBSET Services :
    IsKnot(C, deps) /\ (\A s \in C : started[s]) => C = {}
BootIsAcyclic ==
  op = "StartAll" /\ (\E s \in Services : pc[s] # "idle") => CircularDeps = {}
StuckIsJammed == \A s \in Services : pc[s] = "stuck" => s \in jammed
ProgressInductive == StartedIsAcyclic /\ BootIsAcyclic /\ StuckIsJammed

(* The steps that the goroutine of s can still take, at most *)
WorkOfTries(s) == 2 * (Tries(s) - attempts[s])
WorkOfWaits(s) == 2 * Tries(s) + 1 + 2 * Cardinality(pending[s])
Work(s) ==
  CASE pc[s] = "check" -> 2 * Tries(s) + 2 + 2 * Cardinality(Services)
    [] pc[s] = "deps" -> WorkOfWaits(s)
    [] pc[s] = "await" -> WorkOfWaits(s) + 1
    [] pc[s] = "call" -> WorkOfTries(s) + 2
    [] pc[s] = "backoff" -> WorkOfTries(s) + 1
    [] pc[s] \in {"depFailed", "callFailed"} -> 1
    [] OTHER -> 0

(* No goroutine waits, retries or fails for ever: each of its steps leaves *)
(* less for it to do, and nobody else's step leaves more (start and stop,  *)
(* their loops over dependencies and over attempts).                       *)
WorkShrinks ==
  [][\A s \in Services :
       /\ op \in {"StartAll", "StopAll"} => Work(s)' <= Work(s)
       /\ StartRoutine(s) \/ StopRoutine(s) => Work(s)' < Work(s)]_vars

(* Every service whose goroutine has still to end can publish a failure.   *)
Roomy ==
  /\ op \in {"StartAll", "StopAll"} /\ jammed = {}
  /\ \A s \in Services : pc[s] # "idle" =>
       /\ op = "StartAll" => startedBacklog[s] < ChanCap
       /\ op = "StopAll" => stoppedBacklog[s] < ChanCap

(* The channels that nobody reads any more, but which stay in the lists,   *)
(* do no harm while they are not full: an operation that begins with room  *)
(* for one more error in each list never meets a full one, however many    *)
(* tries fail, as a goroutine publishes one failure at most, when it ends  *)
(* (Started and the failure paths of Maestro.start and Maestro.stop).      *)
RoomLasts == [][Roomy /\ op' = op => Roomy']_vars

-----------------------------------------------------------------------------
(* Liveness *)

Room == \A s \in Services : /\ startedBacklog[s] < ChanCap
                            /\ stoppedBacklog[s] < ChanCap

(* A goroutine waits on a channel that nobody will send on or close: the   *)
(* one it waits for is gone, and told it nothing.                          *)
Orphaned ==
  \E s, d \in Services :
    /\ pc[s] = "await" /\ awaiting[s] = d /\ pc[d] = "idle"
    /\ unread[s] = 0 /\ ~closed[s]

(* An operation ends, and its caller gets its channel, whatever fails and  *)
(* is cancelled, unless a goroutine is orphaned or an abandoned channel    *)
(* is full when it begins: it has no other way to hang.                    *)
OperationsReturn ==
  op \in {"StartAll", "StopAll"} /\ Room ~> op = "none" \/ Orphaned

(* What is booted gets up, and what is shut down gets down. *)
BootCompletes ==
  \A s \in Services : op = "StartAll" /\ pc[s] # "idle" ~> started[s]
ShutdownCompletes ==
  \A s \in Services : op = "StopAll" /\ pc[s] # "idle" ~> stopped[s]

(* ServiceReady hands a service out once it is started, however many boot  *)
(* failures it had to skip.                                                *)
ReadyIsServed ==
  \A w \in Watchers :
    wpc[w] = "ready" /\ started[wtarget[w]] ~> wpc[w] = "out"

(* The Maestro's lock, or that of a service, is never freed again. *)
Hangs == op = "Blocked" \/ Orphaned \/ jammed # {}

(* ServiceReady ends when its context does, even when the service never    *)
(* gets up, and although it first waits for two locks whatever the context *)
(* says: only an operation that never ends can keep it.                    *)
ReadyIsCancelled ==
  \A w \in Watchers :
    wpc[w] \in {"lookup", "subscribe", "ready"} /\ wcancelled[w]
      ~> wpc[w] = "out" \/ Hangs

-----------------------------------------------------------------------------
(* What the documentation says and the code does not do (see the README) *)

(* "StartAll is blocking: on success, the returned channel is closed [...] *)
(* on failure, one or more errors are returned, then the channel gets      *)
(* closed" (maestro.go): in either case StartAll returns.                  *)
StartAllReturns == op \in {"StartAll", "Blocked"} ~> op = "none"

=============================================================================
