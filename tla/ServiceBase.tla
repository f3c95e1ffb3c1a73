---------------------------- MODULE ServiceBase ----------------------------
(***************************************************************************)
(* ServiceBase (service.go): the part of a service that BandMaster owns.   *)
(* Every service carries two flags, started and stopped, and two lists of  *)
(* channels, startedCs and stoppedCs, through which the calls Started()    *)
(* and Stopped() tell whoever is interested how a boot or a shutdown went: *)
(* success closes a channel, a failure sends it an error.                  *)
(*                                                                         *)
(* This module defines the effect of each ServiceBase method on the state  *)
(* of the service it is called on; Maestro.tla composes them into handlers.*)
(* A method holds the service's lock from its first line to its last, so   *)
(* each is one atomic step, except a send on a full channel, which blocks  *)
(* with the lock held (`jammed').                                          *)
(*                                                                         *)
(* A channel is represented by the goroutine that reads it, its listener.  *)
(* The channels nobody reads any more, which the code never unregisters,   *)
(* are represented by one number per list: the errors unread in the        *)
(* oldest.  Nothing else about them can be observed, since an error is     *)
(* sent to every channel of a list and the oldest is the first one full.   *)
(***************************************************************************)
EXTENDS Naturals

CONSTANTS
  Services,   \* the services, each known by the name it is registered with
  Watchers,   \* user goroutines that wait for a service to be ready
  ChanCap     \* capacity of the channels: make(chan error, 32)

ASSUME ChanCapAssumption == ChanCap \in Nat \ {0}
ASSUME ListenersAssumption == Services \cap Watchers = {}

Listeners == Services \cup Watchers   \* a service stands for its goroutine

VARIABLES
  started,         \* ServiceBase.started
  stopped,         \* ServiceBase.stopped
  startedCs,       \* listeners whose channel is in ServiceBase.startedCs
  stoppedCs,       \* listeners whose channel is in ServiceBase.stoppedCs
  startedBacklog,  \* errors unread in the oldest channel left in startedCs
  stoppedBacklog,  \* errors unread in the oldest channel left in stoppedCs
  unread,          \* errors waiting in the channel of each listener
  closed,          \* is the channel of each listener closed?
  jammed           \* services whose lock is held by a blocked send

flagVars == <<started, stopped>>
chanVars == <<startedCs, stoppedCs, unread, closed>>
backlogVars == <<startedBacklog, stoppedBacklog>>
baseVars == <<flagVars, chanVars, backlogVars, jammed>>

BaseTypeOK ==
  /\ started \in [Services -> BOOLEAN]
  /\ stopped \in [Services -> BOOLEAN]
  /\ startedCs \in [Services -> SUBSET Listeners]
  /\ stoppedCs \in [Services -> SUBSET Listeners]
  /\ startedBacklog \in [Services -> 0..ChanCap]
  /\ stoppedBacklog \in [Services -> 0..ChanCap]
  /\ unread \in [Listeners -> Nat]
  /\ closed \in [Listeners -> BOOLEAN]
  /\ jammed \in SUBSET Services

(* NewServiceBase: a new service is stopped. *)
BaseInit ==
  /\ started = [s \in Services |-> FALSE]
  /\ stopped = [s \in Services |-> TRUE]
  /\ startedCs = [s \in Services |-> {}]
  /\ stoppedCs = [s \in Services |-> {}]
  /\ startedBacklog = [s \in Services |-> 0]
  /\ stoppedBacklog = [s \in Services |-> 0]
  /\ unread = [l \in Listeners |-> 0]
  /\ closed = [l \in Listeners |-> FALSE]
  /\ jammed = {}

-----------------------------------------------------------------------------
(* Sending an error on, or closing, the channels of a set of listeners. *)

Push(ls) == unread' = [l \in Listeners |-> IF l \in ls THEN unread[l] + 1
                                                       ELSE unread[l]]
Close(ls) == closed' = [l \in Listeners |-> l \in ls \/ closed[l]]

(* A registered reader that can still take one more error; on a full list  *)
(* only those registered before the oldest channel are reached.            *)
HasRoom(ls) == {l \in ls : unread[l] < ChanCap}

(* Mutant of Started: a failure of the past is sent to the new channel. *)
StartedReplay(l, s) ==
  /\ s \notin jammed
  /\ unread' = [unread EXCEPT ![l] = IF startedBacklog[s] > 0 THEN 1 ELSE 0]
  /\ closed' = [closed EXCEPT ![l] = started[s]]
  /\ startedCs' = [startedCs EXCEPT
                     ![s] = IF started[s] THEN @ ELSE @ \cup {l}]
  /\ UNCHANGED <<flagVars, stoppedCs, backlogVars, jammed>>

(* Mutant of Started: whether the service is started is not looked at. *)
StartedUnchecked(l, s) ==
  /\ s \notin jammed
  /\ unread' = [unread EXCEPT ![l] = 0]
  /\ closed' = [closed EXCEPT ![l] = FALSE]
  /\ startedCs' = [startedCs EXCEPT ![s] = @ \cup {l}]
  /\ UNCHANGED <<flagVars, stoppedCs, backlogVars, jammed>>

(***************************************************************************)
(* The calls Started() and Stopped() by listener l: a new channel, closed  *)
(* already when the service is in the state asked for, registered          *)
(* otherwise.  An error of the past is not replayed.                       *)
(***************************************************************************)
Started(l, s) ==
  /\ s \notin jammed
  /\ unread' = [unread EXCEPT ![l] = 0]
  /\ closed' = [closed EXCEPT ![l] = started[s]]
  /\ startedCs' = [startedCs EXCEPT
                     ![s] = IF started[s] THEN @ ELSE @ \cup {l}]
  /\ UNCHANGED <<flagVars, stoppedCs, backlogVars, jammed>>

Stopped(l, s) ==
  /\ s \notin jammed
  /\ unread' = [unread EXCEPT ![l] = 0]
  /\ closed' = [closed EXCEPT ![l] = stopped[s]]
  /\ stoppedCs' = [stoppedCs EXCEPT
                     ![s] = IF stopped[s] THEN @ ELSE @ \cup {l}]
  /\ UNCHANGED <<flagVars, startedCs, backlogVars, jammed>>

(* Listener l drops the channel it holds: it will not read it again. *)
Abandon(l) ==
  /\ unread' = [unread EXCEPT ![l] = 0]
  /\ closed' = [closed EXCEPT ![l] = FALSE]
  /\ startedCs' = [s \in Services |-> startedCs[s] \ {l}]
  /\ stoppedCs' = [s \in Services |-> stoppedCs[s] \ {l}]
  /\ UNCHANGED <<flagVars, backlogVars, jammed>>

(***************************************************************************)
(* start(err): the failure is sent to every registered channel, the ones   *)
(* nobody reads included.  When one of those is full the send never        *)
(* returns and the lock stays taken.                                       *)
(***************************************************************************)
BaseStartErr(s) ==
  /\ s \notin jammed
  /\ started' = [started EXCEPT ![s] = FALSE]
  /\ stopped' = [stopped EXCEPT ![s] = TRUE]
  /\ \/ /\ startedBacklog[s] < ChanCap
        /\ startedBacklog' = [startedBacklog EXCEPT ![s] = @ + 1]
        /\ Push(startedCs[s])
        /\ UNCHANGED jammed
     \/ /\ startedBacklog[s] = ChanCap
        /\ \E ls \in SUBSET HasRoom(startedCs[s] \cap Watchers) : Push(ls)
        /\ jammed' = jammed \cup {s}
        /\ UNCHANGED startedBacklog
  /\ UNCHANGED <<startedCs, stoppedCs, stoppedBacklog, closed>>

(* Mutant of BaseStartNil: the channels are forgotten, not closed. *)
BaseStartNilMute(s) ==
  /\ s \notin jammed
  /\ started' = [started EXCEPT ![s] = TRUE]
  /\ stopped' = [stopped EXCEPT ![s] = FALSE]
  /\ startedCs' = [startedCs EXCEPT ![s] = {}]
  /\ startedBacklog' = [startedBacklog EXCEPT ![s] = 0]
  /\ UNCHANGED <<stoppedCs, stoppedBacklog, unread, closed, jammed>>

(* start(nil) *)
BaseStartNil(s) ==
  /\ s \notin jammed
  /\ started' = [started EXCEPT ![s] = TRUE]
  /\ stopped' = [stopped EXCEPT ![s] = FALSE]
  /\ Close(startedCs[s])
  /\ startedCs' = [startedCs EXCEPT ![s] = {}]
  /\ startedBacklog' = [startedBacklog EXCEPT ![s] = 0]
  /\ UNCHANGED <<stoppedCs, stoppedBacklog, unread, jammed>>

(* stop(err): unlike start(err) it leaves the opposite flag alone. *)
BaseStopErr(s) ==
  /\ s \notin jammed
  /\ stopped' = [stopped EXCEPT ![s] = FALSE]
  /\ \/ /\ stoppedBacklog[s] < ChanCap
        /\ stoppedBacklog' = [stoppedBacklog EXCEPT ![s] = @ + 1]
        /\ Push(stoppedCs[s])
        /\ UNCHANGED jammed
     \/ /\ stoppedBacklog[s] = ChanCap
        /\ \E ls \in SUBSET HasRoom(stoppedCs[s] \cap Watchers) : Push(ls)
        /\ jammed' = jammed \cup {s}
        /\ UNCHANGED stoppedBacklog
  /\ UNCHANGED <<started, startedCs, stoppedCs, startedBacklog, closed>>

(* Mutant of BaseStopNil: the channels are forgotten, not closed. *)
BaseStopNilMute(s) ==
  /\ s \notin jammed
  /\ stopped' = [stopped EXCEPT ![s] = TRUE]
  /\ started' = [started EXCEPT ![s] = FALSE]
  /\ stoppedCs' = [stoppedCs EXCEPT ![s] = {}]
  /\ stoppedBacklog' = [stoppedBacklog EXCEPT ![s] = 0]
  /\ UNCHANGED <<startedCs, startedBacklog, unread, closed, jammed>>

(* stop(nil) *)
BaseStopNil(s) ==
  /\ s \notin jammed
  /\ stopped' = [stopped EXCEPT ![s] = TRUE]
  /\ started' = [started EXCEPT ![s] = FALSE]
  /\ Close(stoppedCs[s])
  /\ stoppedCs' = [stoppedCs EXCEPT ![s] = {}]
  /\ stoppedBacklog' = [stoppedBacklog EXCEPT ![s] = 0]
  /\ UNCHANGED <<startedCs, startedBacklog, unread, jammed>>

=============================================================================
