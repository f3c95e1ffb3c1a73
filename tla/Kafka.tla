------------------------------- MODULE Kafka -------------------------------
(***************************************************************************)
(* The Kafka service (services/kafka): Start and Stop of its consumer and  *)
(* producer, the goroutines that watch their events (helpers.go), and the  *)
(* users that wait for these to say what has become of their messages.     *)
(*                                                                         *)
(* The Maestro calls Start while the service is not started and Stop while *)
(* it is.  The goroutines run on beside both: they read the fields s.c and *)
(* s.p again at every turn of their loop, while Start and Stop write them. *)
(* Sarama is external: a Close that returns an error has closed the client *)
(* or has not, one that succeeds has, and with it the channels of events.  *)
(***************************************************************************)

CONSTANTS
  Senders,    \* users that send one message each, with a channel as Metadata
  Buffered,   \* those whose channel has room for an error
  Configs     \* the configurations a service may be given

(* The goroutines of helpers.go, by the channel they read *)
ConsumerRoutines == {"Notifications", "ConsumerErrors"}
ProducerRoutines == {"ProducerErrors", "Successes"}
Routines == ConsumerRoutines \cup ProducerRoutines

(* Are a consumer group and topics configured, and which Return options    *)
Configurations == [consumer : BOOLEAN, options : SUBSET Routines]

ASSUME ConfigsAssumption == Configs \subseteq Configurations
ASSUME BufferedAssumption == Buffered \subseteq Senders

VARIABLES
  up,         \* what the Maestro knows: is the service started?
  call,       \* how far the running call of Start or Stop is
  consumer,   \* Service.c
  producer,   \* Service.p
  ctxDone,    \* has Service.ctx been cancelled?
  conf,       \* Service.conf
  watch,      \* the calls of WatchConsumerEvents and WatchProducerEvents
  rpc,        \* where the goroutines that they start are
  sender,     \* what each user does
  event       \* where its message is: at Kafka, in a channel of s.p, ...

callVars == <<up, call, consumer, producer, ctxDone>>
watchVars == <<watch, rpc>>
userVars == <<conf, sender, event>>
vars == <<callVars, watchVars, userVars>>

Watches == {"consumer", "producer"}

KafkaTypeOK ==
  /\ up \in BOOLEAN
  /\ call \in {"none", "startProducer", "closeConsumer", "dropConsumer",
               "closeProducer"}
  /\ consumer \in {"nil", "open", "closed"}
  /\ producer \in {"nil", "open", "closed"}
  /\ ctxDone \in BOOLEAN
  /\ watch \in [Watches -> {"none", "waiting", "told", "returned"}]
  /\ rpc \in [Routines -> {"off", "turn", "select", "drained", "sending",
                           "gone", "crashed"}]
  /\ conf \in Configs
  /\ sender \in [Senders -> {"idle", "waiting", "told", "gone"}]
  /\ event \in [Senders ->
                 ProducerRoutines \cup {"none", "sent", "taken", "over"}]

Init ==
  /\ up = FALSE
  /\ call = "none"
  /\ consumer = "nil"
  /\ producer = "nil"
  /\ ctxDone = FALSE
  /\ watch = [w \in Watches |-> "none"]
  /\ rpc = [r \in Routines |-> "off"]
  /\ conf \in Configs
  /\ sender = [s \in Senders |-> "idle"]
  /\ event = [s \in Senders |-> "none"]

(* A nil dereference ends the whole program. *)
Alive == \A r \in Routines : rpc[r] # "crashed"
At(c) == Alive /\ call = c

-----------------------------------------------------------------------------
(* Start *)

(* Started() of those that wait is closed, or handed the error. *)
Tell(w) ==
  watch' = [x \in Watches |-> IF watch[x] = "waiting" THEN w ELSE watch[x]]

(* A failed try is published if it was the last one. *)
FailStart ==
  /\ call' = "none"
  /\ Tell("returned") \/ UNCHANGED watch
  /\ UNCHANGED <<up, ctxDone, rpc, userVars>>

(* Mutant of StartConsumer: `if s.p == nil' stands around both clients. *)
StartConsumerWithProducer ==
  /\ ~up /\ At("none")
  /\ consumer' = IF conf.consumer /\ producer = "nil" THEN "open" ELSE consumer
  /\ call' = "startProducer"
  /\ UNCHANGED <<up, producer, ctxDone, watchVars, userVars>>

StartConsumer ==
  /\ ~up /\ At("none")
  /\ \/ /\ FailStart
        /\ UNCHANGED <<consumer, producer>>
     \/ /\ consumer' = IF conf.consumer /\ consumer = "nil" THEN "open"
                       ELSE consumer
        /\ call' = "startProducer"
        /\ UNCHANGED <<up, producer, ctxDone, watchVars, userVars>>

StartProducer ==
  /\ At("startProducer")
  /\ \/ producer = "nil" /\ FailStart /\ UNCHANGED <<consumer, producer>>
     \/ /\ producer' = IF producer = "nil" THEN "open" ELSE producer
        /\ up' = TRUE
        /\ call' = "none"
        /\ Tell("told")
        /\ UNCHANGED <<consumer, ctxDone, rpc, userVars>>

-----------------------------------------------------------------------------
(* Stop *)

StopCancel ==
  /\ up /\ At("none")
  /\ ctxDone' = TRUE
  /\ call' = "closeConsumer"
  /\ UNCHANGED <<up, consumer, producer, watchVars, userVars>>

(* The channels of a client that is closed are: their readers wake up. *)
Drain(rs) ==
  rpc' = [r \in Routines |-> IF r \in rs /\ rpc[r] = "select" THEN "drained"
                                                            ELSE rpc[r]]

(* An error ends Stop, and leaves the service started: here with the       *)
(* client as it was.                                                       *)
FailStop == call' = "none" /\ UNCHANGED <<consumer, producer, rpc>>

(* Mutant of CloseConsumer: it is dropped without being closed. *)
CloseConsumerNot ==
  /\ At("closeConsumer")
  /\ call' = "dropConsumer"
  /\ UNCHANGED <<up, consumer, producer, ctxDone, watchVars, userVars>>

CloseConsumer ==
  /\ At("closeConsumer")
  /\ \/ /\ consumer = "nil"
        /\ call' = "closeProducer"
        /\ UNCHANGED <<consumer, producer, rpc>>
     \/ consumer # "nil" /\ FailStop
     \/ /\ consumer # "nil"
        /\ consumer' = "closed"
        /\ Drain(ConsumerRoutines)
        /\ call' \in {"dropConsumer", "none"}
        /\ UNCHANGED producer
  /\ UNCHANGED <<up, ctxDone, watch, userVars>>

DropConsumer ==
  /\ At("dropConsumer")
  /\ consumer' = "nil"
  /\ call' = "closeProducer"
  /\ UNCHANGED <<up, producer, ctxDone, watchVars, userVars>>

(* Close takes the events that nobody has taken, and drops them. *)
Flush ==
  event' = [s \in Senders |-> IF event[s] \in {"none", "taken"} THEN event[s]
                                                              ELSE "over"]

(* Once the producer is closed it is s.c that is set to nil; with an error *)
(* the service stays started, with a producer that is closed.              *)
CloseProducer ==
  /\ At("closeProducer")
  /\ \/ FailStop /\ UNCHANGED <<up, event>>
     \/ /\ producer' = "closed"
        /\ Drain(ProducerRoutines)
        /\ Flush
        /\ call' = "none"
        /\ \/ consumer' = "nil" /\ up' = FALSE
           \/ UNCHANGED <<consumer, up>>
  /\ UNCHANGED <<ctxDone, watch, conf, sender>>

-----------------------------------------------------------------------------
(* WatchConsumerEvents, WatchProducerEvents: called once each              *)

RoutinesOf(w) == IF w = "consumer" THEN ConsumerRoutines ELSE ProducerRoutines

(* Mutant of Watch: it does not wait for the service. *)
WatchAtOnce(w) ==
  /\ Alive /\ watch[w] = "none"
  /\ watch' = [watch EXCEPT ![w] = "told"]
  /\ UNCHANGED <<callVars, rpc, userVars>>

(* <-ss.Started(), whatever the context says *)
Watch(w) ==
  /\ Alive /\ watch[w] = "none"
  /\ watch' = [watch EXCEPT ![w] = IF up THEN "told" ELSE "waiting"]
  /\ UNCHANGED <<callVars, rpc, userVars>>

(* Whether there is a consumer is not looked at. *)
Spawn(w) ==
  /\ Alive /\ watch[w] = "told"
  /\ watch' = [watch EXCEPT ![w] = "returned"]
  /\ rpc' = [r \in Routines |-> IF r \in RoutinesOf(w) \cap conf.options
                                THEN "turn" ELSE rpc[r]]
  /\ UNCHANGED <<callVars, userVars>>

Go(r, l) ==
  /\ Alive
  /\ rpc' = [rpc EXCEPT ![r] = l]
  /\ UNCHANGED <<callVars, watch, conf>>

Client(r) == IF r \in ConsumerRoutines THEN consumer ELSE producer

(* The operands of the select are evaluated: ss.ctx.Done() and the channel *)
(* of the client, whose pointer is followed.                               *)
Turn(r) ==
  /\ rpc[r] = "turn"
  /\ \/ Client(r) = "nil" /\ Go(r, "crashed")
     \/ Client(r) = "open" /\ Go(r, "select")
     \/ Client(r) = "closed" /\ Go(r, "drained")
  /\ UNCHANGED <<sender, event>>

(* An event that is nobody's is logged. *)
Handle(r) == rpc[r] = "select" /\ Go(r, "turn") /\ UNCHANGED <<sender, event>>

(* The message of s failed, which it is about to be told. *)
Take(s) ==
  /\ rpc["ProducerErrors"] = "select" /\ event[s] = "ProducerErrors"
  /\ Go("ProducerErrors", "sending")
  /\ event' = [event EXCEPT ![s] = "taken"]
  /\ UNCHANGED sender

Answer(s) ==
  /\ sender' = [sender EXCEPT ![s] = IF @ = "waiting" THEN "told" ELSE @]
  /\ event' = [event EXCEPT ![s] = "over"]

(* Mutant of TellError: the goroutine takes one failure only. *)
ErrorOnce(s) ==
  /\ rpc["ProducerErrors"] = "sending" /\ event[s] = "taken"
  /\ sender[s] = "waiting" \/ s \in Buffered
  /\ Answer(s)
  /\ Go("ProducerErrors", "gone")

(* errC <- err.Err: somebody reads, or the channel has room. *)
TellError(s) ==
  /\ rpc["ProducerErrors"] = "sending" /\ event[s] = "taken"
  /\ sender[s] = "waiting" \/ s \in Buffered
  /\ Answer(s)
  /\ Go("ProducerErrors", "turn")

(* Mutant of TellSuccess: the channel of s is not closed. *)
TellSuccessMute(s) ==
  /\ rpc["Successes"] = "select" /\ event[s] = "Successes"
  /\ event' = [event EXCEPT ![s] = "over"]
  /\ Go("Successes", "turn")
  /\ UNCHANGED sender

(* close(errC): the message of s went through. *)
TellSuccess(s) ==
  /\ rpc["Successes"] = "select" /\ event[s] = "Successes"
  /\ Answer(s)
  /\ Go("Successes", "turn")

(* Mutant of Leave: the end of the context is not looked at. *)
LeaveDrained(r) ==
  /\ rpc[r] = "drained"
  /\ Go(r, "gone")
  /\ UNCHANGED <<sender, event>>

(* case <-ss.ctx.Done(), or !ok *)
Leave(r) ==
  /\ rpc[r] = "drained" \/ (rpc[r] = "select" /\ ctxDone)
  /\ Go(r, "gone")
  /\ UNCHANGED <<sender, event>>

-----------------------------------------------------------------------------
(* The users of Producer(s), and what Sarama makes of their messages       *)

Send(s) ==
  /\ Alive /\ sender[s] = "idle" /\ producer = "open"
  /\ sender' = [sender EXCEPT ![s] = "waiting"]
  /\ event' = [event EXCEPT ![s] = "sent"]
  /\ UNCHANGED <<callVars, watchVars, conf>>

(* The event goes to its channel if the option for it is enabled. *)
Deliver(s) ==
  /\ Alive /\ event[s] = "sent" /\ producer = "open"
  /\ \E r \in ProducerRoutines :
       event' = [event EXCEPT ![s] = IF r \in conf.options THEN r ELSE "over"]
  /\ UNCHANGED <<callVars, watchVars, conf, sender>>

GiveUp(s) ==
  /\ Alive /\ sender[s] = "waiting"
  /\ sender' = [sender EXCEPT ![s] = "gone"]
  /\ UNCHANGED <<callVars, watchVars, conf, event>>

-----------------------------------------------------------------------------
Next ==
  \/ StartConsumer \/ StartProducer
  \/ StopCancel \/ CloseConsumer \/ DropConsumer \/ CloseProducer
  \/ \E w \in Watches : Watch(w) \/ Spawn(w)
  \/ \E r \in Routines : Turn(r) \/ Handle(r) \/ Leave(r)
  \/ \E s \in Senders : Take(s) \/ TellError(s) \/ TellSuccess(s)
  \/ \E s \in Senders : Send(s) \/ Deliver(s) \/ GiveUp(s)

Spec == Init /\ [][Next]_vars

(* What a select may find ready besides an event that is nobody's          *)
Ready(r) ==
  \/ Leave(r)
  \/ \E s \in Senders : \/ r = "ProducerErrors" /\ Take(s)
                        \/ r = "Successes" /\ TellSuccess(s)

(* Goroutines run when they can, and a select does not ignore a case that  *)
(* is ready for ever (Go chooses among them at random).  Sarama delivers   *)
(* what it is given.  Nobody has to send, to wait, to start or to stop.    *)
Fairness ==
  /\ \A r \in Routines : WF_vars(Turn(r)) /\ SF_vars(Ready(r))
  /\ \A s \in Senders : WF_vars(Deliver(s)) /\ WF_vars(TellError(s))

FairSpec == Spec /\ Fairness

-----------------------------------------------------------------------------
(* A boot hands out an open consumer, after any failed start, failed stop  *)
(* or restart, and none if none is configured (Start, Consumer).           *)
BootGivesConsumer ==
  [][~up /\ up' => consumer' = IF conf.consumer THEN "open" ELSE "nil"]_vars

(* A client that is open is closed before it is forgotten (Start, Stop).   *)
NothingIsForgotten ==
  [][/\ consumer = "open" => consumer' # "nil"
     /\ producer = "open" => producer' # "nil"]_vars

(* The goroutines that watch the producer never find it nil, not even when *)
(* they outlive the service (WatchProducerEvents against Stop).            *)
ProducerIsThere == \A r \in ProducerRoutines : rpc[r] # "crashed"

(* Those that watch the consumer only do once the service has been stopped,*)
(* or if it has none at all (WatchConsumerEvents).                         *)
CrashIsExplained ==
  \A r \in ConsumerRoutines : rpc[r] = "crashed" => ctxDone \/ ~conf.consumer

(* Until the service is stopped no user who waits for an answer has been   *)
(* overlooked: with both events of the producer returned his message is    *)
(* with Sarama, in a channel, or taken by the one goroutine that is about  *)
(* to tell him, and that one holds no other (WatchProducerEvents).         *)
NoAnswerIsLost ==
  /\ ProducerRoutines \subseteq conf.options /\ ~ctxDone =>
       \A s \in Senders : sender[s] = "waiting" =>
         event[s] \in ProducerRoutines \cup {"sent", "taken"}
  /\ \A s, t \in Senders :
       event[s] = "taken" => /\ rpc["ProducerErrors"] = "sending"
                             /\ event[t] = "taken" => s = t
  /\ rpc["ProducerErrors"] = "sending" => \E s \in Senders : event[s] = "taken"

(* The inductive invariant: where a call of Start or Stop is says which    *)
(* clients there are, and whoever watches has found the service started.   *)
Watching == \/ \E w \in Watches : watch[w] = "told"
            \/ \E r \in Routines : rpc[r] # "off"

KafkaInductive ==
  /\ KafkaTypeOK /\ ProducerIsThere /\ CrashIsExplained
  /\ call = "startProducer" => ~up
  /\ call \in {"closeConsumer", "dropConsumer", "closeProducer"} =>
       up /\ ctxDone
  /\ call = "dropConsumer" => consumer = "closed"
  /\ consumer = "closed" => up /\ ctxDone
  /\ call = "closeProducer" => consumer = "nil"
  /\ ~conf.consumer => consumer = "nil"
  /\ call = "startProducer" /\ conf.consumer => consumer # "nil"
  /\ up \/ Watching => /\ producer # "nil"
                       /\ conf.consumer => consumer # "nil" \/ ctxDone

(* A user that does not read the error of its message any more, and has    *)
(* left no room for it, holds the goroutine that tells it for ever.        *)
Stuck == \E s \in Senders \ Buffered : sender[s] = "gone" /\ event[s] = "taken"

(* Once the service has been stopped, watchers end, unless a user that has *)
(* gone holds one, or the program has crashed (ss.ctx in helpers.go).      *)
WatchersEnd ==
  \A r \in Routines :
    ctxDone /\ rpc[r] # "off" ~> rpc[r] = "gone" \/ Stuck \/ ~Alive

(* While both events of the producer are watched every user is told what   *)
(* has become of its message, also after others have given up, but for one *)
(* that holds the goroutine (WatchProducerEvents).                         *)
SenderIsAnswered ==
  \A s \in Senders :
    sender[s] = "waiting" /\ (\A r \in ProducerRoutines : rpc[r] # "off")
      ~> sender[s] # "waiting" \/ ctxDone \/ Stuck \/ ~Alive

(* "idempotency & restart support" (Stop, services/kafka/service.go): a    *)
(* boot hands out an open producer, also after a stop.                     *)
BootGivesProducer == [][~up /\ up' => producer' = "open"]_vars

(* "It provides a fully tested & thread-safe package" (README.md): stopping*)
(* a service does not crash the goroutines that watch it.                  *)
ConsumerIsThere ==
  conf.consumer => \A r \in ConsumerRoutines : rpc[r] # "crashed"
=============================================================================
