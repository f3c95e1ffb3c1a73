---------------------------- MODULE KafkaProofs ----------------------------
(* Proofs about Kafka, for any users and configurations. *)
EXTENDS Kafka, TLAPS

LEMMA InitHolds == Init => KafkaInductive
<1> SUFFICES ASSUME Init PROVE KafkaInductive  OBVIOUS
<1>1. KafkaTypeOK  BY DEF Init, KafkaTypeOK
<1>2. ProducerIsThere /\ CrashIsExplained /\ ~Watching
  BY DEF Init, ProducerIsThere, CrashIsExplained, Watching, Routines,
         ConsumerRoutines, ProducerRoutines
<1>3. QED  BY <1>1, <1>2 DEF Init, KafkaInductive

LEMMA ConfigTyped ==
  ASSUME conf \in Configs
  PROVE  conf.consumer \in BOOLEAN /\ conf.options \subseteq Routines
  BY ConfigsAssumption DEF Configurations

-----------------------------------------------------------------------------
(* Start *)

LEMMA StartHolds ==
  ASSUME KafkaInductive, StartConsumer \/ StartProducer
  PROVE  KafkaInductive'
<1> USE DEF KafkaInductive, KafkaTypeOK, ProducerIsThere, CrashIsExplained,
            At, userVars, watchVars
<1>1. conf.consumer \in BOOLEAN  BY ConfigTyped
<1>2. CASE StartConsumer /\ FailStart
  BY <1>1, <1>2 DEF StartConsumer, FailStart, Tell, Watching
<1>3. CASE StartConsumer /\ call' = "startProducer"
  BY <1>1, <1>3 DEF StartConsumer, FailStart, Watching
<1>4. CASE StartProducer /\ FailStart
  BY <1>1, <1>4 DEF StartProducer, FailStart, Tell, Watching
<1>5. CASE StartProducer /\ up' = TRUE
  <2>1. /\ call = "startProducer" /\ call' = "none" /\ Tell("told")
        /\ producer' = IF producer = "nil" THEN "open" ELSE producer
        /\ UNCHANGED <<consumer, ctxDone, rpc, userVars>>
    BY <1>5 DEF StartProducer, FailStart
  <2>2. watch' \in [Watches -> {"none", "waiting", "told", "returned"}]
    BY <2>1 DEF Tell
  <2>3. QED  BY <1>1, <1>5, <2>1, <2>2
<1>6. QED  BY <1>2, <1>3, <1>4, <1>5 DEF StartConsumer, StartProducer

-----------------------------------------------------------------------------
(* Stop *)

LEMMA StopHolds ==
  ASSUME KafkaInductive,
         StopCancel \/ CloseConsumer \/ DropConsumer \/ CloseProducer
  PROVE  KafkaInductive'
<1> USE DEF KafkaInductive, KafkaTypeOK, ProducerIsThere, CrashIsExplained,
            At, userVars, watchVars
<1>1. conf.consumer \in BOOLEAN  BY ConfigTyped
<1>2. ASSUME NEW rs \in {ConsumerRoutines, ProducerRoutines}, Drain(rs)
      PROVE  /\ rpc' \in [Routines -> {"off", "turn", "select", "drained",
                                       "sending", "gone", "crashed"}]
             /\ \A r \in Routines :
                  /\ rpc'[r] = "crashed" <=> rpc[r] = "crashed"
                  /\ rpc'[r] # "off" <=> rpc[r] # "off"
  BY <1>2 DEF Drain
<1>3. Routines = ConsumerRoutines \cup ProducerRoutines  BY DEF Routines
<1>4. CASE StopCancel  BY <1>1, <1>4 DEF StopCancel, Watching
<1>5. CASE CloseConsumer
  <2>1. CASE call' = "closeProducer" /\ UNCHANGED rpc
    BY <1>1, <1>5, <2>1 DEF CloseConsumer, FailStop, Watching
  <2>2. CASE FailStop
    BY <1>1, <1>5, <2>2 DEF CloseConsumer, FailStop, Watching
  <2>3. CASE /\ consumer' = "closed" /\ Drain(ConsumerRoutines)
             /\ call' \in {"dropConsumer", "none"}
    <3>1. \A r \in Routines : /\ rpc'[r] = "crashed" <=> rpc[r] = "crashed"
                              /\ rpc'[r] # "off" <=> rpc[r] # "off"
      BY <1>2, <2>3
    <3>2. /\ consumer # "nil" /\ consumer' = "closed" /\ call = "closeConsumer"
          /\ UNCHANGED <<producer, up, ctxDone, watch, userVars>>
      BY <1>5, <2>3 DEF CloseConsumer, FailStop
    <3>3. Watching' <=> Watching  BY <3>1, <3>2 DEF Watching
    <3>4. rpc' \in [Routines -> {"off", "turn", "select", "drained",
                                  "sending", "gone", "crashed"}]
      BY <1>2, <2>3
    <3>5. ProducerIsThere' /\ CrashIsExplained'
      BY <1>3, <3>1, <3>2
    <3>6. call' \in {"dropConsumer", "none"}  BY <2>3
    <3>7. QED  BY ONLY <1>1, <3>2, <3>3, <3>4, <3>5, <3>6, KafkaInductive
  <2>4. QED  BY <1>5, <2>1, <2>2, <2>3 DEF CloseConsumer
<1>6. CASE DropConsumer  BY <1>1, <1>6 DEF DropConsumer, Watching
<1>7. CASE CloseProducer
  <2>1. CASE FailStop /\ UNCHANGED <<up, event>>
    BY <1>1, <1>7, <2>1 DEF CloseProducer, FailStop, Watching
  <2>2. CASE /\ producer' = "closed" /\ call' = "none"
             /\ Drain(ProducerRoutines) /\ Flush
             /\ \/ consumer' = "nil" /\ up' = FALSE
                \/ UNCHANGED <<consumer, up>>
    <3>1. \A r \in Routines : /\ rpc'[r] = "crashed" <=> rpc[r] = "crashed"
                              /\ rpc'[r] # "off" <=> rpc[r] # "off"
      BY <1>2, <2>2
    <3>2. /\ consumer' = "nil" /\ call' = "none" /\ up' \in BOOLEAN
          /\ call = "closeProducer" /\ up /\ ctxDone
          /\ UNCHANGED <<ctxDone, watch, conf, sender>>
      BY <1>7, <2>2 DEF CloseProducer
    <3>3. Watching' <=> Watching  BY <3>1, <3>2 DEF Watching
    <3>4. event' \in [Senders -> ProducerRoutines
                                    \cup {"none", "sent", "taken", "over"}]
      BY <2>2 DEF Flush
    <3>5. rpc' \in [Routines -> {"off", "turn", "select", "drained",
                                  "sending", "gone", "crashed"}]
      BY <1>2, <2>2
    <3>6. QED  BY <1>1, <1>3, <2>2, <3>1, <3>2, <3>3, <3>4, <3>5
  <2>3. QED  BY <1>7, <2>1, <2>2 DEF CloseProducer
<1>8. QED  BY <1>4, <1>5, <1>6, <1>7

-----------------------------------------------------------------------------
(* The goroutines, and the users *)

LEMMA WatchHolds ==
  ASSUME KafkaInductive, NEW w \in Watches, Watch(w) \/ Spawn(w)
  PROVE  KafkaInductive'
<1> USE DEF KafkaInductive, KafkaTypeOK, callVars, userVars
<1>1. conf.consumer \in BOOLEAN  BY ConfigTyped
<1>2. CASE Watch(w)
  <2>1. up' \/ Watching' => up \/ Watching  BY <1>2 DEF Watch, Watching
  <2>2. QED
    BY <1>1, <1>2, <2>1 DEF Watch, ProducerIsThere, CrashIsExplained
<1>3. CASE Spawn(w)
  <2>1. up' \/ Watching' => up \/ Watching  BY <1>3 DEF Spawn, Watching
  <2>2. \A r \in Routines : rpc'[r] = "crashed" => rpc[r] = "crashed"
    BY <1>3 DEF Spawn
  <2>3. QED
    BY <1>1, <1>3, <2>1, <2>2
       DEF Spawn, ProducerIsThere, CrashIsExplained, Routines
<1>4. QED  BY <1>2, <1>3

(* A goroutine goes on, and only crashes for the lack of its client. *)
LEMMA RoutineStep ==
  ASSUME KafkaInductive, NEW r \in Routines,
         rpc[r] # "off",
         NEW l \in {"turn", "select", "drained", "sending", "gone", "crashed"},
         Go(r, l),
         l = "crashed" => Client(r) = "nil",
         sender' \in [Senders -> {"idle", "waiting", "told", "gone"}],
         event' \in [Senders ->
                       ProducerRoutines \cup {"none", "sent", "taken", "over"}]
  PROVE  KafkaInductive'
<1> USE DEF KafkaInductive, KafkaTypeOK, Go, callVars
<1>1. conf.consumer \in BOOLEAN  BY ConfigTyped
<1>2. Watching' => Watching  BY DEF Watching
<1>3. Watching  BY DEF Watching
<1>4. ProducerIsThere' /\ CrashIsExplained'
  BY <1>1, <1>3
     DEF ProducerIsThere, CrashIsExplained, Client, Routines,
         ConsumerRoutines, ProducerRoutines
<1>5. QED  BY <1>1, <1>2, <1>3, <1>4

LEMMA RoutineHolds ==
  ASSUME KafkaInductive, NEW r \in Routines, Turn(r) \/ Handle(r) \/ Leave(r)
  PROVE  KafkaInductive'
<1> USE DEF KafkaInductive, KafkaTypeOK
<1>1. CASE Turn(r)  BY <1>1, RoutineStep DEF Turn
<1>2. CASE Handle(r)  BY <1>2, RoutineStep DEF Handle
<1>3. CASE Leave(r)  BY <1>3, RoutineStep DEF Leave
<1>4. QED  BY <1>1, <1>2, <1>3

LEMMA AnswerHolds ==
  ASSUME KafkaInductive, NEW s \in Senders,
         Take(s) \/ TellError(s) \/ TellSuccess(s)
  PROVE  KafkaInductive'
<1> USE DEF KafkaInductive, KafkaTypeOK, Routines, ProducerRoutines, Answer
<1>1. CASE Take(s)  BY <1>1, RoutineStep DEF Take
<1>2. CASE TellError(s)  BY <1>2, RoutineStep DEF TellError
<1>3. CASE TellSuccess(s)  BY <1>3, RoutineStep DEF TellSuccess
<1>4. QED  BY <1>1, <1>2, <1>3

LEMMA UserHolds ==
  ASSUME KafkaInductive, NEW s \in Senders,
         Send(s) \/ Deliver(s) \/ GiveUp(s)
  PROVE  KafkaInductive'
<1> USE DEF KafkaInductive, KafkaTypeOK
<1>1. /\ sender' \in [Senders -> {"idle", "waiting", "told", "gone"}]
      /\ event' \in [Senders ->
                       ProducerRoutines \cup {"none", "sent", "taken", "over"}]
  BY DEF Send, Deliver, GiveUp
<1>2. UNCHANGED <<callVars, watchVars, conf>>  BY DEF Send, Deliver, GiveUp
<1>3. conf.consumer \in BOOLEAN  BY ConfigTyped
<1>4. QED
  BY <1>1, <1>2, <1>3
     DEF callVars, watchVars, Watching, ProducerIsThere, CrashIsExplained

-----------------------------------------------------------------------------
(* The theorems *)

(* Where Start and Stop are says which clients there are, and whoever      *)
(* watches them has found the service started.                             *)
THEOREM KafkaHolds == Spec => []KafkaInductive
<1>1. KafkaInductive /\ [Next]_vars => KafkaInductive'
  <2> SUFFICES ASSUME KafkaInductive, [Next]_vars PROVE KafkaInductive'
    OBVIOUS
  <2>1. CASE UNCHANGED vars
    BY <2>1, ConfigTyped
       DEF KafkaInductive, KafkaTypeOK, ProducerIsThere, CrashIsExplained,
           Watching, vars, callVars, watchVars, userVars
  <2>2. QED
    BY <2>1, StartHolds, StopHolds, WatchHolds, RoutineHolds, AnswerHolds,
       UserHolds DEF Next
<1>2. QED  BY InitHolds, <1>1, PTL DEF Spec

(* No goroutine that watches the producer ever finds it nil. *)
THEOREM ProducersAreThere == Spec => []ProducerIsThere
<1>1. KafkaInductive => ProducerIsThere  BY DEF KafkaInductive
<1>2. QED  BY <1>1, KafkaHolds, PTL

(* One that watches the consumer finds it nil after a stop, or if there    *)
(* never is one.                                                           *)
THEOREM CrashesAreExplained == Spec => []CrashIsExplained
<1>1. KafkaInductive => CrashIsExplained  BY DEF KafkaInductive
<1>2. QED  BY <1>1, KafkaHolds, PTL

(* Every boot hands out an open consumer, or none if none is configured.   *)
THEOREM BootsGiveConsumers == Spec => BootGivesConsumer
<1> DEFINE Gives ==
      ~up /\ up' => consumer' = IF conf.consumer THEN "open" ELSE "nil"
<1>1. KafkaInductive /\ [Next]_vars => [Gives]_vars
  <2> SUFFICES ASSUME KafkaInductive, Next, ~up, up'
               PROVE  consumer' = IF conf.consumer THEN "open" ELSE "nil"
    OBVIOUS
  <2>1. StartProducer
    BY DEF Next, StartConsumer, FailStart, StopCancel, CloseConsumer,
           DropConsumer, CloseProducer, FailStop, Watch, Spawn, Turn, Handle,
           Leave, Go, Take, TellError, TellSuccess, Send, Deliver, GiveUp,
           callVars
  <2>2. consumer' = consumer /\ call = "startProducer"
    BY <2>1 DEF StartProducer, FailStart, At
  <2>3. QED  BY <2>2, ConfigTyped DEF KafkaInductive, KafkaTypeOK
<1>2. QED  BY <1>1, KafkaHolds, PTL DEF Spec, BootGivesConsumer

(* Start and Stop close the clients they forget. *)
THEOREM NoClientIsForgotten == Spec => NothingIsForgotten
<1> DEFINE Closes == /\ consumer = "open" => consumer' # "nil"
                     /\ producer = "open" => producer' # "nil"
<1>1. KafkaInductive /\ [Next]_vars => [Closes]_vars
  <2> SUFFICES ASSUME KafkaInductive, Next PROVE Closes
    OBVIOUS
  <2>1. CASE StartConsumer \/ StartProducer
    BY <2>1 DEF StartConsumer, StartProducer, FailStart
  <2>2. CASE StopCancel \/ CloseConsumer \/ DropConsumer \/ CloseProducer
    BY <2>2 DEF StopCancel, CloseConsumer, DropConsumer, CloseProducer,
                FailStop, KafkaInductive, At
  <2>3. CASE UNCHANGED callVars  BY <2>3 DEF callVars
  <2>4. QED
    BY <2>1, <2>2, <2>3
       DEF Next, Watch, Spawn, Turn, Handle, Leave, Go, Take, TellError,
           TellSuccess, Send, Deliver, GiveUp
<1>2. QED  BY <1>1, KafkaHolds, PTL DEF Spec, NothingIsForgotten

-----------------------------------------------------------------------------
(* No answer is lost *)

(* The goroutines of a call are started when it returns, and only then. *)
SpawnedOnce ==
  \A w \in Watches : watch[w] # "returned" =>
    \A r \in RoutinesOf(w) : rpc[r] = "off"

LEMMA SpawnedHolds == Spec => []SpawnedOnce
<1> USE DEF SpawnedOnce, RoutinesOf, Watches, Routines, ConsumerRoutines,
            ProducerRoutines, callVars, watchVars, userVars
<1>1. Init => SpawnedOnce  BY DEF Init
<1>2. KafkaInductive /\ SpawnedOnce /\ [Next]_vars => SpawnedOnce'
  <2> SUFFICES ASSUME KafkaInductive, SpawnedOnce, [Next]_vars
               PROVE  SpawnedOnce'
    OBVIOUS
  <2> USE DEF KafkaInductive, KafkaTypeOK
  <2>1. CASE UNCHANGED watchVars  BY <2>1
  <2>2. CASE StartConsumer \/ StartProducer
    BY <2>2 DEF StartConsumer, StartProducer, FailStart, Tell
  <2>3. CASE CloseConsumer \/ CloseProducer
    BY <2>3 DEF CloseConsumer, CloseProducer, FailStop, Drain
  <2>4. ASSUME NEW w \in Watches, Watch(w) \/ Spawn(w) PROVE SpawnedOnce'
    BY <2>4 DEF Watch, Spawn
  <2>5. ASSUME NEW r \in Routines, NEW l, rpc[r] # "off", Go(r, l)
        PROVE  SpawnedOnce'
    BY <2>5 DEF Go
  <2>6. CASE \/ \E r \in Routines : Turn(r) \/ Handle(r) \/ Leave(r)
             \/ \E s \in Senders : Take(s) \/ TellError(s) \/ TellSuccess(s)
    BY <2>5, <2>6 DEF Turn, Handle, Leave, Take, TellError, TellSuccess
  <2>7. QED
    BY <2>1, <2>2, <2>3, <2>4, <2>6
    DEF Next, StopCancel, DropConsumer, Send, Deliver, GiveUp, vars
<1>3. QED  BY <1>1, <1>2, KafkaHolds, PTL DEF Spec

(* A user that has not sent its message has no event. *)
IdleIsSilent == \A s \in Senders : sender[s] = "idle" => event[s] = "none"

LEMMA IdleHolds == Spec => []IdleIsSilent
<1> USE DEF IdleIsSilent, callVars, watchVars, userVars
<1>1. Init => IdleIsSilent  BY DEF Init
<1>2. KafkaInductive /\ IdleIsSilent /\ [Next]_vars => IdleIsSilent'
  <2> SUFFICES ASSUME KafkaInductive, IdleIsSilent, [Next]_vars
               PROVE  IdleIsSilent'
    OBVIOUS
  <2> USE DEF KafkaInductive, KafkaTypeOK
  <2>1. CASE UNCHANGED <<sender, event>>  BY <2>1
  <2>2. CASE CloseProducer
    BY <2>2 DEF CloseProducer, FailStop, Flush, ProducerRoutines
  <2>3. ASSUME NEW s \in Senders, Take(s) \/ TellError(s) \/ TellSuccess(s)
        PROVE  IdleIsSilent'
    BY <2>3 DEF Take, TellError, TellSuccess, Answer
  <2>4. ASSUME NEW s \in Senders, Send(s) \/ Deliver(s) \/ GiveUp(s)
        PROVE  IdleIsSilent'
    BY <2>4 DEF Send, Deliver, GiveUp
  <2>5. QED
    BY <2>1, <2>2, <2>3, <2>4
    DEF Next, StartConsumer, StartProducer, FailStart, StopCancel,
        CloseConsumer, DropConsumer, FailStop, Watch, Spawn, Turn, Handle,
        Leave, Go, vars
<1>3. QED  BY <1>1, <1>2, KafkaHolds, PTL DEF Spec

(* The steps that neither take nor tell *)
LEMMA KeepsAnswers ==
  ASSUME KafkaInductive, NoAnswerIsLost, UNCHANGED <<conf, sender, event>>,
         ctxDone => ctxDone',
         rpc'["ProducerErrors"] = "sending" <=> rpc["ProducerErrors"] = "sending"
  PROVE  NoAnswerIsLost'
BY DEF NoAnswerIsLost, KafkaInductive, KafkaTypeOK

(* As long as the service has not been stopped nobody who waits to hear of *)
(* his message does so in vain: it has not been dropped, and whoever has   *)
(* taken it is about to tell him (WatchProducerEvents, Start and Stop).    *)
THEOREM NobodyIsOverlooked == Spec => []NoAnswerIsLost
<1> USE DEF callVars, watchVars, userVars
<1>1. Init => NoAnswerIsLost
  BY DEF Init, NoAnswerIsLost, Routines, ProducerRoutines
<1>2. /\ KafkaInductive /\ SpawnedOnce /\ IdleIsSilent /\ NoAnswerIsLost
      /\ [Next]_vars
      => NoAnswerIsLost'
  <2> SUFFICES ASSUME KafkaInductive, SpawnedOnce, IdleIsSilent,
                      NoAnswerIsLost, [Next]_vars
               PROVE  NoAnswerIsLost'
    OBVIOUS
  <2> USE DEF KafkaInductive, KafkaTypeOK
  <2>0. "ProducerErrors" \in Routines /\ "Successes" \in Routines
    BY DEF Routines, ProducerRoutines
  <2>1. CASE StartConsumer \/ StartProducer
    BY <2>1, KeepsAnswers DEF StartConsumer, StartProducer, FailStart
  <2>2. CASE StopCancel \/ CloseConsumer \/ DropConsumer
    BY <2>0, <2>2, KeepsAnswers
    DEF StopCancel, CloseConsumer, DropConsumer, FailStop, Drain
  <2>3. CASE CloseProducer
    <3>1. ctxDone /\ UNCHANGED <<ctxDone, conf, sender>>
      BY <2>3 DEF CloseProducer, At
    <3>2. CASE FailStop /\ UNCHANGED event
      BY <3>1, <3>2, KeepsAnswers DEF FailStop
    <3>3. CASE Drain(ProducerRoutines) /\ Flush
      <4>1. \A s \in Senders : event'[s] = "taken" <=> event[s] = "taken"
        BY <3>3 DEF Flush, ProducerRoutines
      <4>2. rpc'["ProducerErrors"] = "sending"
              <=> rpc["ProducerErrors"] = "sending"
        BY <2>0, <3>3 DEF Drain
      <4>3. QED  BY <3>1, <4>1, <4>2 DEF NoAnswerIsLost
    <3>4. QED  BY <2>3, <3>2, <3>3 DEF CloseProducer
  <2>4. ASSUME NEW w \in Watches, Watch(w) \/ Spawn(w) PROVE NoAnswerIsLost'
    <3>1. CASE Watch(w)  BY <3>1, KeepsAnswers DEF Watch
    <3>2. CASE Spawn(w)
      <4>1. rpc["ProducerErrors"] = "sending" =>
              "ProducerErrors" \notin RoutinesOf(w)
        BY <2>4, <3>2 DEF Spawn, SpawnedOnce
      <4>2. rpc'["ProducerErrors"] = "sending"
              <=> rpc["ProducerErrors"] = "sending"
        BY <2>0, <3>2, <4>1 DEF Spawn
      <4>3. QED  BY <3>2, <4>2, KeepsAnswers DEF Spawn
    <3>3. QED  BY <2>4, <3>1, <3>2
  <2>5. ASSUME NEW r \in Routines, Turn(r) \/ Handle(r) \/ Leave(r)
        PROVE  NoAnswerIsLost'
    <3>1. /\ UNCHANGED <<conf, sender, event, ctxDone>>
          /\ rpc'["ProducerErrors"] = "sending"
               <=> rpc["ProducerErrors"] = "sending"
      BY <2>0, <2>5 DEF Turn, Handle, Leave, Go
    <3>2. QED  BY <3>1, KeepsAnswers
  <2>6. ASSUME NEW s \in Senders, Take(s) PROVE NoAnswerIsLost'
    <3>1. /\ rpc["ProducerErrors"] = "select" /\ event[s] = "ProducerErrors"
          /\ rpc'["ProducerErrors"] = "sending"
          /\ event' = [event EXCEPT ![s] = "taken"]
          /\ UNCHANGED <<conf, sender, ctxDone>>
      BY <2>0, <2>6 DEF Take, Go
    <3>2. \A t \in Senders : event[t] # "taken"
      BY <3>1 DEF NoAnswerIsLost
    <3>3. QED  BY <3>1, <3>2 DEF NoAnswerIsLost
  <2>7. ASSUME NEW s \in Senders, TellError(s) \/ TellSuccess(s)
        PROVE  NoAnswerIsLost'
    <3>1. /\ sender'[s] # "waiting" /\ event'[s] = "over"
          /\ \A t \in Senders \ {s} : /\ sender'[t] = sender[t]
                                       /\ event'[t] = event[t]
          /\ UNCHANGED <<conf, ctxDone>>
      BY <2>7 DEF TellError, TellSuccess, Answer, Go
    <3>2. CASE TellError(s)
      <4>1. event[s] = "taken" /\ rpc'["ProducerErrors"] = "turn"
        BY <2>0, <3>2 DEF TellError, Go
      <4>2. \A t \in Senders : event'[t] # "taken"
        BY <3>1, <4>1 DEF NoAnswerIsLost
      <4>3. QED  BY <3>1, <4>1, <4>2 DEF NoAnswerIsLost
    <3>3. CASE TellSuccess(s)
      <4>1. /\ event[s] = "Successes"
            /\ rpc'["ProducerErrors"] = rpc["ProducerErrors"]
        BY <2>0, <3>3 DEF TellSuccess, Go
      <4>2. \A t \in Senders : event'[t] = "taken" <=> event[t] = "taken"
        BY <3>1, <4>1
      <4>3. QED  BY <3>1, <4>1, <4>2 DEF NoAnswerIsLost
    <3>4. QED  BY <2>7, <3>2, <3>3
  <2>8. ASSUME NEW s \in Senders, Send(s) \/ Deliver(s) \/ GiveUp(s)
        PROVE  NoAnswerIsLost'
    <3>1. CASE Send(s)
      <4>1. /\ event[s] = "none" /\ event'[s] = "sent"
            /\ \A t \in Senders \ {s} : /\ sender'[t] = sender[t]
                                         /\ event'[t] = event[t]
            /\ UNCHANGED <<conf, ctxDone, rpc>>
        BY <3>1 DEF Send, IdleIsSilent
      <4>2. QED  BY <4>1 DEF NoAnswerIsLost
    <3>2. CASE Deliver(s)
      <4>1. \A t \in Senders : event'[t] = "taken" <=> event[t] = "taken"
        BY <3>2 DEF Deliver, ProducerRoutines
      <4>2. ProducerRoutines \subseteq conf.options =>
              event'[s] \in ProducerRoutines
        BY <3>2 DEF Deliver
      <4>3. \A t \in Senders \ {s} : event'[t] = event[t]
        BY <3>2 DEF Deliver
      <4>4. UNCHANGED <<conf, ctxDone, sender, rpc>>  BY <3>2 DEF Deliver
      <4>5. QED  BY <4>1, <4>2, <4>3, <4>4 DEF NoAnswerIsLost
    <3>3. CASE GiveUp(s)  BY <3>3 DEF GiveUp, NoAnswerIsLost
    <3>4. QED  BY <2>8, <3>1, <3>2, <3>3
  <2>9. CASE UNCHANGED vars  BY <2>9, KeepsAnswers DEF vars
  <2>10. QED
    BY <2>1, <2>2, <2>3, <2>4, <2>5, <2>6, <2>7, <2>8, <2>9 DEF Next
<1>3. QED  BY <1>1, <1>2, KafkaHolds, SpawnedHolds, IdleHolds, PTL DEF Spec
=============================================================================
