------------------------ MODULE MaestroOutcomeProofs ------------------------
(***************************************************************************)
(* What StartAll and StopAll return, for any services, watchers,           *)
(* dependencies, channel capacity, retries and failures: the errors fit in *)
(* the channel, none is missing, and each one is founded (Maestro.tla).    *)
(***************************************************************************)
EXTENDS MaestroProofs, FiniteSetTheorems

(* The two halves of OutcomeInductive: how far the goroutines have got, and*)
(* what has been told.                                                     *)
Progress == (\A s \in Services : Advances(s)) /\ GivesUpOnLastTry
Outcome ==
  /\ op = "none" => errC = {}
  /\ Refused => RefusalIsFinal
  /\ ~Refused => OneErrorEach /\ \A s \in Services : Reports(s)

LEMMA OutcomeParts == OutcomeInductive <=> Progress /\ Outcome
  BY DEF OutcomeInductive, Progress, Outcome

LEMMA InitOutcome == Init => OutcomeInductive
<1> SUFFICES ASSUME Init PROVE OutcomeInductive  OBVIOUS
<1> USE MaxRetriesAssumption
<1>1. Progress
  BY DEF Init, Progress, Advances, GivesUpOnLastTry, Tries
<1>2. Outcome
  BY DEF Init, Outcome, Refused, OneErrorEach, Reports, Failed
<1>3. QED  BY <1>1, <1>2, OutcomeParts

-----------------------------------------------------------------------------
(* A step of one goroutine *)

(* The goroutine of s takes a step and sends the errors es.  Nothing else  *)
(* happens to the others than that they may be told of its failure.        *)
Moves(s, es) ==
  /\ op \in {"StartAll", "StopAll"} /\ pc[s] # "idle"
  /\ UNCHANGED callVars
  /\ \A x \in Services \ {s} :
       /\ pc'[x] = pc[x] /\ pending'[x] = pending[x]
       /\ awaiting'[x] = awaiting[x] /\ attempts'[x] = attempts[x]
       /\ started'[x] = started[x] /\ stopped'[x] = stopped[x]
       /\ pc[x] = "await" /\ unread'[x] # unread[x] =>
            awaiting[x] = s /\ es # {} /\ ~Reached(s)'
  /\ errC' = errC \cup ({s} \X es)

(* What s says itself is true, and it says one thing when it ends. *)
SpeaksTruly(s, es) ==
  /\ es \subseteq Kinds \ {"DependencyMissing", "DependencyCircular"}
  /\ \A j, k \in es : j = k
  /\ es # {} => pc'[s] = "idle"
  /\ pc'[s] = "idle" => Reached(s)' \/ es # {}
  /\ pc'[s] = "await" => unread'[s] = 0
  /\ pc'[s] = "depFailed" => LetDown(s)
  /\ "DependencyUnavailable" \in es =>
       op = "StartAll" /\ ~Reached(s)' /\ LetDown(s)
  /\ "ParentUnavailable" \in es =>
       op = "StopAll" /\ ~Reached(s)' /\ LetDown(s)

LEMMA StepProgress ==
  ASSUME Progress, NEW s \in Services, NEW es, Moves(s, es), Advances(s)',
         attempts'[s] <= Tries(s),
         pc'[s] = "callFailed" => attempts'[s] = Tries(s)
  PROVE  Progress'
<1>1. \A x \in Services : Awaited(x)' = Awaited(x)
  BY DEF Moves, callVars, Awaited, Parents
<1>2. \A x \in Services \ {s} : Advances(x)'
  BY <1>1 DEF Progress, Advances, Moves, callVars
<1>3. GivesUpOnLastTry'
  BY DEF Progress, GivesUpOnLastTry, Moves, Tries
<1>4. QED  BY <1>2, <1>3 DEF Progress

LEMMA StepOutcome ==
  ASSUME TypeOK, Progress, Outcome, NEW s \in Services, NEW es, Moves(s, es),
         SpeaksTruly(s, es), Registered
  PROVE  Outcome'
<1> USE DEF Moves, callVars
<1>1. ~Refused  BY DEF Outcome, RefusalIsFinal
<1>2. ~Refused'  BY <1>1 DEF Refused, SpeaksTruly
<1>3. Reports(s) /\ ~Failed(s) /\ s \in services
  BY <1>1 DEF Outcome, Reports, Registered
<1>4. \A x \in Services : Awaited(x)' = Awaited(x)
  BY DEF Awaited, Parents
<1>5. \A x \in Services \ {s} : Reached(x)' = Reached(x)
  BY DEF Reached
<1>6. \A x \in Services \ {s} : Failed(x)' <=> Failed(x)
  BY DEF Failed
<1>7. Failed(s)' <=> es # {}
  BY <1>3 DEF Failed, SpeaksTruly
<1>8. \A x \in Services : Awaited(x) \subseteq Services
  BY DEF Awaited, Parents, TypeOK
<1>9. \A x \in Services : LetDown(x) => LetDown(x)'
  <2> SUFFICES ASSUME NEW x \in Services, LetDown(x) PROVE LetDown(x)'
    OBVIOUS
  <2>1. PICK d \in Awaited(x) : Failed(d) /\ ~Reached(d)  BY DEF LetDown
  <2>2. d \in Services \ {s}  BY <1>3, <1>8, <2>1
  <2>3. d \in Awaited(x)' /\ Failed(d)' /\ ~Reached(d)'
    BY <1>4, <1>5, <1>6, <2>1, <2>2
  <2>4. QED  BY <2>3 DEF LetDown
<1>10. \A k \in Kinds : <<s, k>> \in errC' <=> k \in es
  BY <1>3 DEF Failed, SpeaksTruly
<1>11. Reports(s)'
  <2>1. <<s, "DependencyUnavailable">> \in errC' =>
          op' = "StartAll" /\ ~Reached(s)' /\ LetDown(s)'
    BY <1>9, <1>10 DEF SpeaksTruly, Kinds
  <2>2. <<s, "ParentUnavailable">> \in errC' =>
          op' = "StopAll" /\ ~Reached(s)' /\ LetDown(s)'
    BY <1>9, <1>10 DEF SpeaksTruly, Kinds
  <2>3. pc'[s] = "await" => unread'[s] = 0  BY DEF SpeaksTruly
  <2>4. pc'[s] = "depFailed" => LetDown(s)'  BY <1>9 DEF SpeaksTruly
  <2>5. Failed(s)' => pc'[s] = "idle" /\ s \in services'
    BY <1>3, <1>7 DEF SpeaksTruly
  <2>6. pc'[s] = "idle" => Reached(s)' \/ Failed(s)'
    BY <1>7 DEF SpeaksTruly
  <2>7. QED  BY <2>1, <2>2, <2>3, <2>4, <2>5, <2>6 DEF Reports
<1>12. ASSUME NEW x \in Services \ {s} PROVE Reports(x)'
  <2> Reports(x)  BY <1>1 DEF Outcome
  <2>1. ASSUME pc'[x] = "await", unread'[x] > 0
        PROVE  Failed(awaiting[x])' /\ ~Reached(awaiting[x])'
    <3>1. CASE unread'[x] # unread[x]
      <4>1. awaiting[x] = s /\ awaiting'[x] = s /\ es # {} /\ ~Reached(s)'
        BY <2>1, <3>1
      <4>2. QED  BY <1>7, <4>1 DEF Failed, Reached
    <3>2. CASE unread'[x] = unread[x]
      <4>1. Failed(awaiting[x]) /\ ~Reached(awaiting[x])
        BY <2>1, <3>2 DEF Reports
      <4>2. awaiting[x] \in Services \ {s}
        BY <1>3, <1>8, <2>1, <4>1 DEF Progress, Advances
      <4>3. QED  BY <1>5, <1>6, <4>1, <4>2 DEF Failed, Reached
    <3>3. QED  BY <3>1, <3>2
  <2>2. pc'[x] = "depFailed" => LetDown(x)'  BY <1>9 DEF Reports
  <2>3. Failed(x)' => pc'[x] = "idle" /\ x \in services'
    BY <1>6 DEF Reports
  <2>4. \A k \in Kinds : <<x, k>> \in errC' <=> <<x, k>> \in errC
    OBVIOUS
  <2>5. <<x, "DependencyUnavailable">> \in errC' =>
          op' = "StartAll" /\ ~Reached(x)' /\ LetDown(x)'
    BY <1>5, <1>9, <2>4 DEF Reports, Kinds
  <2>6. <<x, "ParentUnavailable">> \in errC' =>
          op' = "StopAll" /\ ~Reached(x)' /\ LetDown(x)'
    BY <1>5, <1>9, <2>4 DEF Reports, Kinds
  <2>7. x \in services' /\ pc'[x] = "idle" /\ op' \in {"StartAll", "StopAll"} =>
          Reached(x)' \/ Failed(x)'
    BY <1>5, <1>6 DEF Reports
  <2>8. QED  BY <2>1, <2>2, <2>3, <2>5, <2>6, <2>7 DEF Reports, Failed, Reached
<1>13. OneErrorEach'
  <2> SUFFICES ASSUME NEW e \in errC', NEW f \in errC', e[1] = f[1]
               PROVE  e = f
    BY DEF OneErrorEach
  <2>1. \A g \in errC : g[1] # s
    BY <1>3 DEF Failed, TypeOK
  <2>2. CASE e \in errC  BY <1>1, <2>1, <2>2 DEF Outcome, OneErrorEach
  <2>3. CASE e \in {s} \X es  BY <2>1, <2>3 DEF SpeaksTruly
  <2>4. QED  BY <2>2, <2>3
<1>14. op' # "none"  OBVIOUS
<1>15. QED  BY <1>2, <1>11, <1>12, <1>13, <1>14 DEF Outcome

LEMMA StepHolds ==
  ASSUME OrderInductive, OutcomeInductive, NEW s \in Services, NEW es,
         Moves(s, es), SpeaksTruly(s, es), Advances(s)',
         attempts'[s] <= Tries(s),
         pc'[s] = "callFailed" => attempts'[s] = Tries(s)
  PROVE  OutcomeInductive'
<1>1. Progress /\ Outcome  BY OutcomeParts
<1>2. Progress'  BY <1>1, StepProgress
<1>3. Outcome'  BY <1>1, StepOutcome DEF OrderInductive
<1>4. QED  BY <1>2, <1>3 DEF OutcomeInductive, Progress, Outcome

(* The services a goroutine waits for are registered. *)
LEMMA AwaitedRegistered ==
  ASSUME OrderInductive, OutcomeInductive, NEW s \in Services, pc[s] # "idle"
  PROVE  Awaited(s) \subseteq services /\ Awaited(s) \subseteq Services
  BY DEF OrderInductive, TypeOK, OutcomeInductive, Advances

LEMMA TriesPositive ==
  ASSUME NEW s \in Services
  PROVE  Tries(s) \in Nat /\ Tries(s) >= 1
  BY MaxRetriesAssumption DEF Tries

LEMMA CheckHolds ==
  ASSUME OrderInductive, OutcomeInductive, NEW s \in Services,
         op \in {"StartAll", "StopAll"},
         NEW kind \in {"ServiceStartFailure", "ServiceStopFailure"},
         Check(s, Reached(s), kind, Awaited(s))
  PROVE  OutcomeInductive'
<1> USE DEF OrderInductive, TypeOK, BaseTypeOK, callVars
<1>1. UNCHANGED <<baseVars, callVars, awaiting>> /\ pc[s] = "check"
  BY DEF Check
<1>2. Reached(s)' = Reached(s) /\ Awaited(s)' = Awaited(s)
  BY <1>1 DEF Reached, Awaited, Parents, baseVars, flagVars
<1>3. PICK es \in {{}, {kind}} :
        \/ Finish(s, es) /\ (es = {} => Reached(s))
        \/ /\ Goto(s, "deps") /\ pending' = [pending EXCEPT ![s] = Awaited(s)]
           /\ UNCHANGED <<errC, attempts>>
  BY DEF Check
<1>4. CASE /\ Goto(s, "deps") /\ pending' = [pending EXCEPT ![s] = Awaited(s)]
           /\ UNCHANGED <<errC, attempts>>
  <2>1. pc' = [pc EXCEPT ![s] = "deps"]  BY <1>4 DEF Goto
  <2>2. Moves(s, {})
    BY <1>1, <1>4, <2>1 DEF Moves, baseVars, flagVars, chanVars
  <2>3. SpeaksTruly(s, {})  BY <2>1 DEF SpeaksTruly
  <2>4. Advances(s)'
    BY <1>1, <1>2, <1>4, <2>1, AwaitedRegistered DEF Advances
  <2>5. attempts'[s] <= Tries(s)
    BY <1>4 DEF OutcomeInductive, GivesUpOnLastTry
  <2>6. QED  BY <2>1, <2>2, <2>3, <2>4, <2>5, StepHolds
<1>5. CASE Finish(s, es) /\ (es = {} => Reached(s))
  <2>1. /\ pc' = [pc EXCEPT ![s] = "idle"]
        /\ pending' = [pending EXCEPT ![s] = {}]
        /\ attempts' = [attempts EXCEPT ![s] = 0]
        /\ errC' = errC \cup ({s} \X es)
    BY <1>5 DEF Finish, Goto
  <2>2. Moves(s, es)
    BY <1>1, <2>1 DEF Moves, baseVars, flagVars, chanVars
  <2>3. SpeaksTruly(s, es)
    BY <1>2, <1>5, <2>1 DEF SpeaksTruly, Kinds
  <2>4. Advances(s)'  BY <2>1 DEF Advances
  <2>5. attempts'[s] <= Tries(s)  BY <2>1, TriesPositive
  <2>6. QED  BY <2>1, <2>2, <2>3, <2>4, <2>5, StepHolds
<1>6. QED  BY <1>3, <1>4, <1>5

LEMMA AwaitHolds ==
  ASSUME OrderInductive, OutcomeInductive, NEW s \in Services,
         op \in {"StartAll", "StopAll"},
         NEW d \in pending[s], Await(s, d), Started(s, d) \/ Stopped(s, d)
  PROVE  OutcomeInductive'
<1> USE DEF OrderInductive, TypeOK, BaseTypeOK, Await, callVars, Goto
<1>1. /\ pc[s] = "deps" /\ pc' = [pc EXCEPT ![s] = "await"]
      /\ awaiting' = [awaiting EXCEPT ![s] = d]
      /\ pending' = [pending EXCEPT ![s] = @ \ {d}]
      /\ UNCHANGED <<callVars, errC, attempts>>
  OBVIOUS
<1>2. /\ UNCHANGED flagVars /\ unread' = [unread EXCEPT ![s] = 0]
      /\ s \in Listeners
  BY DEF Started, Stopped, Listeners
<1>3. Awaited(s)' = Awaited(s)  BY <1>1 DEF Awaited, Parents
<1>4. Moves(s, {})
  BY <1>1, <1>2 DEF Moves, flagVars, Listeners
<1>5. SpeaksTruly(s, {})  BY <1>1, <1>2 DEF SpeaksTruly
<1>6. Advances(s)'
  <2>1. pending[s] \subseteq Awaited(s) /\ Awaited(s) \subseteq services
    BY <1>1 DEF OutcomeInductive, Advances
  <2>2. QED  BY <1>1, <1>3, <2>1 DEF Advances
<1>7. attempts'[s] <= Tries(s)
  BY <1>1 DEF OutcomeInductive, GivesUpOnLastTry
<1>8. QED  BY <1>1, <1>4, <1>5, <1>6, <1>7, StepHolds

LEMMA ReceiveHolds ==
  ASSUME OrderInductive, OutcomeInductive, NEW s \in Services,
         op \in {"StartAll", "StopAll"}, Receive(s)
  PROVE  OutcomeInductive'
<1> USE DEF OrderInductive, TypeOK, BaseTypeOK, Receive, callVars, Goto
<1>1. /\ pc[s] = "await" /\ pc'[s] \in {"deps", "depFailed"}
      /\ pc'[s] = "depFailed" => unread[s] > 0
      /\ pc' = [pc EXCEPT ![s] = pc'[s]]
      /\ awaiting' = [awaiting EXCEPT ![s] = NoService]
      /\ UNCHANGED <<callVars, errC, pending, attempts>>
  OBVIOUS
<1>2. /\ UNCHANGED flagVars /\ unread' = [unread EXCEPT ![s] = 0]
      /\ s \in Listeners
  BY DEF Abandon, Listeners
<1>3. Awaited(s)' = Awaited(s)  BY <1>1 DEF Awaited, Parents
<1>4. Moves(s, {})
  BY <1>1, <1>2 DEF Moves, flagVars, Listeners
<1>5. SpeaksTruly(s, {})
  <2>1. ~Refused  BY <1>1 DEF OutcomeInductive, RefusalIsFinal
  <2>2. Reports(s) /\ awaiting[s] \in Awaited(s)
    BY <1>1, <2>1 DEF OutcomeInductive, Advances
  <2>3. pc'[s] = "depFailed" => LetDown(s)
    BY <1>1, <2>2 DEF Reports, LetDown
  <2>4. QED  BY <1>1, <2>3 DEF SpeaksTruly
<1>6. Advances(s)'
  <2>1. pending[s] \subseteq Awaited(s) /\ Awaited(s) \subseteq services
    BY <1>1 DEF OutcomeInductive, Advances
  <2>2. QED  BY <1>1, <1>3, <2>1 DEF Advances
<1>7. attempts'[s] <= Tries(s)
  BY <1>1 DEF OutcomeInductive, GivesUpOnLastTry
<1>8. QED  BY <1>1, <1>4, <1>5, <1>6, <1>7, StepHolds

(* A step of the retry loop *)
LEMMA TryHolds ==
  ASSUME OrderInductive, OutcomeInductive, NEW s \in Services,
         op \in {"StartAll", "StopAll"}, Call(s) \/ CallErr(s) \/ Backoff(s)
  PROVE  OutcomeInductive'
<1> USE DEF OrderInductive, TypeOK, BaseTypeOK, callVars
<1>1. UNCHANGED <<baseVars, callVars, awaiting>>
  BY DEF Call, CallErr, Backoff, routineVars
<1>2. /\ Advances(s) /\ attempts[s] <= Tries(s) /\ attempts[s] \in Nat
      /\ MaxRetries[s] \in Nat
  BY MaxRetriesAssumption DEF OutcomeInductive, GivesUpOnLastTry
<1>3. Awaited(s)' = Awaited(s)  BY <1>1 DEF Awaited, Parents
<1>4. pc[s] # "idle" => Awaited(s) \subseteq services
  BY <1>2 DEF Advances
<1> DEFINE Quiet(l, n) == /\ pc[s] # "idle" /\ pc' = [pc EXCEPT ![s] = l]
                          /\ attempts' = [attempts EXCEPT ![s] = n]
                          /\ UNCHANGED <<errC, pending>>
<1>5. ASSUME NEW l \in {"call", "backoff", "callFailed"}, NEW n \in Nat,
             Quiet(l, n), n >= 1, n <= Tries(s),
             l = "backoff" => n < MaxRetries[s],
             l = "callFailed" => n = Tries(s)
      PROVE  OutcomeInductive'
  <2>1. Moves(s, {})
    BY <1>1, <1>5 DEF Moves, baseVars, flagVars, chanVars
  <2>2. SpeaksTruly(s, {})  BY <1>5 DEF SpeaksTruly
  <2>3. Advances(s)'  BY <1>1, <1>3, <1>4, <1>5 DEF Advances
  <2>4. attempts'[s] = n /\ pc'[s] = l  BY <1>5
  <2>5. QED  BY <1>5, <2>1, <2>2, <2>3, <2>4, StepHolds
<1>6. PICK n \in Nat : n = attempts[s]  BY <1>2
<1>7. CASE Call(s)
  <2>1. Quiet("call", 1)  BY <1>7 DEF Call, Goto
  <2> HIDE DEF Quiet
  <2>2. QED  BY <1>5, <2>1, TriesPositive
<1>8. CASE CallErr(s)
  <2>1. n >= 1 /\ n <= Tries(s)  BY <1>2, <1>6, <1>8 DEF CallErr, Advances
  <2>2. attempts' = [attempts EXCEPT ![s] = n]
    BY <1>6, <1>8 DEF CallErr, routineVars
  <2>3. CASE RetriesLeft(s)
    <3>1. Quiet("backoff", n)
      BY <1>8, <2>2, <2>3 DEF CallErr, Goto, routineVars
    <3>2. n < MaxRetries[s]  BY <1>6, <2>3 DEF RetriesLeft
    <3> HIDE DEF Quiet
    <3>3. QED  BY <1>5, <2>1, <3>1, <3>2
  <2>4. CASE ~RetriesLeft(s)
    <3>1. Quiet("callFailed", n)
      BY <1>8, <2>2, <2>4 DEF CallErr, Goto, routineVars
    <3>2. n = Tries(s)
      BY <1>2, <1>6, <2>1, <2>4 DEF RetriesLeft, Tries
    <3> HIDE DEF Quiet
    <3>3. QED  BY <1>5, <2>1, <3>1, <3>2
  <2>5. QED  BY <2>3, <2>4
<1>9. CASE Backoff(s) /\ Retry(s)
  <2>1. n < MaxRetries[s]  BY <1>2, <1>6, <1>9 DEF Backoff, Advances
  <2>2. Quiet("call", n + 1)  BY <1>6, <1>9 DEF Backoff, Retry, Goto
  <2>3. n + 1 <= Tries(s)  BY <1>2, <2>1 DEF Tries
  <2> HIDE DEF Quiet
  <2>4. QED  BY <1>5, <2>2, <2>3
<1>10. CASE Backoff(s) /\ Finish(s, {"ContextErr"})
  <2>1. /\ pc[s] # "idle" /\ pc' = [pc EXCEPT ![s] = "idle"]
        /\ pending' = [pending EXCEPT ![s] = {}]
        /\ attempts' = [attempts EXCEPT ![s] = 0]
        /\ errC' = errC \cup ({s} \X {"ContextErr"})
    BY <1>10 DEF Backoff, Finish, Goto
  <2>2. Moves(s, {"ContextErr"})
    BY <1>1, <2>1 DEF Moves, baseVars, flagVars, chanVars
  <2>3. SpeaksTruly(s, {"ContextErr"})  BY <2>1 DEF SpeaksTruly, Kinds
  <2>4. Advances(s)'  BY <2>1 DEF Advances
  <2>5. attempts'[s] <= Tries(s)  BY <2>1, TriesPositive
  <2>6. QED  BY <2>1, <2>2, <2>3, <2>4, <2>5, StepHolds
<1>11. QED  BY <1>7, <1>8, <1>9, <1>10 DEF Backoff

(* s is started, or stopped. *)
LEMMA CallOkHolds ==
  ASSUME OrderInductive, OutcomeInductive, NEW s \in Services,
         \/ op = "StartAll" /\ StartCallOk(s)
         \/ op = "StopAll" /\ StopCallOk(s)
  PROVE  OutcomeInductive'
<1> USE DEF OrderInductive, TypeOK, BaseTypeOK, callVars
<1>1. /\ pc[s] # "idle" /\ pc' = [pc EXCEPT ![s] = "idle"]
      /\ pending' = [pending EXCEPT ![s] = {}]
      /\ attempts' = [attempts EXCEPT ![s] = 0]
      /\ errC' = errC
      /\ UNCHANGED <<callVars, awaiting>>
  BY DEF StartCallOk, StopCallOk, Finish, Goto
<1>2. /\ \A x \in Services \ {s} : started'[x] = started[x]
                                   /\ stopped'[x] = stopped[x]
      /\ unread' = unread /\ Reached(s)'
  BY DEF StartCallOk, StopCallOk, BaseStartNil, BaseStopNil, Reached
<1>3. Moves(s, {})  BY <1>1, <1>2 DEF Moves
<1>4. SpeaksTruly(s, {})  BY <1>1, <1>2 DEF SpeaksTruly
<1>5. Advances(s)'  BY <1>1 DEF Advances
<1>6. attempts'[s] <= Tries(s)  BY <1>1, TriesPositive
<1>7. QED  BY <1>1, <1>3, <1>4, <1>5, <1>6, StepHolds

(* A failure is published.  Those that are told of it wait for s, since a  *)
(* list has no other goroutine, and s is not what they wait for it to be.  *)
LEMMA PublishHolds ==
  ASSUME OrderInductive, OutcomeInductive, NEW s \in Services,
         \/ op = "StartAll" /\ StartPublish(s)
         \/ op = "StopAll" /\ StopPublish(s)
  PROVE  OutcomeInductive'
<1> USE DEF OrderInductive, TypeOK, BaseTypeOK, callVars
<1> DEFINE
  Says(k) ==
    /\ FinishPublished(s, {k})
    /\ k = "DependencyUnavailable" => pc[s] = "depFailed" /\ op = "StartAll"
    /\ k = "ParentUnavailable" => pc[s] = "depFailed" /\ op = "StopAll"
<1>1. PICK k \in Kinds \ {"DependencyMissing", "DependencyCircular"} : Says(k)
  <2>1. \/ Says("DependencyUnavailable") \/ Says("ServiceStartFailure")
        \/ Says("ParentUnavailable") \/ Says("ServiceStopFailure")
    BY DEF StartPublish, StopPublish
  <2> HIDE DEF Says
  <2>2. QED  BY <2>1 DEF Kinds
<1>2. /\ pc[s] \in {"depFailed", "callFailed"}
      /\ UNCHANGED <<callVars, awaiting>>
  BY DEF StartPublish, StopPublish
<1>3. /\ \A x \in Services \ {s} : started'[x] = started[x]
                                   /\ stopped'[x] = stopped[x]
      /\ ~Reached(s)'
  BY DEF StartPublish, StopPublish, BaseStartErr, BaseStopErr, Reached
<1>4. ASSUME s \notin jammed', NEW x \in Services, unread'[x] # unread[x]
      PROVE  awaiting[x] = s
  <2>1. x \in startedCs[s] \/ x \in stoppedCs[s]
    BY <1>4 DEF StartPublish, StopPublish, BaseStartErr, BaseStopErr, Push,
       Listeners
  <2>2. QED  BY <2>1, ListedGoroutine
<1>5. ASSUME s \in jammed', NEW x \in Services PROVE unread'[x] = unread[x]
  <2>1. s \notin jammed  BY DEF StartPublish, StopPublish, BaseStartErr, BaseStopErr
  <2>2. \E ls \in SUBSET Watchers : Push(ls)
    BY <1>5, <2>1
    DEF StartPublish, StopPublish, BaseStartErr, BaseStopErr, HasRoom
  <2>3. QED  BY <2>2, ListenersAssumption DEF Push, Listeners
<1>6. pc[s] = "depFailed" => LetDown(s)
  <2>1. ~Refused  BY <1>2 DEF OutcomeInductive, RefusalIsFinal
  <2>2. QED  BY <2>1 DEF OutcomeInductive, Reports
<1>7. CASE s \in jammed'
  <2>1. /\ pc' = [pc EXCEPT ![s] = "stuck"]
        /\ UNCHANGED <<errC, pending, attempts>>
    BY <1>1, <1>7 DEF FinishPublished, Goto
  <2>2. Moves(s, {})  BY <1>2, <1>3, <1>5, <1>7, <2>1 DEF Moves
  <2>3. SpeaksTruly(s, {})  BY <2>1 DEF SpeaksTruly
  <2>4. Awaited(s)' = Awaited(s)  BY <1>2 DEF Awaited, Parents
  <2>5. Advances(s)'
    BY <1>2, <2>1, <2>4, AwaitedRegistered DEF Advances
  <2>6. attempts'[s] <= Tries(s)
    BY <2>1 DEF OutcomeInductive, GivesUpOnLastTry
  <2>7. QED  BY <2>1, <2>2, <2>3, <2>5, <2>6, StepHolds
<1>8. CASE s \notin jammed'
  <2>1. /\ pc' = [pc EXCEPT ![s] = "idle"]
        /\ pending' = [pending EXCEPT ![s] = {}]
        /\ attempts' = [attempts EXCEPT ![s] = 0]
        /\ errC' = errC \cup ({s} \X {k})
    BY <1>1, <1>8 DEF FinishPublished, Finish, Goto
  <2>2. Moves(s, {k})  BY <1>1, <1>2, <1>3, <1>4, <1>8, <2>1 DEF Moves
  <2>3. SpeaksTruly(s, {k})  BY <1>1, <1>3, <1>6, <2>1 DEF SpeaksTruly
  <2>4. Advances(s)'  BY <2>1 DEF Advances
  <2>5. attempts'[s] <= Tries(s)  BY <2>1, TriesPositive
  <2>6. QED  BY <2>1, <2>2, <2>3, <2>4, <2>5, StepHolds
<1>9. QED  BY <1>7, <1>8

LEMMA RoutineHolds ==
  ASSUME OrderInductive, OutcomeInductive, NEW s \in Services,
         StartRoutine(s) \/ StopRoutine(s)
  PROVE  OutcomeInductive'
<1>1. CASE op = "StartAll" /\ StartCheck(s)
  <2>1. Check(s, Reached(s), "ServiceStartFailure", Awaited(s))
    BY <1>1 DEF StartCheck, Reached, Awaited
  <2>2. QED  BY <1>1, <2>1, CheckHolds
<1>2. CASE op = "StopAll" /\ StopCheck(s)
  <2>1. Check(s, Reached(s), "ServiceStopFailure", Awaited(s))
    BY <1>2 DEF StopCheck, Reached, Awaited
  <2>2. QED  BY <1>2, <2>1, CheckHolds
<1>3. QED
  BY <1>1, <1>2, AwaitHolds, ReceiveHolds, TryHolds, CallOkHolds, PublishHolds
  DEF StartRoutine, StopRoutine, StartAwait, StopAwait, StartCallErr,
      StopCallErr

-----------------------------------------------------------------------------
(* The steps of the others *)

(* What the goroutines have done and been told is left alone. *)
LEMMA StutterHolds ==
  ASSUME OutcomeInductive, OrderInductive,
         UNCHANGED <<flagVars, services, deps, op, errC, pc, routineVars>>,
         \A x \in Services : unread'[x] = unread[x]
  PROVE  OutcomeInductive'
<1> USE DEF OutcomeInductive, flagVars, routineVars
<1>1. \A x \in Services : /\ Awaited(x)' = Awaited(x)
                          /\ Reached(x)' = Reached(x)
                          /\ Failed(x)' = Failed(x)
  BY DEF Awaited, Reached, Parents, Failed
<1>2. \A x \in Services : Advances(x)'
  BY <1>1 DEF Advances
<1>3. GivesUpOnLastTry'  BY DEF GivesUpOnLastTry, Tries
<1>4. Refused' = Refused  BY DEF Refused
<1>5. Refused => RefusalIsFinal'  BY DEF RefusalIsFinal, ErrCFits
<1>6. OneErrorEach' = OneErrorEach  BY DEF OneErrorEach
<1>7. ASSUME ~Refused, NEW x \in Services PROVE Reports(x)'
  <2>1. Reports(x)  BY <1>7
  <2>2. LetDown(x)' = LetDown(x)
    <3>1. Awaited(x) \subseteq Services
      BY DEF OrderInductive, TypeOK, Awaited, Parents
    <3>2. QED  BY <1>1, <3>1 DEF LetDown
  <2>3. pc[x] = "await" => awaiting[x] \in Services
    BY DEF OrderInductive, AwaitsOne
  <2>4. /\ Failed(awaiting[x])' = Failed(awaiting[x])
        /\ pc[x] = "await" => Reached(awaiting[x])' = Reached(awaiting[x])
    BY <1>1, <2>3 DEF Failed, Reached
  <2>5. QED  BY <1>1, <2>1, <2>2, <2>4 DEF Reports
<1>8. QED  BY <1>2, <1>3, <1>4, <1>5, <1>6, <1>7

LEMMA WatcherHolds ==
  ASSUME OrderInductive, OutcomeInductive, NEW w \in Watchers,
         \/ Watcher(w) \/ CancelWatcher(w)
         \/ \E s \in Services : ServiceReady(w, s) \/ AwaitStopped(w, s)
  PROVE  OutcomeInductive'
<1> w \notin Services  BY ListenersAssumption
<1>1. UNCHANGED <<flagVars, services, deps, op, errC, pc, routineVars>>
  BY DEF Watcher, CancelWatcher, ServiceReady, AwaitStopped, Lookup, Subscribe,
     SkipErr, ReceiveNil, GiveUp, Abandon, Started, Stopped, baseVars, callVars
<1>2. \A x \in Services : unread'[x] = unread[x]
  BY DEF Watcher, CancelWatcher, ServiceReady, AwaitStopped, Lookup, Subscribe,
     SkipErr, ReceiveNil, GiveUp, Abandon, Started, Stopped, baseVars, chanVars,
     OrderInductive, TypeOK, BaseTypeOK, Listeners
<1>3. QED  BY <1>1, <1>2, StutterHolds

(* There is at most one error for each service. *)
LEMMA FirstsFit ==
  ASSUME NEW S, IsFiniteSet(S), NEW E, \A e \in E : e[1] \in S,
         \A e, f \in E : e[1] = f[1] => e = f
  PROVE  Cardinality(E) <= Cardinality(S)
<1> DEFINE first == [e \in E |-> e[1]]
<1>1. first \in Injection(E, S)  BY DEF Injection, IsInjective
<1> HIDE DEF first
<1>2. QED  BY <1>1, FS_Injection

LEMMA RetoldFit ==
  ASSUME NEW M, IsFiniteSet(M), NEW R, NEW k,
         \A r \in R : \E m \in M : r = <<m[1], k>>,
         \A m \in M : <<m[1], k>> \in R
  PROVE  IsFiniteSet(R) /\ Cardinality(R) <= Cardinality(M)
<1> DEFINE retell == [m \in M |-> <<m[1], k>>]
<1>1. retell \in Surjection(M, R)  BY DEF Surjection
<1> HIDE DEF retell
<1>2. QED  BY <1>1, FS_Surjection

(* A tree that StartAll refuses *)
LEMMA RefusalHolds ==
  ASSUME OrderInductive, OutcomeInductive,
         \/ StartAllMissing /\ op' = "StartAll"
         \/ StartAllCircular
  PROVE  OutcomeInductive'
<1> USE DEF OrderInductive, TypeOK, BaseTypeOK
<1>1. /\ op = "none" /\ op' = "StartAll"
      /\ UNCHANGED <<services, deps, pc, attempts>>
  BY DEF StartAllMissing, StartAllCircular, TakeLock, routineVars
<1>2. \A x \in Services : pc'[x] = "idle"  BY <1>1 DEF Registered
<1>3. /\ \A s \in Services : Advances(s)'
      /\ GivesUpOnLastTry'
  BY <1>1, <1>2 DEF OutcomeInductive, GivesUpOnLastTry, Advances, Tries
<1>4. IsFiniteSet(services)  BY ServicesAssumption, FS_Subset
<1>5. CASE StartAllMissing
  <2>1. /\ MissingDeps # {} /\ Cardinality(MissingDeps) <= Cardinality(services)
        /\ errC' = {<<m[1], "DependencyMissing">> : m \in MissingDeps}
    BY <1>1, <1>5 DEF StartAllMissing, TakeLock
  <2>2. MissingDeps \subseteq services \X Services
    BY DEF MissingDeps, Missing
  <2>3. errC' \subseteq Services \X {"DependencyMissing", "DependencyCircular"}
    BY <2>1, <2>2
  <2>4. Refused'
    <3>1. PICK m \in MissingDeps : TRUE  BY <2>1
    <3>2. <<m[1], "DependencyMissing">> \in errC'  BY <2>1
    <3>3. QED  BY <3>2 DEF Refused
  <2>5. ErrCFits'
    <3>1. IsFiniteSet(services \X Services)
      BY <1>4, ServicesAssumption, FS_Product
    <3>2. IsFiniteSet(MissingDeps)  BY <2>2, <3>1, FS_Subset
    <3>3. IsFiniteSet(errC') /\ Cardinality(errC') <= Cardinality(MissingDeps)
      <4>1. /\ \A r \in errC' :
                 \E m \in MissingDeps : r = <<m[1], "DependencyMissing">>
            /\ \A m \in MissingDeps : <<m[1], "DependencyMissing">> \in errC'
        BY <2>1
      <4>2. QED  BY <3>2, <4>1, RetoldFit
    <3>4. /\ Cardinality(MissingDeps) \in Nat /\ Cardinality(services) \in Nat
          /\ Cardinality(errC') \in Nat
      BY <1>4, <3>2, <3>3, FS_CardinalityType
    <3>5. Cardinality(errC') <= Cardinality(services)
      BY <2>1, <3>3, <3>4
    <3>6. QED  BY <1>1, <3>5 DEF ErrCFits
  <2>6. QED
    BY <1>1, <1>2, <1>3, <2>3, <2>4, <2>5 DEF OutcomeInductive, RefusalIsFinal
<1>6. CASE StartAllCircular
  <2>1. PICK s \in CircularDeps : errC' = {<<s, "DependencyCircular">>}
    BY <1>6 DEF StartAllCircular
  <2>2. s \in services  BY DEF CircularDeps, Circular
  <2>3. errC' \subseteq Services \X {"DependencyMissing", "DependencyCircular"}
    BY <2>1, <2>2
  <2>4. Refused'  BY <2>1 DEF Refused
  <2>5. ErrCFits'
    <3>1. Cardinality(errC') = 1  BY <2>1, FS_Singleton
    <3>2. Cardinality(services) \in Nat /\ Cardinality(services) # 0
      BY <1>4, <2>2, FS_CardinalityType, FS_EmptySet
    <3>3. QED  BY <1>1, <3>1, <3>2 DEF ErrCFits
  <2>6. QED
    BY <1>1, <1>2, <1>3, <2>3, <2>4, <2>5 DEF OutcomeInductive, RefusalIsFinal
<1>7. QED  BY <1>5, <1>6

(* The registry, and the beginning and the end of the operations *)
LEMMA CallHolds ==
  ASSUME OrderInductive, OutcomeInductive,
         \/ \E s \in Services : \E ds \in MayDepend[s] : AddService(s, ds)
         \/ StartAll \/ StopAll \/ Return \/ Cancel
  PROVE  OutcomeInductive'
<1> USE DEF OrderInductive, TypeOK, BaseTypeOK
<1>1. CASE Cancel
  <2>1. UNCHANGED <<baseVars, services, deps, op, errC, pc, routineVars>>
    BY <1>1 DEF Cancel
  <2>2. QED  BY <2>1, StutterHolds DEF baseVars, chanVars
<1>2. ASSUME UNCHANGED attempts, errC' = {},
             \A x \in Services : pc'[x] \in {"idle", "check"},
             \A x \in Services : pc'[x] = "check" =>
               Awaited(x)' \subseteq services',
             \A x \in services' : pc'[x] = "idle" =>
               op' \notin {"StartAll", "StopAll"}
      PROVE  OutcomeInductive'
  <2>1. ~Refused' /\ OneErrorEach'  BY <1>2 DEF Refused, OneErrorEach
  <2>2. \A x \in Services : Advances(x)'
    BY <1>2 DEF Advances
  <2>3. GivesUpOnLastTry'
    BY <1>2 DEF OutcomeInductive, GivesUpOnLastTry, Tries
  <2>4. \A x \in Services : Reports(x)'
    BY <1>2 DEF Reports, Failed
  <2>5. QED  BY <1>2, <2>1, <2>2, <2>3, <2>4 DEF OutcomeInductive
<1>3. op = "none" => errC = {} /\ \A x \in Services : pc[x] = "idle"
  BY DEF OutcomeInductive, Registered
<1>4. CASE \/ \E s \in Services : \E ds \in MayDepend[s] : AddService(s, ds)
           \/ Return
  BY <1>2, <1>3, <1>4 DEF AddService, Return, routineVars
<1>5. CASE StartAllMissing /\ op' = "Blocked"
  BY <1>2, <1>3, <1>5 DEF StartAllMissing, TakeLock, routineVars
<1>6. CASE StartAllBoot
  <2>1. /\ op = "none" /\ op' = "StartAll" /\ MissingDeps = {} /\ Spawn
        /\ UNCHANGED <<services, deps, attempts, errC>>
    BY <1>6 DEF StartAllBoot, TakeLock, routineVars
  <2>2. \A x \in services : deps[x] \subseteq services
    <3> SUFFICES ASSUME NEW x \in services, NEW d \in deps[x], d \notin services
                 PROVE  FALSE
      OBVIOUS
    <3>1. <<x, d>> \in {x} \X (deps[x] \ services)  OBVIOUS
    <3>2. <<x, d>> \in MissingDeps  BY <3>1 DEF MissingDeps, Missing
    <3>3. QED  BY <2>1, <3>2
  <2>3. \A x \in Services : pc'[x] = "check" => Awaited(x)' \subseteq services'
    BY <2>1, <2>2 DEF Spawn, Awaited
  <2>4. QED  BY <1>2, <1>3, <2>1, <2>3 DEF Spawn
<1>7. CASE StopAll
  <2>1. /\ op = "none" /\ op' = "StopAll" /\ Spawn
        /\ UNCHANGED <<services, deps, attempts, errC>>
    BY <1>7 DEF StopAll, TakeLock, routineVars
  <2>2. \A x \in Services : Awaited(x)' \subseteq services'
    BY <2>1 DEF Awaited, Parents
  <2>3. QED  BY <1>2, <1>3, <2>1, <2>2 DEF Spawn
<1>8. StartAllMissing => op' \in {"StartAll", "Blocked"}
  BY DEF StartAllMissing, TakeLock
<1>9. QED
  BY <1>1, <1>4, <1>5, <1>6, <1>7, <1>8, RefusalHolds DEF StartAll

-----------------------------------------------------------------------------
(* What follows for every instance *)

(* OutcomeInductive is inductive, in the states of OrderInductive (the     *)
(* whole of Maestro.tla).                                                  *)
THEOREM OutcomesHold == Spec => []OutcomeInductive
<1>1. OrderInductive /\ OutcomeInductive /\ [Next]_vars => OutcomeInductive'
  <2> SUFFICES ASSUME OrderInductive, OutcomeInductive, [Next]_vars
               PROVE  OutcomeInductive'
    OBVIOUS
  <2>1. CASE Next  BY <2>1, RoutineHolds, WatcherHolds, CallHolds DEF Next
  <2>2. CASE UNCHANGED vars
    BY <2>2, StutterHolds DEF vars, baseVars, chanVars, callVars
  <2>3. QED  BY <2>1, <2>2
<1>2. QED  BY <1>1, InitOutcome, OrderHolds, PTL DEF Spec

(* A service that fails is tried exactly max(1, maxRetries) times (the     *)
(* retry loops of Maestro.start and Maestro.stop).                         *)
THEOREM TriesAreCounted == Spec => []GivesUpOnLastTry
<1>1. OutcomeInductive => GivesUpOnLastTry  BY DEF OutcomeInductive
<1>2. QED  BY <1>1, OutcomesHold, PTL

(* d := m.services[dep] is never nil (Maestro.start, after hasMissingDeps).*)
THEOREM NoNilIsCalled == Spec => []NoNilDependency
<1>1. OrderInductive /\ OutcomeInductive => NoNilDependency
  BY DEF OutcomeInductive, Advances, NoNilDependency, OrderInductive
<1>2. QED  BY <1>1, OrderHolds, OutcomesHold, PTL

(* The channel an operation returns has room for all its errors: those of  *)
(* the goroutines, and those of hasMissingDeps when it returns (StartAll,  *)
(* StopAll: make(chan error, len(m.services)) and one more).               *)
THEOREM ErrorsFit == Spec => []ErrCFits
<1>1. OrderInductive /\ OutcomeInductive => ErrCFits
  <2> SUFFICES ASSUME OrderInductive, OutcomeInductive, ~Refused
               PROVE  ErrCFits
    BY DEF OutcomeInductive, RefusalIsFinal
  <2>1. IsFiniteSet(services)
    BY ServicesAssumption, FS_Subset DEF OrderInductive, TypeOK
  <2>2. \A e \in errC : e[1] \in services
    <3> SUFFICES ASSUME NEW e \in errC PROVE e[1] \in services
      OBVIOUS
    <3>1. e[1] \in Services /\ e[2] \in Kinds /\ e = <<e[1], e[2]>>
      BY DEF OrderInductive, TypeOK
    <3>2. Failed(e[1])  BY <3>1 DEF Failed
    <3>3. QED  BY <3>1, <3>2 DEF OutcomeInductive, Reports
  <2>3. \A e, f \in errC : e[1] = f[1] => e = f
    BY DEF OutcomeInductive, OneErrorEach
  <2>4. QED  BY <2>1, <2>2, <2>3, FirstsFit DEF ErrCFits
<1>2. QED  BY <1>1, OrderHolds, OutcomesHold, PTL

(* A service about which the returned channel says nothing is up after     *)
(* StartAll, down after StopAll, whatever failed and was cancelled.        *)
THEOREM SilenceMeansSuccess == Spec => []SilenceIsSuccess
<1>1. OrderInductive /\ OutcomeInductive => SilenceIsSuccess
  <2> SUFFICES ASSUME OrderInductive, OutcomeInductive
               PROVE  SilenceIsSuccess
    OBVIOUS
  <2>1. Refused => op = "StartAll"  BY DEF OutcomeInductive, RefusalIsFinal
  <2>2. ~Refused => \A s \in Services : Reports(s)  BY DEF OutcomeInductive
  <2>3. QED
    BY <2>1, <2>2
    DEF SilenceIsSuccess, Returning, Reports, Reached, OrderInductive, TypeOK
<1>2. QED  BY <1>1, OrderHolds, OutcomesHold, PTL

(* ErrDependencyUnavailable and ErrParentUnavailable are only sent when a  *)
(* dependency (a parent) failed in this operation, and still is not up     *)
(* (down) when the channel is read (the failure paths of Maestro.start and *)
(* Maestro.stop).                                                          *)
THEOREM BlameIsAlwaysFounded == Spec => []BlameIsFounded
<1>1. OutcomeInductive => BlameIsFounded
  <2> SUFFICES ASSUME OutcomeInductive, NEW s \in Services
               PROVE  /\ <<s, "DependencyUnavailable">> \in errC =>
                           /\ ~started[s]
                           /\ \E d \in deps[s] : Failed(d) /\ ~started[d]
                      /\ <<s, "ParentUnavailable">> \in errC =>
                           /\ ~stopped[s]
                           /\ \E p \in Parents(s) : Failed(p) /\ ~stopped[p]
    BY DEF BlameIsFounded
  <2>1. Refused => /\ <<s, "DependencyUnavailable">> \notin errC
                   /\ <<s, "ParentUnavailable">> \notin errC
    BY DEF OutcomeInductive, RefusalIsFinal
  <2>2. ~Refused => Reports(s)  BY DEF OutcomeInductive
  <2>3. QED  BY <2>1, <2>2 DEF Reports, LetDown, Reached, Awaited
<1>2. QED  BY <1>1, OutcomesHold, PTL

=============================================================================
