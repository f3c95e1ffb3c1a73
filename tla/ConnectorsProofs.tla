-------------------------- MODULE ConnectorsProofs --------------------------
(* Proofs about Connectors, for any services of each kind. *)
EXTENDS Connectors, TLAPS

(* A database that answered is closed before its service is not started,   *)
(* and Start overwrites the field of those that are not.                   *)
DatabaseIsClosed ==
  \A s \in Services :
    KindOf[s] = "sql" /\ ~up[s] => held[s].client # "probed"

ConnectorsInductive ==
  /\ TypeOK /\ StartedIsProbed /\ NothingIsLost /\ DownHoldsNothing
  /\ DatabaseIsClosed

LEMMA InitHolds == Init => ConnectorsInductive
  BY KindsAssumption
     DEF Init, ConnectorsInductive, TypeOK, Clients, Holdings, Open, Kinds,
         StartedIsProbed, NothingIsLost, DownHoldsNothing,
         DatabaseIsClosed

(* What the invariant asks of one service *)
Sound(k, u, h) ==
  /\ u /\ k \notin {"memcached", "sql"} => h.client = "probed"
  /\ u /\ k = "sql" => h.client \in {"probed", "closed"}
  /\ k \notin {"sql", "elastic"} => h.lost = {}
  /\ k = "sql" => "probed" \notin h.lost
  /\ ~u /\ k \in {"nats", "cql", "elastic"} => h.client = "none"
  /\ ~u /\ k = "sql" => h.client # "probed"

LEMMA AllSound ==
  ConnectorsInductive <=>
    TypeOK /\ \A s \in Services : Sound(KindOf[s], up[s], held[s])
  BY DEF ConnectorsInductive, StartedIsProbed, NothingIsLost,
         DownHoldsNothing, DatabaseIsClosed, Sound

-----------------------------------------------------------------------------
(* The primitives *)

LEMMA AssignTyped ==
  ASSUME NEW h \in Holdings, NEW c \in Clients
  PROVE  /\ Assign(h, c) \in Holdings
         /\ Assign(h, c).client = c
         /\ h.client \notin Open => Assign(h, c).lost = h.lost
         /\ Assign(h, c).lost \subseteq h.lost \cup {h.client}
  BY DEF Holdings, Assign

LEMMA CloseTyped ==
  ASSUME NEW h \in Holdings
  PROVE  /\ Close(h) \in Holdings
         /\ Close(h).client = "closed" /\ Close(h).lost = h.lost
  BY DEF Holdings, Close, Clients

LEMMA Outcome ==
  ASSUME NEW h \in Holdings
  PROVE  /\ Nil(h).err = FALSE /\ Nil(h).held = h
         /\ Err(h).err = TRUE /\ Err(h).held = h
  BY DEF Nil, Err

(* A client that is closed first is not lost. *)
LEMMA ForgetTyped ==
  ASSUME NEW h \in Holdings, NEW o \in CloseAndForget(h)
  PROVE  /\ o.err = FALSE /\ o.held \in Holdings
         /\ o.held.client = "none" /\ o.held.lost = h.lost
<1>1. CASE h.client = "none"
  <2>1. o = Nil(h)  BY <1>1 DEF CloseAndForget
  <2>2. QED  BY <1>1, <2>1, Outcome
<1>2. CASE h.client # "none"
  <2> DEFINE g == Assign(Close(h), "none")
  <2>1. Close(h) \in Holdings /\ Close(h).client \notin Open
    BY CloseTyped DEF Open
  <2>2. "none" \in Clients  BY DEF Clients
  <2>3. g \in Holdings /\ g.client = "none" /\ g.lost = h.lost
    BY <2>1, <2>2, AssignTyped, CloseTyped
  <2>4. o = Nil(g)  BY <1>2 DEF CloseAndForget
  <2> HIDE DEF g
  <2>5. QED  BY <2>3, <2>4, Outcome
<1>3. QED  BY <1>1, <1>2

(* An outcome of Start that leaves its service in order *)
Good(k, o) ==
  /\ o.err \in BOOLEAN /\ o.held \in Holdings
  /\ o.err = TRUE => Sound(k, FALSE, o.held)
  /\ o.err = FALSE => Sound(k, TRUE, o.held)

LEMMA ErrIsGood ==
  ASSUME NEW k, NEW h \in Holdings, Sound(k, FALSE, h)
  PROVE  Good(k, Err(h))
  BY Outcome DEF Good

LEMMA NilIsGood ==
  ASSUME NEW k, NEW h \in Holdings, Sound(k, TRUE, h)
  PROVE  Good(k, Nil(h))
  BY Outcome DEF Good

(* What Stop of memcached leaves, whatever Close does *)
LEMMA MemcachedStopped ==
  ASSUME NEW h \in Holdings, NEW o \in StopMemcached(h)
  PROVE  o.err \in BOOLEAN /\ o.held \in Holdings /\ o.held.lost = h.lost
<1>1. CASE o \in CloseAndForget(h)  BY <1>1, ForgetTyped
<1>2. CASE o = Err(h) \/ o = Err(Close(h))
  <2>1. PICK g \in {h, Close(h)} : o = Err(g)  BY <1>2
  <2>2. g \in Holdings /\ g.lost = h.lost  BY CloseTyped
  <2>3. QED  BY <2>1, <2>2, Outcome
<1>3. QED  BY <1>1, <1>2 DEF StopMemcached

-----------------------------------------------------------------------------
(* Start and Stop, by kind *)

(* Start of the five packages that connect to a server only if they have   *)
(* no client, given that what they do with one that does not answer is     *)
(* sound.                                                                  *)
LEMMA ConnectSound ==
  ASSUME NEW k \in Kinds \ {"sql", "redis"}, NEW h \in Holdings,
         Sound(k, FALSE, h), NEW unanswered,
         h.client = "none" => \A o \in unanswered : Good(k, o),
         NEW o \in Connect(h, unanswered)
  PROVE  Good(k, o)
<1>1. CASE h.client # "none"
  <2>1. Sound(k, TRUE, h)  BY <1>1 DEF Sound, Kinds
  <2>2. o = Nil(h)  BY <1>1 DEF Connect
  <2>3. QED  BY <2>1, <2>2, NilIsGood
<1>2. CASE h.client = "none"
  <2>1. {"none", "probed"} \subseteq Clients /\ "none" \notin Open
    BY DEF Clients, Open
  <2>2. Sound(k, FALSE, Assign(h, "none"))
    BY <1>2, <2>1, AssignTyped DEF Sound
  <2>3. Sound(k, TRUE, Assign(h, "probed"))
    BY <1>2, <2>1, AssignTyped DEF Sound
  <2>4. Good(k, Err(Assign(h, "none"))) /\ Good(k, Nil(Assign(h, "probed")))
    BY <2>1, <2>2, <2>3, AssignTyped, ErrIsGood, NilIsGood
  <2>5. QED  BY <1>2, <2>4 DEF Connect
<1>3. QED  BY <1>1, <1>2

LEMMA StartSound ==
  ASSUME TypeOK, NEW s \in Services, Sound(KindOf[s], FALSE, held[s]),
         NEW o \in StartsOf(s)
  PROVE  Good(KindOf[s], o)
<1> DEFINE k == KindOf[s]
           h == held[s]
           dialled == Assign(h, "unprobed")
<1>1. k \in Kinds /\ h \in Holdings /\ Sound(k, FALSE, h)
  BY KindsAssumption DEF TypeOK
<1>2. {"none", "unprobed", "probed"} \subseteq Clients  BY DEF Clients, Open
<1>3. /\ dialled \in Holdings
      /\ h.client = "none" => dialled.lost = h.lost
  BY <1>1, <1>2, AssignTyped DEF Open
<1>4. CASE k \in {"nats", "cql"}
  <2>1. o \in Connect(h, Failing(CloseAndForget(dialled)))
    BY <1>4 DEF StartsOf, StartNats, StartCql, StopNats, StopCql
  <2> HIDE DEF k, h, dialled
  <2>2. ASSUME h.client = "none", NEW x \in CloseAndForget(dialled)
        PROVE  Good(k, Err(x.held))
    <3>1. x.held \in Holdings /\ x.held.client = "none" /\ x.held.lost = h.lost
      BY <1>3, <2>2, ForgetTyped
    <3>2. Sound(k, FALSE, x.held)  BY <1>1, <1>4, <3>1 DEF Sound
    <3>3. QED  BY <3>1, <3>2, ErrIsGood
  <2>3. Good(k, o)  BY <1>1, <1>4, <2>1, <2>2, ConnectSound DEF Failing
  <2>4. QED  BY <2>3 DEF k
<1>5. CASE k = "elastic"
  <2>1. o \in Connect(h, Failing(StopElastic(dialled)))
    BY <1>5 DEF StartsOf, StartElastic
  <2> HIDE DEF k, h, dialled
  <2>2. /\ Assign(dialled, "none") \in Holdings
        /\ Assign(dialled, "none").client = "none"
    BY <1>2, <1>3, AssignTyped
  <2>3. Sound(k, FALSE, Assign(dialled, "none"))  BY <1>5, <2>2 DEF Sound
  <2>4. Failing(StopElastic(dialled)) = {Err(Assign(dialled, "none"))}
    <3> DEFINE g == Assign(dialled, "none")
    <3> HIDE DEF g
    <3>1. Nil(g).held = g  BY <2>2, Outcome DEF g
    <3>2. StopElastic(dialled) = {Nil(g)}  BY DEF StopElastic, g
    <3>3. QED  BY <3>1, <3>2 DEF Failing, g
  <2>5. \A x \in Failing(StopElastic(dialled)) : Good(k, x)
    BY <2>2, <2>3, <2>4, ErrIsGood
  <2>6. Good(k, o)  BY <1>1, <1>5, <2>1, <2>5, ConnectSound
  <2>7. QED  BY <2>6 DEF k
<1>6. CASE k = "memcached"
  <2> DEFINE stopped == StopMemcached(dialled)
             unanswered == Failing(stopped) \cup {Nil(x.held) : x \in stopped}
  <2>1. o \in Connect(h, unanswered)
    BY <1>6 DEF StartsOf, StartMemcached
  <2> HIDE DEF k, h, dialled
  <2>2. ASSUME h.client = "none", NEW x \in stopped
        PROVE  Good(k, Err(x.held)) /\ Good(k, Nil(x.held))
    <3>1. x.held \in Holdings /\ x.held.lost = {}
      BY <1>1, <1>3, <1>6, <2>2, MemcachedStopped DEF Sound
    <3>2. Sound(k, FALSE, x.held) /\ Sound(k, TRUE, x.held)
      BY <1>6, <3>1 DEF Sound
    <3>3. QED  BY <3>1, <3>2, ErrIsGood, NilIsGood
  <2> HIDE DEF stopped
  <2>3. h.client = "none" => \A x \in unanswered : Good(k, x)
    BY <2>2 DEF Failing
  <2> HIDE DEF unanswered
  <2>4. Good(k, o)  BY <1>1, <1>6, <2>1, <2>3, ConnectSound
  <2>5. QED  BY <2>4 DEF k
<1>7. CASE k = "sql"
  <2>1. \/ o = Err(Assign(h, "none")) \/ o = Err(Assign(h, "unprobed"))
        \/ o = Nil(Assign(h, "probed"))
    BY <1>7 DEF StartsOf, StartSql
  <2> HIDE DEF k, h
  <2>2. ASSUME NEW c \in {"none", "unprobed", "probed"}
        PROVE  /\ Assign(h, c) \in Holdings /\ Assign(h, c).client = c
               /\ "probed" \notin Assign(h, c).lost
    BY <1>1, <1>2, <1>7, AssignTyped DEF Sound
  <2>3. /\ Sound(k, FALSE, Assign(h, "none"))
        /\ Sound(k, FALSE, Assign(h, "unprobed"))
        /\ Sound(k, TRUE, Assign(h, "probed"))
    BY <1>7, <2>2 DEF Sound
  <2>4. Good(k, o)  BY <2>1, <2>2, <2>3, ErrIsGood, NilIsGood
  <2>5. QED  BY <2>4 DEF k
<1>8. CASE k = "redis"
  <2>1. o = Err(h) \/ o = Nil([h EXCEPT !.client = "probed"])
    BY <1>8 DEF StartsOf, StartRedis
  <2> HIDE DEF k, h
  <2>2. /\ [h EXCEPT !.client = "probed"] \in Holdings
        /\ Sound(k, TRUE, [h EXCEPT !.client = "probed"])
    BY <1>1, <1>2, <1>8 DEF Sound, Holdings
  <2>3. Good(k, o)  BY <1>1, <2>1, <2>2, ErrIsGood, NilIsGood
  <2>4. QED  BY <2>3 DEF k
<1>9. QED  BY <1>1, <1>4, <1>5, <1>6, <1>7, <1>8 DEF Kinds

(* Stop returns an error, and the service is started, or it is not. *)
LEMMA StopSound ==
  ASSUME TypeOK, NEW s \in Services, Sound(KindOf[s], TRUE, held[s]),
         NEW o \in StopsOf(s)
  PROVE  /\ o.err \in BOOLEAN /\ o.held \in Holdings
         /\ o.err = TRUE => Sound(KindOf[s], TRUE, o.held)
         /\ o.err = FALSE => Sound(KindOf[s], FALSE, o.held)
<1> DEFINE k == KindOf[s]
           h == held[s]
<1>1. k \in Kinds /\ h \in Holdings /\ Sound(k, TRUE, h)
  BY KindsAssumption DEF TypeOK
<1>2. CASE k \in {"nats", "cql"}
  <2>1. o \in CloseAndForget(h)
    BY <1>2 DEF StopsOf, StopNats, StopCql
  <2> HIDE DEF k, h
  <2>2. Sound(k, FALSE, o.held)
    BY <1>1, <1>2, <2>1, ForgetTyped DEF Sound
  <2>3. QED  BY <1>1, <2>1, <2>2, ForgetTyped DEF k
<1>3. CASE k = "elastic"
  <2>1. o = Nil(Assign(h, "none"))
    BY <1>3 DEF StopsOf, StopElastic
  <2> HIDE DEF k, h
  <2>2. "none" \in Clients  BY DEF Clients
  <2>3. /\ Assign(h, "none") \in Holdings /\ Assign(h, "none").client = "none"
    BY <1>1, <2>2, AssignTyped
  <2>4. Sound(k, FALSE, Assign(h, "none"))  BY <1>3, <2>3 DEF Sound
  <2>5. QED  BY <2>1, <2>3, <2>4, Outcome DEF k
<1>4. CASE k = "memcached"
  <2>1. o \in StopMemcached(h)  BY <1>4 DEF StopsOf
  <2> HIDE DEF k, h
  <2>2. o.err \in BOOLEAN /\ o.held \in Holdings /\ o.held.lost = {}
    BY <1>1, <1>4, <2>1, MemcachedStopped DEF Sound
  <2>3. Sound(k, TRUE, o.held) /\ Sound(k, FALSE, o.held)
    BY <1>4, <2>2 DEF Sound
  <2>4. QED  BY <2>2, <2>3 DEF k
<1>5. CASE k = "sql"
  <2>1. o = Nil(Close(h)) \/ o = Err(Close(h))
    BY <1>5 DEF StopsOf, StopSql
  <2> HIDE DEF k, h
  <2>2. /\ Close(h) \in Holdings
        /\ Sound(k, TRUE, Close(h)) /\ Sound(k, FALSE, Close(h))
    BY <1>1, <1>5, CloseTyped DEF Sound
  <2>3. QED  BY <2>1, <2>2, Outcome DEF k
<1>6. CASE k = "redis"
  <2>1. o = Nil(h)  BY <1>6 DEF StopsOf, StopRedis
  <2> HIDE DEF k, h
  <2>2. Sound(k, FALSE, h)  BY <1>1, <1>6 DEF Sound
  <2>3. QED  BY <1>1, <2>1, <2>2, Outcome DEF k
<1>7. QED  BY <1>1, <1>2, <1>3, <1>4, <1>5, <1>6 DEF Kinds

LEMMA ResultHolds ==
  ASSUME ConnectorsInductive, NEW s \in Services, NEW u \in BOOLEAN,
         NEW h \in Holdings, Sound(KindOf[s], u, h), Result(s, u, h)
  PROVE  ConnectorsInductive'
<1>1. TypeOK'  BY DEF ConnectorsInductive, TypeOK, Result
<1>2. ASSUME NEW t \in Services PROVE Sound(KindOf[t], up'[t], held'[t])
  <2>1. Sound(KindOf[t], up[t], held[t])  BY AllSound
  <2>2. CASE t = s  BY <2>2 DEF Result, ConnectorsInductive, TypeOK
  <2>3. CASE t # s
    BY <2>1, <2>3 DEF Result, ConnectorsInductive, TypeOK
  <2>4. QED  BY <2>2, <2>3
<1>3. QED
  BY <1>1, <1>2 DEF ConnectorsInductive, StartedIsProbed, NothingIsLost,
                    DownHoldsNothing, DatabaseIsClosed, Sound

-----------------------------------------------------------------------------
LEMMA ConnectorsHold == Spec => []ConnectorsInductive
<1>1. ConnectorsInductive /\ [Next]_vars => ConnectorsInductive'
  <2> SUFFICES ASSUME ConnectorsInductive, [Next]_vars
               PROVE  ConnectorsInductive'
    OBVIOUS
  <2>1. CASE UNCHANGED vars
    BY <2>1 DEF ConnectorsInductive, TypeOK, StartedIsProbed, NothingIsLost,
                DownHoldsNothing, DatabaseIsClosed, vars
  <2>2. ASSUME NEW s \in Services, Start(s) PROVE ConnectorsInductive'
    <3>1. TypeOK /\ Sound(KindOf[s], FALSE, held[s])
      BY <2>2, AllSound DEF Start, Sound
    <3>2. PICK o \in StartsOf(s) : Result(s, ~o.err, o.held)
      BY <2>2 DEF Start
    <3>3. Good(KindOf[s], o)  BY <3>1, StartSound
    <3>4. QED  BY <3>2, <3>3, ResultHolds DEF Good
  <2>3. ASSUME NEW s \in Services, Stop(s) PROVE ConnectorsInductive'
    <3>1. TypeOK /\ Sound(KindOf[s], TRUE, held[s])
      BY <2>3, AllSound DEF Stop, Sound
    <3>2. PICK o \in StopsOf(s) : Result(s, o.err, o.held)
      BY <2>3 DEF Stop
    <3>3. /\ o.err \in BOOLEAN /\ o.held \in Holdings
          /\ o.err = TRUE => Sound(KindOf[s], TRUE, o.held)
          /\ o.err = FALSE => Sound(KindOf[s], FALSE, o.held)
      BY <3>1, StopSound
    <3>4. QED  BY <3>2, <3>3, ResultHolds
  <2>4. QED  BY <2>1, <2>2, <2>3 DEF Next
<1>2. QED  BY InitHolds, <1>1, PTL DEF Spec

(* A started service has a client whose server has answered; one of SQL    *)
(* may have closed it, if its Stop failed.                                 *)
THEOREM StartedStaysProbed == Spec => []StartedIsProbed
<1>1. ConnectorsInductive => StartedIsProbed  BY DEF ConnectorsInductive
<1>2. QED  BY <1>1, ConnectorsHold, PTL

(* Only SQL and ElasticSearch services overwrite the field of a client     *)
(* that is open, and SQL only that of one that did not answer.             *)
THEOREM NothingGetsLost == Spec => []NothingIsLost
<1>1. ConnectorsInductive => NothingIsLost  BY DEF ConnectorsInductive
<1>2. QED  BY <1>1, ConnectorsHold, PTL

(* NATS, CQL and ElasticSearch services that are down hold no client. *)
THEOREM DownKeepsNothing == Spec => []DownHoldsNothing
<1>1. ConnectorsInductive => DownHoldsNothing  BY DEF ConnectorsInductive
<1>2. QED  BY <1>1, ConnectorsHold, PTL
=============================================================================
