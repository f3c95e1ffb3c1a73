----------------------------- MODULE Connectors -----------------------------
(***************************************************************************)
(* The clients that the services of services/ hold (all but Kafka's, for   *)
(* which see Kafka.tla), as the Maestro calls their Start and Stop: Start  *)
(* of a service that is not started, as often as it likes, until it        *)
(* succeeds; Stop of a service that is started, likewise.                  *)
(*                                                                         *)
(* Start and Stop are functions from what a service holds to the outcomes  *)
(* they may have.  What becomes of an open client is decided by the        *)
(* assignment that puts another one, or nil, into the field that held it.  *)
(*                                                                         *)
(* The servers and the libraries are external.  A probe is the PING, or    *)
(* what stands for it, that tells whether the server answers.  A Close of  *)
(* memcached that returns an error may have closed the client or not; that *)
(* of database/sql marks the database closed before anything can fail, and *)
(* does nothing to one that is closed.                                     *)
(***************************************************************************)
CONSTANTS Services, KindOf

Kinds == {"nats", "cql", "elastic", "memcached", "sql", "redis"}

ASSUME KindsAssumption == KindOf \in [Services -> Kinds]

VARIABLES
  up,       \* what the Maestro knows: is the service started?
  held      \* its client, and the open ones that nobody can close any more

vars == <<up, held>>

(* none: nil; unprobed, probed: open, and has the server answered?         *)
Open == {"unprobed", "probed"}
Clients == Open \cup {"none", "closed"}
Holdings == [client : Clients, lost : SUBSET Open]

TypeOK == up \in [Services -> BOOLEAN] /\ held \in [Services -> Holdings]

(* New opens nothing; a redis service is given its pool. *)
Init ==
  /\ up = [s \in Services |-> FALSE]
  /\ held = [s \in Services |->
               [client |-> IF KindOf[s] = "redis" THEN "unprobed" ELSE "none",
                lost |-> {}]]

-----------------------------------------------------------------------------
(* s.c = c: the client that was there is lost if it is still open. *)
Assign(h, c) == [client |-> c, lost |-> h.lost \cup ({h.client} \cap Open)]

Close(h) == [h EXCEPT !.client = "closed"]

(* Start and Stop return nil, or an error. *)
Nil(h) == [err |-> FALSE, held |-> h]
Err(h) == [err |-> TRUE, held |-> h]

(* The idempotent Start of five packages.  A client that is there is taken *)
(* for a good one; else there is none to be had, or it answers, or it does *)
(* not, which is handled in one of the ways `unanswered'.                  *)
Connect(h, unanswered) ==
  IF h.client # "none" THEN {Nil(h)}
  ELSE {Err(Assign(h, "none")), Nil(Assign(h, "probed"))} \cup unanswered

(* _ = s.Stop(...): its error is dropped, the one of the probe returned. *)
Failing(stopped) == {Err(o.held) : o \in stopped}

-----------------------------------------------------------------------------
(* NATS and CQL: when the server does not answer Start calls Stop. *)

CloseAndForget(h) ==
  {Nil(IF h.client = "none" THEN h ELSE Assign(Close(h), "none"))}

(* Mutant of StopNats: `s.c = nil' is left out. *)
StopNatsKeepsClient(h) == {Nil(Close(h))}

StopNats(h) == CloseAndForget(h)
StartNats(h) == Connect(h, Failing(StopNats(Assign(h, "unprobed"))))

StopCql(h) == CloseAndForget(h)

(* Mutant of StartCql: the session that does not answer is not stopped. *)
StartCqlUnstopped(h) == Connect(h, {Err(Assign(h, "unprobed"))})

StartCql(h) == Connect(h, Failing(StopCql(Assign(h, "unprobed"))))

(* ElasticSearch: the client is set to nil without being stopped. *)
StopElastic(h) == {Nil(Assign(h, "none"))}
StartElastic(h) == Connect(h, Failing(StopElastic(Assign(h, "unprobed"))))

-----------------------------------------------------------------------------
(* Memcached: Close may fail; a probe that finds a value stops the client  *)
(* and returns nil, the error it got.                                      *)

(* Mutant of StopMemcached: the client is forgotten although Close failed. *)
StopMemcachedForgets(h) ==
  CloseAndForget(h) \cup {Err(Assign(h, "none"))}

StopMemcached(h) ==
  CloseAndForget(h) \cup IF h.client = "none" THEN {} ELSE {Err(h), Err(Close(h))}

StartMemcached(h) ==
  LET stopped == StopMemcached(Assign(h, "unprobed"))
  IN  Connect(h, Failing(stopped) \cup {Nil(o.held) : o \in stopped})

(* SQL: each try opens a new database in place of the one before; Stop     *)
(* closes it in any case, keeps it and returns the error.                  *)
StartSql(h) ==
  {Err(Assign(h, "none")), Err(Assign(h, "unprobed")), Nil(Assign(h, "probed"))}
StopSql(h) ==
  {Nil(Close(h))} \cup IF h.client = "closed" THEN {} ELSE {Err(Close(h))}

(* Redis: a connection is made for the PING only, the pool is left alone. *)
StartRedis(h) == {Err(h), Nil([h EXCEPT !.client = "probed"])}
StopRedis(h) == {Nil(h)}

-----------------------------------------------------------------------------
StartsOf(s) ==
  CASE KindOf[s] = "nats" -> StartNats(held[s])
    [] KindOf[s] = "cql" -> StartCql(held[s])
    [] KindOf[s] = "elastic" -> StartElastic(held[s])
    [] KindOf[s] = "memcached" -> StartMemcached(held[s])
    [] KindOf[s] = "sql" -> StartSql(held[s])
    [] KindOf[s] = "redis" -> StartRedis(held[s])

StopsOf(s) ==
  CASE KindOf[s] = "nats" -> StopNats(held[s])
    [] KindOf[s] = "cql" -> StopCql(held[s])
    [] KindOf[s] = "elastic" -> StopElastic(held[s])
    [] KindOf[s] = "memcached" -> StopMemcached(held[s])
    [] KindOf[s] = "sql" -> StopSql(held[s])
    [] KindOf[s] = "redis" -> StopRedis(held[s])

(* The service is started if Start returns nil, or Stop an error. *)
Result(s, u, h) ==
  /\ up' = [up EXCEPT ![s] = u]
  /\ held' = [held EXCEPT ![s] = h]

Start(s) == ~up[s] /\ \E o \in StartsOf(s) : Result(s, ~o.err, o.held)
Stop(s) == up[s] /\ \E o \in StopsOf(s) : Result(s, o.err, o.held)

Next == \E s \in Services : Start(s) \/ Stop(s)

Spec == Init /\ [][Next]_vars

-----------------------------------------------------------------------------
(* A started service hands out an open client whose server has answered,   *)
(* although Start takes any client it finds for a good one (Client).       *)
(* Two kinds do not keep it.  A memcached service may be started with a    *)
(* client that has not answered or is closed, when Close failed, or with   *)
(* none, when the probe found a value; an SQL service whose Stop failed    *)
(* stays started with the database that Stop has closed, but never has one *)
(* that did not answer.                                                    *)
StartedIsProbed ==
  \A s \in Services : up[s] =>
    /\ KindOf[s] \notin {"memcached", "sql"} => held[s].client = "probed"
    /\ KindOf[s] = "sql" => held[s].client \in {"probed", "closed"}

(* No connection is left open that nobody can close any more, by no        *)
(* sequence of failed starts, failed stops and restarts: no assignment to  *)
(* the field of an open client, in Start or Stop, comes before its Close.  *)
(* SQL services lose databases that did not answer, but none they were     *)
(* started with; ElasticSearch services lose any client they stop.         *)
NothingIsLost ==
  \A s \in Services :
    /\ KindOf[s] \notin {"sql", "elastic"} => held[s].lost = {}
    /\ KindOf[s] = "sql" => "probed" \notin held[s].lost

(* A service that is not started holds nothing: nobody would stop it.      *)
(* Memcached and SQL services hold what could not be closed, or what did   *)
(* not answer; the pool of a redis service is its user's.                  *)
DownHoldsNothing ==
  \A s \in Services :
    KindOf[s] \in {"nats", "cql", "elastic"} /\ ~up[s] =>
      held[s].client = "none"
=============================================================================
