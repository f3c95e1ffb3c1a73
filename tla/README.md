# BandMaster, specified and checked

This directory is a TLA+ development of [BandMaster](../src/README.md), a Go
library that boots and shuts down the services of a program (database clients,
message queues...) in the order of their dependencies. It holds the modules,
the configurations with which TLC checks them on small instances, and proofs,
checked by TLAPS, of what matters most for instances of any size.

## 1. The system

| part | where | state | operations |
|---|---|---|---|
| Maestro | `maestro.go` | `lock`, `services` | `AddService`, `Service`, `ServiceReady`, `StartAll`, `StopAll` |
| ServiceBase | `service.go` | `started`, `stopped`, `startedCs`, `stoppedCs`, `directDeps`, retry configuration | `start`, `stop`, `Started`, `Stopped`, setters, `addDependency` |
| dependency checks | `maestro.go` | none (local) | `hasMissingDeps`, `hasCircularDeps` |
| errors | `errors.go` | none | the kinds of errors, their wording |
| global Maestro | `maestro.go` | one package variable | `GlobalMaestro`, `ReplaceGlobalMaestro` |
| connectors | `services/*/service.go` | the client each one holds | `New`, `Start`, `Stop`, `Client` |
| Kafka watchers | `services/kafka/helpers.go` | two or three goroutines | `WatchConsumerEvents`, `WatchProducerEvents` |
| users of Kafka | their code | the channel each gives with its message | send, wait, give up |
| configuration | `services/*/env.go` | none | environment variables to client options |

**How they interact.** `StartAll` holds the Maestro's lock as a writer until it
returns. It checks the dependency graph, then runs one goroutine per service
(`Maestro.start`). A goroutine waits for the dependencies of its service one
after the other: `d.Started()` makes a channel, closed if `d` is started, and
registered in `d.startedCs` otherwise. `d.start(nil)` closes the registered
channels and forgets them; `d.start(err)` sends the error to each of them and
keeps them. When all dependencies are up the goroutine calls the service's own
`Start`, which it retries with a backoff. `StopAll` mirrors this with
`stoppedCs`, and waits for the services that depend on one (its *parents*).
User goroutines may register services and run operations, call
`Started()`/`Stopped()` and read the channels, or call `ServiceReady`.

**What is hard.** Goroutines ask for channels, read them, publish results and
leave in any order. Errors are only sent to the channels registered by then.
Channels have a capacity (32), are never unregistered after a failure, and a
send on a full one blocks with the service's lock held. Contexts end at any
time, and are looked at in some waits and not in others. A failed shutdown
leaves a service started, and the next boot finds it so. Services can be
registered between operations, by several goroutines, in a global Maestro that
others replace; a registration that panics leaves an object half configured, and
the same object may be registered again. The hazards are listed, with their lines and the
properties that cover them, in `PROJECT.json`.

**What makes each part correct.**

* Maestro: boots and shutdowns happen in the order of the dependency tree;
  the returned channel tells exactly what did not work; the operations return.
* ServiceBase: no wake-up is lost; the two flags stay opposite.
* dependency checks: they end, and refuse exactly the graphs that cannot boot.
* registry: a service stays registered as its caller asked for, a panic says what
  is wrong, locks are freed; no Maestro that is replaced is lost.
* `ServiceReady`: it ends when the service is up or when the context ends.
* connectors: a started service hands out a usable client, a stopped one holds
  nothing open, also across retries and restarts.
* Kafka: besides, its watchers do not crash, end with the service, and tell every
  user what has become of its message.

## 2. The modules

| module | models |
|---|---|
| `ServiceBase` | the flags and channels of every service, and the effect of each method of `ServiceBase` |
| `DependencyGraph` | what is missing and what is circular in a graph, without an algorithm |
| `Maestro` | extends both: the registry, `StartAll`, `StopAll`, their goroutines, and user goroutines |
| `DependencyOrder` | the abstract specification: a phase per service, and the order in which phases change |
| `Registry` | the registration of services step by step, and the global Maestro |
| `DependencyCheck` | the two checks of `StartAll`, step by step |
| `Connectors` | the client that each service of `services/`, but Kafka's, holds |
| `Kafka` | the Kafka service, the goroutines that watch its events, and its users |
| `MCMaestro`, `MCRegistry`, `MCDependencyCheck`, `MCConnectors`, `MCKafka` | instances for TLC |
| `MaestroProofs`, `MaestroOutcomeProofs`, `MaestroChannelProofs`, `MaestroProgressProofs` | the order of boots and shutdowns; what operations return; the channels and their readers; why operations end |
| `RegistryProofs`, `DependencyCheckProofs`, `ConnectorsProofs`, `KafkaProofs` | theorems and proofs about the others |

`DependencyOrder` is implemented twice: by `Maestro`, for whom it is the order of
boots and shutdowns (`RefinesDependencyOrder`), and by each Maestro of `Registry`,
whose many-step registrations it sees as one `Declare` (`DeclaresOnly`).

### 2.1 ServiceBase

A method of `ServiceBase` holds the service's lock from its first line to its
last, so that each is one step. `Started(l, s)` is the call `s.Started()` by
goroutine `l`; `BaseStartNil(s)` and `BaseStartErr(s)` are `start(nil)` and
`start(err)`; `Stopped`, `BaseStopNil`, `BaseStopErr` their mirrors.

A goroutine reads one channel at a time, so a channel is known by its reader:
`unread[l]` counts the errors waiting in it and `closed[l]` says whether it is
closed. The value of the errors is not needed: a reader only asks whether one is
nil. Channels that nobody reads any more stay in the lists of the code. All that
can be observed of them is that they fill up, and since an error goes to every
channel of a list the oldest is the first one full: one number per list,
`startedBacklog` and `stoppedBacklog`, stands for them. There always is such an
oldest channel, because the first `select` of `start` and of `stop` registers one
that nobody reads. When it is full, the send blocks: the service is *jammed*, no
other method of it can run, and the readers registered before that channel have
their error (which ones those are is left open: any set of the user goroutines
that have room).

`startedErr` and `stoppedErr` are written and never read in the code; they are
left out. `Name`, `Required`, `RetryConf`, `Dependencies` only read.

### 2.2 Maestro

`op` is the operation that holds the lock (`none` if nobody does). `pc[s]` is
where the goroutine of `s` is:

| pc | in `start` (in `stop`) |
|---|---|
| `check` | about to run the first `select` (223; 327) |
| `deps` | between two waits (237; 346) |
| `await` | reading the channel of a dependency (242), of a parent (348) |
| `call` | inside the service's own `Start` (256; 363) or `Stop` |
| `backoff` | asleep before a retry (269; 376) |
| `depFailed`, `callFailed` | about to call `base.start(err)` (249, 263; 356, 370) |
| `stuck` | blocked on a full channel in that call |
| `idle` | no goroutine, or returned |

The actions `StartCheck`, `StartAwait`, `Receive`, `Call`, `StartCallOk`,
`StartCallErr`, `Backoff`, `StartPublish` are the steps between two points where
another goroutine can interfere; `StopCheck`... are those of `stop`. What the two
functions have in common is written once (`Check`, `Await`, `Receive`, `Call`,
`CallErr`, `Backoff`). The services' own `Start` and `Stop` are external: they
succeed, or return an error when the service is in `StartFails` (`StopFails`).

`errC` collects the errors sent on the channel the operation returns, as pairs of
a service and a kind. The bare context error of line 271 (377) is a kind of its
own: the caller cannot tell from it which service it is about, the model can.
After `Return` it is empty: the channel is the caller's.

`AddService` covers the calls that succeed, in one step, and a service is
identified with its name; `Registry` says when this is right. `StartAll` is one step up to the spawning of the goroutines; how the two
checks come to their verdict is `DependencyCheck`'s subject, and `Maestro` uses
their definition from `DependencyGraph`.

A watcher (`wpc`, `wtarget`, `wcancelled`) is a user goroutine inside
`ServiceReady`: `Lookup` waits for the Maestro's lock, `Subscribe` calls
`Started()`, which waits for the lock of the service, then it reads its channel.
The first two waits do not look at its context. `AwaitStopped` is one that reads the
channel of `Stopped()`, as the tests do.

### 2.3 Registry

`AddServiceWithBackoff` holds the Maestro's lock from `Lock` to `Unlock`, and
configures the object it is given by calls that each take that object's own lock
and free it again: `SetName`, `SetConf` (`setRequired` and `setRetryConf`, which
differ in nothing a property tells apart: `conf[o]` is the call whose values an
object has), `AddDependency`. The object may be in the hands of another call at
the same time, on another Maestro or after it has panicked here, so that each is
a step. `Check` and `AddDependency` may panic; `Stored` are the dependencies that
`addDependency` keeps before it does. `Unlock` is the deferred unlock; a call that
has panicked is then `recovered`.

`Begin` is `GlobalMaestro().AddService(...)`: it reads the global Maestro, which
`ReplaceGlobalMaestro` (`GmLock`, `GmRead`, `GmWrite`) may replace before the lock
of the old one is taken. `held[w]` is the Maestro a caller passes and then the one
it is given back.

What holds depends on whether an object is given to one call only (`Once`). If
not, the code lets the second registration rename the object and add to its
dependencies while the first stays in the registry: `RegisteredAsGiven` promises
what is left then, that the dependencies asked for are among those it has, and that
its name, its retries and each of its dependencies are what one of the calls has
asked for (`Origins`), in full or before a panic. `PanicsAreFounded` holds of such
objects too: a dependency that is refused as a duplicate, or as the service itself,
is so because of this call or of another with the same object.
`ShutdownMirrorsBoot` compares the edges a boot waits along, from the names of
dependencies to the registry, with those a shutdown does, from the name an object
has to the dependencies of others.

### 2.4 DependencyCheck

The recursion of `hasCircularDepsRec` is a `path` of services (the keys of `met`,
by level) with the dependencies still to follow from each (`todo`); `Descend` is
the call, `Backtrack` the return of false, `Report` the error, which makes all
calls return. Maps are ranged over in any order. `LookUp` blocks when the channel
is full. A Go program is free to range over a map in any order, but it looks the
dependencies of one service up before those of the next, and so does `LookUp`.

### 2.5 Connectors

The Maestro calls `Start` of a service that is not started and `Stop` of one that
is, one at a time, again after each failure, so that each is one step. `held[s]` is
what the service holds: `client` is the field `s.c` (the database of sql, the pool
of redis): `none` for nil, `unprobed` when it has been opened, `probed` once the
server has answered the `PING` or what stands for it, `closed`; `lost` are the open
clients that nobody can close any more.

`Start` and `Stop` of each kind are functions from what a service holds to the
outcomes they may have, an error or nil and what is held then. They are composed of
the statements of the code: `Assign` is an assignment to the field, and it is there,
for all kinds alike, that an open client which was in the field is lost; `Close`
closes it. `Connect` is the body of the five packages that open a client `if s.c ==
nil`; they differ in what they do when the server does not answer, mostly `_ =
s.Stop(...)` (`Failing`). The three ElasticSearch versions share their code. NATS
and CQL close what they forget, ElasticSearch does not; memcached keeps the client
when `Close` fails, and returns the error of its `Get`, nil when it finds a value;
SQL assigns at each try, and keeps what it has closed; redis leaves its pool alone.

The servers and their client libraries are external. A `Close` of memcached that
fails may have closed the client or not. `sql.DB` is closed by `Close` in any case,
also when that returns an error, and a second `Close` does nothing: a service of SQL
whose `Stop` failed stays started with a closed database.

### 2.6 Kafka

`Stop` (service.go, 106-125) is split into `StopCancel`, `CloseConsumer`,
`DropConsumer` and `CloseProducer`, since the goroutines of `helpers.go` run
beside it without a lock and read `s.c` and `s.p` again at every turn. `call` says
how far the running call is. A goroutine is at its `turn` before the operands of
its `select` are evaluated, at `select` while it waits, `drained` when the
channel it waits on is closed, `sending` while it hands an error to the sender of
a message, and `gone` when it has returned. At `turn` it follows the pointer: nil
makes it `crashed`, which ends the program, so that nothing runs any more
(`Alive`). Each of the two calls is made once, as their documentation asks for, at
any time. A configuration (`conf`) says whether there is a consumer and which of
the four `Return` options are enabled; `Spawn` looks at the options only, as the
code does, also where there is no consumer.

A user (`sender`) sends a message to the producer with a channel as its
`Metadata`, waits on it, and may give up. `event` is where its message is: `sent`
to Kafka, in one of the two channels of the producer (`Deliver`; dropped when the
option is off), `taken` by the goroutine that is to send its error, or `over`. The
error can be sent when the user waits or when its channel has room (`Buffered`).
Sarama and the users are external: `Close` ends the channels of its client and
drops what they hold. When it returns an error it may have closed the client all the
same, or have left it open; the next `Stop` then closes it once more, which may fail
too.

## 3. The runs

| run | instance | what it shows |
|---|---|---|
| `tree` | the tree of `maestro_test.go` (b needs a, c needs a and b), all of them may fail, retries 0, 1, 2, contexts end at any time, channels of capacity 2 | the order (`RefinesDependencyOrder`, `OrderInductive`), the retries (`GivesUpOnLastTry`), what the channel says (`SilenceIsSuccess`, `BlameIsFounded`, `ErrCFits`, `OutcomeInductive`), that channels fill up between operations and not within one (`RoomLasts`), that the end comes nearer (`WorkShrinks`), and `OperationsReturn` |
| `graphs` | any dependencies among three services, registered in any order, nothing fails | `NoNilDependency`, `DependenciesUp`, `NoDeadlock`, `BootCompletes`, `ShutdownCompletes` |
| `watched` | two services, one user goroutine, failures, channels of capacity 2 | `NoLostWakeup`, `ReadyIsServed`, `ReadyIsCancelled` |
| `checks` | every graph over four names, any subset of them registered | `VerdictIsRight`, `ChainIsGenuine`, `CheckInductive`, `ChecksShrink`, `ChecksEnd` |
| `connectors` | one service of each of the six kinds, any results, any number of starts and stops | `StartedIsProbed`, `NothingIsLost`, `DownHoldsNothing`, each for the kinds that keep it |
| `registry` | two calls of `AddService`, on two objects with a base and one without, two names, dependencies that are none, one, or one twice; two replacements of the global Maestro | `RegisteredAsGiven`, `PanicsAreFounded`, `ShutdownMirrorsBoot`, `NoMaestroIsLost`, `DeclaresOnly`, `CallsEnd`, `RegistryInductive` |
| `kafka` | four configurations, with and without a consumer, both calls of the watchers, two users, one whose channel has no room, any number of restarts | `BootGivesConsumer`, `NothingIsForgotten`, `NoAnswerIsLost`, `CrashIsExplained`, `WatchersEnd`, `SenderIsAnswered`, `KafkaInductive` |
| `late_dependent` | two services, the first fails | **violated**: `StartAllReturns` |
| `cancelled_boot` | two services, no failure, contexts end | **violated**: `StartAllReturns` |
| `missing_overflow` | graphs with missing dependencies | **violated**: `ErrorsArePushed` |
| `kafka_restart` | as `kafka` | **violated**: `BootGivesProducer` |
| `kafka_watch` | as `kafka` | **violated**: `ConsumerIsThere` |

An inductive invariant has the type invariant, and the weaker invariants that it
needs, among its conjuncts: `OrderInductive` has `TypeOK` and `FlagsOpposite`,
`OutcomeInductive` has `GivesUpOnLastTry`, `CheckInductive` has `WalkIsSafe`,
`KafkaInductive` has `KafkaTypeOK` and `ProducerIsThere`. The ones that no run
lists are checked by these.

**Bounds.** Three services are the least for a service with two dependencies, one
of which depends on the other, for a chain of two waits, and for a cycle that
does not contain the service the walk starts from; four in `checks` add the
diamond. Retry limits 0, 1 and 2 cover the boundary of `attempts >= maxRetries`.
Capacity 2 (32 in the code) lets a reader find no, one or several errors, and
fills a channel after two failures; no action tests the capacity but for being
reached. One watcher suffices for the properties about watchers, which relate
one to the services; they do not interact with each other but through the
lists, whose capacity is shared. Nothing else is bounded: the state spaces are
finite because counters stop at the capacity of channels and at the retry limit.
`Connectors` has no bound at all: one service of each kind is the general case,
since connectors share nothing, and a client has four states. `Kafka` bounds the
users and the messages, one each: two users are what it takes for one to hold the
goroutine the other waits for. Two calls of `AddService` meet on a name, an object
and a Maestro, or come one after the other, and two replacements are what it takes
to lose a Maestro; a duplicate is found in a list of two, and among what an earlier
call has left. The `kafka` run has 80 thousand states, `registry` 270 thousand.

**Deadlock** is not an error in these runs: a program in which all goroutines are
done, or hang as shown by the violations, has no next step.

**Fairness.** A goroutine that can run does, one weak fairness condition per
goroutine and operation: Go's scheduler is preemptive, calls and sleeps of
services end (the code has no other hope either), and a `select` that has a ready
case takes it. A watcher that wants the Maestro's lock gets it although operations
follow one another: `sync.RWMutex` admits the waiting readers when a writer
unlocks, hence strong fairness of `Lookup`. A reader that has both its
channel and its context ready takes one of them. Nobody is obliged to start an
operation, to cancel, or to call `ServiceReady`. In `Registry` a call that has begun
goes on: weak fairness suffices, for nobody takes a Maestro's lock twice, and
`CallsEnd` needs nothing of those that have not begun. In `Kafka` a goroutine that
can take its turn does, and one that comes back to a `select` again and again does
not ignore for ever a case that is always ready (the end of the context, the event
of a message), strong fairness of `Ready`: Go chooses among the ready cases at
random. Kafka delivers what it is given (`Deliver`), and a send on the channel of a
user that waits goes through (`TellError`). Nobody has to send, to read the channel
of its message, to start or to stop.

## 4. Where code and documentation disagree

`StartAllReturns` is what the documentation of `StartAll` says, *on success the
channel is closed, on failure one or more errors are returned, then it gets
closed*: in either case it returns. Two runs show it not to:

1. `late_dependent`: a dependency publishes its failure before the dependent has
   asked for its channel. `Started()` does not replay errors.
2. `cancelled_boot`: a goroutine that finds its context done returns without
   telling those that wait for its service, and they do not look at the context.

A third way takes many operations: the first `select` of `start` registers a
channel that nobody reads (224), only a successful boot removes it, and after 32
failed boots the next failure blocks on it with the lock of the service held. No
run is given to it, since it is the same statement that fails; it is why
`OperationsReturn` asks for `Room`, and it is reached in `tree` and `watched` after
two failures (`stuck`, `jammed`). `RoomLasts` bounds the damage: an operation adds one
error to each list at most, however many of its tries fail, so that one that begins
with room is not itself the one that hangs.

`missing_overflow` is inside the checks: more missing dependencies than services
overflow a channel that the caller does not have yet. `StopAll` has all but the
last in its own half of the code (lines 348, 331 and 377, 328).

`OperationsReturn`, which holds, is the other side: an operation returns unless
one of its goroutines waits for a service whose goroutine is gone and told it
nothing (`Orphaned`: 1 and 2), or a channel was full when it began (the third).

Two more are in the Kafka service. `kafka_restart`: after closing the producer
`Stop` resets `s.c` (service.go, 122), and the next `Start` keeps the closed
producer. `kafka_watch`: a goroutine that handles a consumer event while `Stop`
sets `s.c` to nil follows that pointer at its next turn (helpers.go, 65 and 83).
The one slip makes up for the other: the goroutines of the producer are safe
(`ProducerIsThere`) only because its field is never reset.

Some connectors do not keep what the others do, and the properties of
`Connectors` say which: SQL loses the databases of failed tries and ElasticSearch
the clients it stops (`NothingIsLost`); memcached can be started without a client
that answers, because its `Start` returns the error of `Get`, nil when the key it
probes exists, and SQL, after a `Stop` that failed, with a database that this `Stop`
has closed (`StartedIsProbed`). `WatchConsumerEvents` takes a context that it
does not look at while it waits (helpers.go, 41).

Without a configured consumer `WatchConsumerEvents` still starts its goroutines when
the options are enabled, as they are by default, and they follow a nil pointer at
once (helpers.go, 65 and 83): `CrashIsExplained` names this and a stop as the only
ways to crash. A failure whose user has gone and left no room in its channel holds
the goroutine that reports failures, and all later ones with it (helpers.go, 132):
`WatchersEnd` and `SenderIsAnswered` except it by name (`Stuck`).

`ServiceReady` "will unblock" when its context is cancelled, but it first waits for
the Maestro's lock (line 146) and for that of the service: behind an operation that
hangs it hangs too. `ReadyIsCancelled` counts from the call, and says that this is
the only thing that can keep it (`Hangs`).

`AddService` of an object that is registered already, under another name, is not
refused: the object changes its name, its retries, and gets the new dependencies
besides the old ones. Of the properties of `Registry`, `ShutdownMirrorsBoot`,
`DeclaresOnly` and what `RegisteredAsGiven` says of the name are about objects given
once; the others hold of all. The wording of errors has no case for
`ErrParentUnavailable`, which prints as `error: undefined` (errors.go, 118).

## 5. What is proved

Every invariant that a passing run checks is proved for all values of the constants,
and so are the action properties and the two refinements.

`MaestroProofs` proves, for any finite set of services, any watchers, dependencies, retry
limits and failures, and any capacity:

* `TypeCorrect`, `FlagsStayOpposite`: `TypeOK` and `FlagsOpposite` always hold.
* `DependenciesStayUp`: while a service boots, is up or shuts down, its
  dependencies are up.
* `Refinement`: `Spec => RefinesDependencyOrder`, the Maestro implements
  `DependencyOrder`.

The argument is the inductive invariant `OrderInductive`. That dependencies are
up when a service boots is not inductive: it depends on what the goroutine was
told. `BootProgress` says that the dependencies that are not *ahead* of a
goroutine any more are started, and that a closed channel means that the service
it waits for is started; for the latter, `ListedWait` says that only the
goroutine that waits for a service now is in its list, so that nobody is woken
for another service, and `AwaitsOne` and `Targeted` that a wait has a service to
wait for. `HaltProgress` is the mirror image, in which the parents that are not
ahead are down, and needs `FlagsOpposite`, because a goroutine reads *stopped*
where the invariant speaks of *started*. `StartedOnStarted`, every started
service has its dependencies started, is then preserved: a boot adds a service
whose dependencies are all behind, a shutdown removes one whose parents are all
behind, and while the one runs the other does not (`Registered`). The refinement
maps the state to `phase` and follows step by step.

`DependencyCheckProofs` proves of the checks, for every finite set of names and
every graph over it:

* `VerdictsAreRight`: what is accepted has no missing dependency and no cycle,
  and what is refused has what the errors say.
* `ChainsAreGenuine`: the chain of an error is a way along dependencies that ends
  at a service it has passed.
* `WalksAreSafe`: the walk never leaves the registered services and never meets
  one twice on a path, which bounds the depth of the recursion.

A cycle is stated without paths: `Circular` is the union of all *knots*, sets in
which each service depends on another one of the set. This is what makes the
proof first-order. That the walk refuses only cyclic graphs is seen in the state:
the services from the one met again to the end of the path are a knot
(`ReportInductive`). That it accepts only acyclic ones is `ExploredIsAcyclic`: of
the roots already taken and the dependencies already followed, only those on the
current path may be circular. `Backtrack` is the step that needs an argument: the
last service of the path has had all its dependencies followed and found not
circular, and whoever is circular depends on somebody who is (`CircularGoesOn`),
so it is not circular either. When the path and the roots are used up nothing
circular is left.

That the walk ends is proved too, but for the fairness that makes it take steps.
`Left` is what it has left to do: the stages, the services not looked up, the
roots, and at each level of the path the dependencies not followed.
`ChecksAlwaysShrink`: each step lowers the first of these numbers that it changes,
within a number of levels (`Levels + 3`) that does not grow, since a path meets no
service twice and so is no longer than there are services (`DepthIsBounded`, by an
injection). `WalkDescends` puts it together: in every behaviour of `CheckSpec` the
measure is one of `Measures` at each state, each step that is not a stutter goes to a
`Lower` one, and `Lower` is well-founded on `Measures` (by the theorem of the library
about the lexicographic order). No behaviour takes infinitely many steps. A service
may be walked over once for each path that leads to it, as the code keeps no set of
visited ones; the measure shows that this is finite, not that it is short.

`MaestroOutcomeProofs` proves what `StartAll` and `StopAll` return:

* `NoNilIsCalled`, `TriesAreCounted`: all dependencies a goroutine waits for are
  registered; it fails after `max(1, maxRetries)` tries.
* `ErrorsFit`, `SilenceMeansSuccess`, `BlameIsAlwaysFounded`: the errors fit in the
  channel, every service without one is where it should be, and who blames another
  is right.

The argument is `OutcomeInductive`. An operation is refused, and then nothing runs
any more (`RefusalIsFinal`), or it is not, and then a service has at most one error
(`OneErrorEach`) and has it only when its goroutine has ended (`Reports`): an
error to be read in the channel of a goroutine is about a service that has failed
in this operation and is not up. For the latter the lists matter: only goroutines
of this operation are in them, because those of an earlier one have taken their
channels out of the model when they left. That `errC` is no larger than `services`
follows from an injection of the one in the other (`OneErrorEach` and
`FS_Injection`); the errors of a refusal are as many as the missing dependencies,
which fit or block `StartAll` before it has an outcome. `DependencyUnavailable`
needs that nobody's state changes behind its back: a service that has failed has
no goroutine left.

`MaestroChannelProofs` proves `NoWakeupIsLost`. Its invariant `Channels` has, besides
who is in which list, that the number kept per list bounds what each channel of the
list holds (`BacklogsBound`): it is what makes one number per list a sound
abstraction, and each of the two needs the other. About
`ServiceReady` it proves what `ReadyIsServed` comes down to when fairness is set
aside: once the service is up the channel of a reader is closed and holds no more
than `ChanCap` errors (`ReadyWhenUp`), and from then on nothing is added to it and
each error skipped is one fewer (`ReadersDrain`), because a closed channel is in no
list (`ClosedForGood`).

`MaestroProgressProofs` proves, for any instance, why an operation ends, and when
it does not:

* `NobodyDeadlocks`: while a goroutine of an operation is left, one can go on
  (`Runnable`), or one waits for a service that has failed and will not tell it
  (`Unheard`), or a channel is full (`jammed`). They never just wait for each other.
* `WorkAlwaysShrinks`: each step of a goroutine lowers `Work`, a natural number
  made of the services still to wait for and the tries still to make, and nobody
  else's step raises it. An operation thus has a bounded number of steps.
* `RoomIsEnough`: `RoomLasts`, an operation that begins with room for one more error
  in every list meets no full channel, whatever fails in it. `RoomIsRoomy`: the `Room`
  that `OperationsReturn` asks for is such room.
* `TheUnheardWaitForEver`: no step of anybody, the end of a context included,
  frees a goroutine that is `Unheard`, and its operation never returns. The runs
  `late_dependent` and `cancelled_boot` show that it comes to this; the theorem
  that it is final, for any instance.

What `OperationsReturn` adds, and TLC checks, is that a goroutine that can go on
does. For the first, suppose that nobody can go on. Then every goroutine waits for
another one (`WaitsForRunning`, from `OutcomeInductive`: whoever has ended has
succeeded, and closed the channel, or failed). In a boot those that wait are a
knot, which `hasCircularDeps` has excluded among the registered services
(`BootIsAcyclic`). A shutdown checks no graph: each of those that wait is waited
for by a dependency of its own, and going backwards in a finite set leads into a
circle (`BackwardsCircle`, by a smallest set closed under going back). All of them
are started, and what is started has no circle (`StartedIsAcyclic`): this is what
the boots that started them leave behind, because a registered service keeps its
dependencies. `ProgressInductive` is the conjunction of these.

`RegistryProofs` proves, for any Maestros, names, objects and callers,
`RegistrationsLast`, `PanicsAreTrue`, `MaestrosAreKept`, `WaitsMirror` and
`RegistryDeclaresOnly`. `RegistryInductive` adds to what they say which locks are
held where (`Exclusive`) and how far an object is configured at each point of its
call (`Configured`): an object that is given once has no dependencies until
`addDependency` is called, and of any object each dependency is one that a call past
`addDependency` has asked for (`Origins`), so that a duplicate it finds is one of the
list or such a call's. `WaitsMirror` follows from `RegisteredAsGiven`, since the name
of an object is then the one it is registered under. `LocksAreFreed` is what `CallsEnd` comes down to
without fairness: a lock that is taken is held by a call that is under way and
waits for no other lock of a Maestro, also after any number of panics.

`ConnectorsProofs` proves the three properties of `Connectors` for any number of
services of each kind, by cases on the kind. What a call leaves is shown of the
functions first (`ConnectSound`, `StartSound`, `StopSound`), of each outcome they may
have, and then of the steps. They hold together: that a started
service has a client that answered needs `DownHoldsNothing`, as `Start` takes any
client it finds for a good one, and that SQL loses none that has answered needs that
the database of one that is not started is closed or has not answered
(`DatabaseIsClosed`). `KafkaProofs` proves
`ProducersAreThere`, `CrashesAreExplained`, `BootsGiveConsumers` and
`NoClientIsForgotten` for any users and configurations. `KafkaInductive` relates
where a call of `Start` or `Stop` is to the clients there are, and says that
whoever watches has waited for a boot, after which the producer is never nil again.
`NobodyIsOverlooked` is what `SenderIsAnswered` comes down to without fairness:
until the service is stopped, with both events of the producer enabled, the message
of a user who waits is with Sarama, in a channel, or taken by the goroutine that is
about to tell him. It holds that of one user at a time and only while it is
`sending`; the proof needs that each of the two calls starts its goroutines
once (`SpawnedOnce`), or a second start would forget a message that was taken.

The assumptions are those of the modules (`MayDependAssumption`,
`MaxRetriesAssumption`, `NoServiceAssumption`, `ServicesAssumption`,
`ChanCapAssumption`, `ListenersAssumption`, `NamesAssumption`, `MayAddAssumption`,
`OwnAssumption`, `NoneAssumption`, `CallersAssumption`, `KindsAssumption`,
`ConfigsAssumption`, `BufferedAssumption`): types, that sets that stand for
different things are disjoint, that there are finitely many services, and that
each caller brings a Maestro of its own to `ReplaceGlobalMaestro`.

Only model-checked: the liveness properties (`OperationsReturn`, `BootCompletes`,
`ShutdownCompletes`, `ReadyIsServed`, `ReadyIsCancelled`, `ChecksEnd`, `CallsEnd`,
`WatchersEnd`, `SenderIsAnswered`), since fairness and `ENABLED` are out of the
prover's reach. For most of them what they need of the reachable states is proved:
that somebody can go on and has less and less to do (`OperationsReturn`, and with it
`BootCompletes` and `ShutdownCompletes`, `ChecksEnd`), that nothing is in the way of
a reader (`ReadyIsServed`), of a lock (`CallsEnd`) or of an answer
(`SenderIsAnswered`).

## 6. What is not modelled

The wording of errors and logs. The durations of backoffs: a retry happens any time
later. The configuration from the environment, a field-by-field conversion that
keeps no state; of the Kafka options `Kafka` takes those that its code looks at. The
inside of the third-party clients. The example and the generic test helper, which
call the operations in sequence and keep no state. Goroutines that call the
watchers of Kafka more than once, which their documentation excludes. Readers of a
channel of `Started()` who read it without `ServiceReady`: they are its loop
without the lookup.

## 7. Plan

1. *done* `ServiceBase`, `Maestro`, `DependencyOrder`, the order of boots and
   shutdowns proved.
2. *done* `DependencyGraph`, `DependencyCheck`, proved for every graph.
3. *done* `Registry`: the registration step by step with its panics, the global
   Maestro, proved; it implements `Declare` of `DependencyOrder`.
4. *done* `Connectors`, proved for any number of services.
5. *done* `Kafka`, with configurations and users, proved but for its liveness.
6. *done* proofs of all invariants and action properties of the runs.
7. *done* the safety half of termination: `MaestroProgressProofs`, and the measure of
   the dependency checks.
8. A proof that the two calls of `Kafka` keep the promises of an abstract client
   (never open twice, closed before it is forgotten), and that the room of a channel
   lasts `ChanCap - 1` failed operations, for any capacity.
