------------------------------ MODULE Registry ------------------------------
(***************************************************************************)
(* The registration of services (AddService in maestro.go, the setters and *)
(* addDependency of service.go) and the package-level Maestro.             *)
(*                                                                         *)
(* A registration holds the lock of its Maestro, configures the object it  *)
(* is given in several steps, each under the lock of that object, and puts *)
(* it in the registry at last.  It may panic on the way: its lock is freed *)
(* by a defer, what it did to the object remains.  Goroutines register     *)
(* services in whatever Maestro GlobalMaestro() returns, recover from      *)
(* panics, and may try the same object again; others replace that Maestro. *)
(* Maestro.tla takes a service for its name and a registration for a step; *)
(* this module says when it may (DeclaresOnly, ShutdownMirrorsBoot).       *)
(***************************************************************************)
EXTENDS Naturals, Sequences

CONSTANTS
  Maestros,
  Names,
  Objects,    \* what implements Service, each with its own ServiceBase...
  Baseless,   \* ...or with none
  Adders,     \* the calls of AddService, one goroutine each
  MayAdd,     \* the names, objects and dependencies they may be given
  Swappers,   \* the calls of ReplaceGlobalMaestro
  FirstGM,    \* the Maestro the package starts with
  Own,        \* the one that each of those calls brings along
  None        \* nil, nobody, or nothing yet

VARIABLES
  lock,        \* the writer of each Maestro.lock
  registry,    \* Maestro.services
  name,        \* ServiceBase.name
  conf,        \* whose required, retries and initialBackoff a service has
  directDeps,  \* ServiceBase.directDeps
  arg,         \* what each call of AddService was given, and on which Maestro
  err,         \* the kind of the error it panicked with
  gm,          \* _gm
  gmLock,      \* the writer of _gmLock
  cur,         \* the local of that name of each call of ReplaceGlobalMaestro
  held,        \* the Maestro the caller gives, then the one it is returned
  pc           \* where each call is

baseVars == <<name, conf, directDeps>>
callVars == <<lock, registry, arg, err>>
globalVars == <<gm, gmLock, cur, held>>
vars == <<callVars, baseVars, globalVars, pc>>

(* The fatal kinds of errors.go: those AddService panics with *)
Kinds == {"AlreadyExists", "WithoutBase", "DependsOnItself",
          "DuplicateDependency"}

ASSUME MayAddAssumption == MayAdd \subseteq Names \X Objects \X Seq(Names)
ASSUME OwnAssumption ==
  /\ FirstGM \in Maestros
  /\ Own \in [Swappers -> Maestros \ {FirstGM}]
  /\ \A v, w \in Swappers : Own[v] = Own[w] => v = w
ASSUME NoneAssumption ==
  None \notin Maestros \cup Names \cup Objects \cup Adders \cup Swappers
                \cup Kinds
ASSUME CallersAssumption == Adders \cap Swappers = {}

(* In the order of the code; done and recovered are the two ends. *)
AdderPCs == {"idle", "lock", "check", "name", "conf", "deps", "insert",
             "unlock", "done", "panic", "recovered"}
SwapperPCs == {"idle", "read", "write", "done"}

NoCall == [m |-> None, n |-> None, o |-> None, ds |-> <<>>]
Calls == [m : Maestros, n : Names, o : Objects, ds : Seq(Names)]

RegistryTypeOK ==
  /\ lock \in [Maestros -> Adders \cup {None}]
  /\ registry \in [Maestros -> [Names -> Objects \cup {None}]]
  /\ name \in [Objects -> Names \cup {None}]
  /\ conf \in [Objects -> Adders \cup {None}]
  /\ directDeps \in [Objects -> SUBSET Names]
  /\ arg \in [Adders -> Calls \cup {NoCall}]
  /\ err \in [Adders -> Kinds \cup {None}]
  /\ gm \in Maestros
  /\ gmLock \in Swappers \cup {None}
  /\ cur \in [Swappers -> Maestros \cup {None}]
  /\ held \in [Swappers -> Maestros]
  /\ pc \in [Adders \cup Swappers -> AdderPCs \cup SwapperPCs]
  /\ \A c \in Adders : pc[c] \in AdderPCs
  /\ \A w \in Swappers : pc[w] \in SwapperPCs

Init ==
  /\ lock = [m \in Maestros |-> None]
  /\ registry = [m \in Maestros |-> [n \in Names |-> None]]
  /\ name = [o \in Objects |-> None]
  /\ conf = [o \in Objects |-> None]
  /\ directDeps = [o \in Objects |-> {}]
  /\ arg = [c \in Adders |-> NoCall]
  /\ err = [c \in Adders |-> None]
  /\ gm = FirstGM
  /\ gmLock = None
  /\ cur = [w \in Swappers |-> None]
  /\ held = Own
  /\ pc = [c \in Adders \cup Swappers |-> "idle"]

Goto(c, l) == pc' = [pc EXCEPT ![c] = l]

-----------------------------------------------------------------------------
(* AddService, AddServiceWithBackoff *)

(* GlobalMaestro().AddService(n, ..., o, ds...) is called: the Maestro may *)
(* not be the global one any more when its lock is taken.                  *)
Begin(c) ==
  /\ pc[c] = "idle"
  /\ gmLock = None
  /\ Goto(c, "lock")
  /\ \E a \in MayAdd :
       arg' = [arg EXCEPT ![c] =
                 [m |-> gm, n |-> a[1], o |-> a[2], ds |-> a[3]]]
  /\ UNCHANGED <<lock, registry, err, baseVars, globalVars>>

(* Mutant of Lock: the lock is only taken as a reader. *)
LockShared(c) ==
  /\ pc[c] = "lock"
  /\ lock' = [lock EXCEPT ![arg[c].m] = c]
  /\ Goto(c, "check")
  /\ UNCHANGED <<registry, arg, err, baseVars, globalVars>>

Lock(c) ==
  /\ pc[c] = "lock" /\ lock[arg[c].m] = None
  /\ lock' = [lock EXCEPT ![arg[c].m] = c]
  /\ Goto(c, "check")
  /\ UNCHANGED <<registry, arg, err, baseVars, globalVars>>

Panic(c, kind) == Goto(c, "panic") /\ err' = [err EXCEPT ![c] = kind]

(* Mutant of Check: the service is put in the registry at once. *)
CheckInsert(c) ==
  /\ pc[c] = "check"
  /\ LET r == registry[arg[c].m][arg[c].n]
     IN  \/ r # None /\ Panic(c, "AlreadyExists") /\ UNCHANGED registry
         \/ /\ r = None
            /\ registry' = [registry EXCEPT ![arg[c].m][arg[c].n] = arg[c].o]
            /\ IF arg[c].o \in Baseless THEN Panic(c, "WithoutBase")
                                        ELSE Goto(c, "name") /\ UNCHANGED err
  /\ UNCHANGED <<lock, arg, baseVars, globalVars>>

Check(c) ==
  /\ pc[c] = "check"
  /\ LET r == registry[arg[c].m][arg[c].n]
     IN  \/ r # None /\ Panic(c, "AlreadyExists")
         \/ r = None /\ arg[c].o \in Baseless /\ Panic(c, "WithoutBase")
         \/ /\ r = None /\ arg[c].o \notin Baseless
            /\ Goto(c, "name")
            /\ UNCHANGED err
  /\ UNCHANGED <<lock, registry, arg, baseVars, globalVars>>

(* Mutant of SetName: the object is not told its name. *)
SetNameNot(c) ==
  /\ pc[c] = "name"
  /\ Goto(c, "conf")
  /\ UNCHANGED <<callVars, baseVars, globalVars>>

SetName(c) ==
  /\ pc[c] = "name"
  /\ name' = [name EXCEPT ![arg[c].o] = arg[c].n]
  /\ Goto(c, "conf")
  /\ UNCHANGED <<callVars, conf, directDeps, globalVars>>

(* setRequired, setRetryConf *)
SetConf(c) ==
  /\ pc[c] = "conf"
  /\ conf' = [conf EXCEPT ![arg[c].o] = c]
  /\ Goto(c, "deps")
  /\ UNCHANGED <<callVars, name, directDeps, globalVars>>

(* The i-th dependency given is one that addDependency panics on, ... *)
Itself(c, i) == arg[c].ds[i] = name[arg[c].o]
Again(c, i) ==
  LET ds == arg[c].ds
  IN  ds[i] \in directDeps[arg[c].o] \/ \E j \in 1..(i - 1) : ds[j] = ds[i]

(* ... after it has stored those before the first such one. *)
Stored(c) ==
  {i \in DOMAIN arg[c].ds : \A j \in 1..i : ~Itself(c, j) /\ ~Again(c, j)}

Store(c, is) ==
  directDeps' =
    [directDeps EXCEPT ![arg[c].o] = @ \cup {arg[c].ds[i] : i \in is}]

(* Mutant of AddDependency: it stops at a duplicate without a panic. *)
AddDependencyStops(c) ==
  /\ pc[c] = "deps"
  /\ Store(c, Stored(c))
  /\ Goto(c, "insert")
  /\ UNCHANGED <<callVars, name, conf, globalVars>>

AddDependency(c) ==
  /\ pc[c] = "deps"
  /\ Store(c, Stored(c))
  /\ \/ Stored(c) = DOMAIN arg[c].ds /\ Goto(c, "insert") /\ UNCHANGED err
     \/ \E i \in DOMAIN arg[c].ds \ Stored(c) :
          /\ 1..(i - 1) \subseteq Stored(c)
          /\ Panic(c, IF Itself(c, i) THEN "DependsOnItself"
                                      ELSE "DuplicateDependency")
  /\ UNCHANGED <<lock, registry, arg, name, conf, globalVars>>

Insert(c) ==
  /\ pc[c] = "insert"
  /\ registry' = [registry EXCEPT ![arg[c].m][arg[c].n] = arg[c].o]
  /\ Goto(c, "unlock")
  /\ UNCHANGED <<lock, arg, err, baseVars, globalVars>>

(* Mutant of Unlock: no defer, a panic leaves the lock taken. *)
UnlockLast(c) ==
  /\ \/ /\ pc[c] = "unlock" /\ Goto(c, "done")
        /\ lock' = [lock EXCEPT ![arg[c].m] = None]
     \/ pc[c] = "panic" /\ Goto(c, "recovered") /\ UNCHANGED lock
  /\ UNCHANGED <<registry, arg, err, baseVars, globalVars>>

(* The deferred Unlock; the caller recovers from the panic. *)
Unlock(c) ==
  /\ \/ pc[c] = "unlock" /\ Goto(c, "done")
     \/ pc[c] = "panic" /\ Goto(c, "recovered")
  /\ lock' = [lock EXCEPT ![arg[c].m] = None]
  /\ UNCHANGED <<registry, arg, err, baseVars, globalVars>>

AddService(c) ==
  \/ Lock(c) \/ Check(c) \/ SetName(c) \/ SetConf(c) \/ AddDependency(c)
  \/ Insert(c) \/ Unlock(c)

-----------------------------------------------------------------------------
(* ReplaceGlobalMaestro *)

(* Mutant of GmLock: there is no lock. *)
GmUnlocked(w) ==
  /\ pc[w] = "idle"
  /\ Goto(w, "read")
  /\ UNCHANGED <<callVars, baseVars, globalVars>>

GmLock(w) ==
  /\ pc[w] = "idle" /\ gmLock = None
  /\ gmLock' = w
  /\ Goto(w, "read")
  /\ UNCHANGED <<callVars, baseVars, gm, cur, held>>

GmRead(w) ==
  /\ pc[w] = "read"
  /\ cur' = [cur EXCEPT ![w] = gm]
  /\ Goto(w, "write")
  /\ UNCHANGED <<callVars, baseVars, gm, gmLock, held>>

GmWrite(w) ==
  /\ pc[w] = "write"
  /\ gm' = held[w]
  /\ held' = [held EXCEPT ![w] = cur[w]]
  /\ gmLock' = None
  /\ Goto(w, "done")
  /\ UNCHANGED <<callVars, baseVars, cur>>

ReplaceGlobalMaestro(w) == GmLock(w) \/ GmRead(w) \/ GmWrite(w)

-----------------------------------------------------------------------------
Next ==
  \/ \E c \in Adders : Begin(c) \/ AddService(c)
  \/ \E w \in Swappers : ReplaceGlobalMaestro(w)

Spec == Init /\ [][Next]_vars

(* Whoever has called goes on; a mutex that is freed is given to a waiter. *)
Fairness == /\ \A c \in Adders : WF_vars(AddService(c))
            /\ \A w \in Swappers : WF_vars(GmRead(w) \/ GmWrite(w))

FairSpec == Spec /\ Fairness

-----------------------------------------------------------------------------
(* Safety *)

Range(ds) == {ds[i] : i \in DOMAIN ds}

(* The object is given to one call of AddService at most. *)
Once(o) == \A c, d \in Adders : arg[c].o = o /\ arg[d].o = o => c = d

(* What a call that has got past Insert, or that has returned, leaves *)
AsGiven(c) ==
  LET o == arg[c].o
  IN  /\ registry[arg[c].m][arg[c].n] = o
      /\ Range(arg[c].ds) \subseteq directDeps[o]
      /\ Once(o) => /\ name[o] = arg[c].n
                    /\ conf[o] = c
                    /\ directDeps[o] = Range(arg[c].ds)
                    /\ arg[c].n \notin directDeps[o]

Registered(c) == pc[c] \in {"unlock", "done"}

HasStored(c) == pc[c] \in {"insert", "unlock", "done", "panic", "recovered"}

(* Where the name, the retries and each dependency of an object are from *)
Origins(o) ==
  /\ name[o] # None => \E d \in Adders : arg[d].o = o /\ arg[d].n = name[o]
  /\ conf[o] # None => arg[conf[o]].o = o
  /\ \A k \in directDeps[o] :
       \E d \in Adders : /\ arg[d].o = o /\ HasStored(d)
                         /\ k \in Range(arg[d].ds)

(* A service stays registered as its caller asked for, whatever panics, in *)
(* this call or another, leave behind: under its name, with at least its   *)
(* dependencies, and exactly so when the object is only given once.  One   *)
(* that is given twice, and is renamed, reconfigured or left half done,    *)
(* has nothing but what one of those calls has asked for.                  *)
RegisteredAsGiven ==
  /\ \A o \in Objects : Origins(o)
  /\ \A c \in Adders : Registered(c) => AsGiven(c)
  /\ \A m \in Maestros, n \in Names : registry[m][n] # None =>
       \E c \in Adders : Registered(c) /\ arg[c].m = m /\ arg[c].n = n

(* The reason that a call panics with *)
Founded(c) ==
  LET n == arg[c].n  o == arg[c].o  ds == arg[c].ds
  IN  /\ err[c] = "AlreadyExists" =>
           \E d \in Adders :
             Registered(d) /\ arg[d].m = arg[c].m /\ arg[d].n = n
      /\ err[c] = "WithoutBase" => o \in Baseless
      /\ err[c] = "DependsOnItself" =>
           \E d \in Adders : arg[d].o = o /\ arg[d].n \in Range(ds)
      /\ err[c] = "DuplicateDependency" =>
           \/ \E i, j \in DOMAIN ds : i # j /\ ds[i] = ds[j]
           \/ \E d \in Adders \ {c} :
                /\ arg[d].o = o /\ HasStored(d)
                /\ Range(arg[d].ds) \cap Range(ds) # {}

(* A panic says what is wrong: the name was registered by a call that went *)
(* through; the list has the name of the service, or one that another call *)
(* has given the same object; it has a dependency twice, or one that       *)
(* another call has left with the object, having panicked perhaps.         *)
PanicsAreFounded == \A c \in Adders : err[c] # None => Founded(c)

(* Whom the boot of a service waits for (start: m.services[dep]), and whom *)
(* the shutdown of another is waited for by (stop: pDep == name)           *)
Members(m) == {registry[m][n] : n \in Names} \ {None}
BootWaits(m) ==
  {e \in Members(m) \X Members(m) :
     \E d \in directDeps[e[1]] : registry[m][d] = e[2]}
StopWaits(m) ==
  {e \in Members(m) \X Members(m) : name[e[2]] \in directDeps[e[1]]}

(* StopAll waits along the edges StartAll has waited along, although one   *)
(* finds a dependency by the name it is registered with, and the other by  *)
(* the name it has: they agree as long as no object is registered again.   *)
ShutdownMirrorsBoot ==
  \A m \in Maestros :
    (\A s \in Members(m) : Once(s)) => BootWaits(m) = StopWaits(m)

(* A Maestro that is replaced is handed back, to one caller only. *)
NoMaestroIsLost ==
  \A w \in Swappers : /\ held[w] # gm
                      /\ \A v \in Swappers \ {w} : held[v] # held[w]

(* For each Maestro, its registry as DependencyOrder sees it: a set of     *)
(* names, each with the names it depends on.                               *)
DepsOf(m) == [n \in Names |-> IF registry[m][n] = None THEN {}
                              ELSE directDeps[registry[m][n]]]
Order(m) == INSTANCE DependencyOrder
              WITH Services <- Names,
                   services <- {n \in Names : registry[m][n] # None},
                   deps <- DepsOf(m),
                   phase <- [n \in Names |-> "down"]

(* Registering does nothing but declare services, one at a time, in one    *)
(* step, with their dependencies for good, unless an object is given twice.*)
DeclaresOnly ==
  [][(\A o \in Objects : Once(o)) =>
       \A m \in Maestros : [Order(m)!OrderNext]_(Order(m)!orderVars)]_vars

-----------------------------------------------------------------------------
(* The inductive invariant *)

Holds(c) ==
  pc[c] \in {"check", "name", "conf", "deps", "insert", "unlock", "panic"}

(* The locks exclude: nobody comes between Check and Insert. *)
Exclusive ==
  /\ \A c \in Adders :
       /\ pc[c] # "idle" <=> arg[c] # NoCall
       /\ err[c] # None => pc[c] \in {"panic", "recovered"}
       /\ Holds(c) => lock[arg[c].m] = c
       /\ pc[c] \in {"name", "conf", "deps", "insert"} =>
            registry[arg[c].m][arg[c].n] = None
  /\ \A w \in Swappers : /\ pc[w] \in {"read", "write"} => gmLock = w
                         /\ pc[w] = "write" => cur[w] = gm

(* How far the object of a call is configured, if it has no other call *)
ConfiguredFor(c) ==
  LET o == arg[c].o
  IN  /\ pc[c] = "insert" => Range(arg[c].ds) \subseteq directDeps[o]
      /\ Once(o) =>
           /\ pc[c] \in {"lock", "check", "name", "conf", "deps"} =>
                directDeps[o] = {}
           /\ pc[c] \in {"conf", "deps", "insert"} => name[o] = arg[c].n
           /\ pc[c] \in {"deps", "insert"} => conf[o] = c
           /\ pc[c] = "insert" => /\ directDeps[o] = Range(arg[c].ds)
                                 /\ arg[c].n \notin directDeps[o]

Configured == \A c \in Adders : ConfiguredFor(c)

(* What a registration relies on at each of its steps: the locks it holds, *)
(* and how far its object has got (AddService, ReplaceGlobalMaestro).      *)
RegistryInductive ==
  /\ RegistryTypeOK /\ Exclusive /\ Configured
  /\ RegisteredAsGiven /\ PanicsAreFounded /\ NoMaestroIsLost

-----------------------------------------------------------------------------
(* Liveness *)

(* No call hangs: locks are freed by panics too (defer m.lock.Unlock()). *)
CallsEnd ==
  \A c \in Adders : pc[c] # "idle" ~> pc[c] \in {"done", "recovered"}
=============================================================================
