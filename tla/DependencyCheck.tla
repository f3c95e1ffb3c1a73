-------------------------- MODULE DependencyCheck --------------------------
(***************************************************************************)
(* The checks with which StartAll begins (maestro.go), step by step:       *)
(* hasMissingDeps looks every dependency up, hasCircularDeps walks down    *)
(* from every service along every path.  Both report on the channel that   *)
(* StartAll returns when it is over, and which has room for one error per  *)
(* service.  The Maestro's lock is held, so that nothing else happens.     *)
(* Maestro.tla takes both checks in one step, by what they find.           *)
(***************************************************************************)
EXTENDS Naturals, Sequences, FiniteSets, DependencyGraph

CONSTANT Names   \* the names of services, and of dependencies

ASSUME NamesAssumption == IsFiniteSet(Names)

VARIABLES
  services,   \* the names in Maestro.services
  deps,       \* ServiceBase.directDeps of each service
  stage,      \* where StartAll is
  unchecked,  \* the dependencies hasMissingDeps has still to look up
  absent,     \* those it found missing, an error each on errC
  roots,      \* the services hasCircularDeps has still to start from
  path,       \* the services on the way from the root (met, by level)
  todo,       \* the dependencies it has still to follow from each of them
  chain       \* Error.CircularDeps

graphVars == <<services, deps>>
missVars == <<unchecked, absent>>
walkVars == <<roots, path, todo, chain>>
checkVars == <<graphVars, stage, missVars, walkVars>>

Stages == {"missing", "circular", "blocked", "refused", "accepted"}

CheckTypeOK ==
  /\ services \in SUBSET Names
  /\ deps \in [Names -> SUBSET Names]
  /\ stage \in Stages
  /\ unchecked \in SUBSET (Names \X Names)
  /\ absent \in SUBSET (Names \X Names)
  /\ roots \in SUBSET Names
  /\ path \in Seq(Names)
  /\ todo \in [Names -> SUBSET Names]
  /\ chain \in Seq(Names)

(* Any graph AddService lets one register: no service depends on itself. *)
CheckInit ==
  /\ services \in SUBSET Names
  /\ deps \in [Names -> SUBSET Names]
  /\ \A s \in Names : s \notin deps[s] /\ (s \notin services => deps[s] = {})
  /\ stage = "missing"
  /\ unchecked = UNION {{s} \X deps[s] : s \in services}
  /\ absent = {}
  /\ roots = services
  /\ path = <<>>
  /\ todo = [s \in Names |-> {}]
  /\ chain = <<>>

-----------------------------------------------------------------------------
(* hasMissingDeps *)

Unchecked(s) == {d \in deps[s] : <<s, d>> \in unchecked}

(* A dependency that is registered, or whose absence is reported; those of *)
(* one service are looked up before those of the next.                     *)
LookUp(s, d) ==
  /\ stage = "missing" /\ <<s, d>> \in unchecked
  /\ \A t \in services \ {s} : Unchecked(t) \in {{}, deps[t]}
  /\ unchecked' = unchecked \ {<<s, d>>}
  /\ IF d \in services
       THEN UNCHANGED <<stage, absent>>
       ELSE IF Cardinality(absent) < Cardinality(services)
         THEN absent' = absent \cup {<<s, d>>} /\ UNCHANGED stage
         ELSE stage' = "blocked" /\ UNCHANGED absent
  /\ UNCHANGED <<graphVars, walkVars>>

(* if m.hasMissingDeps(errC) { return errC } *)
EndMissing ==
  /\ stage = "missing" /\ unchecked = {}
  /\ stage' = IF absent = {} THEN "circular" ELSE "refused"
  /\ UNCHANGED <<graphVars, missVars, walkVars>>

-----------------------------------------------------------------------------
(* hasCircularDeps *)

(* Mutant of OnPath: a service met from another root counts as met. *)
MetBefore(s) == s \in services \ roots

(* Mutant of OnPath: only the service one comes from is looked at. *)
OnPathLast(s) == path[Len(path)] = s

OnPath(s) == \E i \in 1..Len(path) : path[i] = s
Top == path[Len(path)]

(* Mutant of EnterRoot: the loop over the services does not advance. *)
EnterRootAgain(s) ==
  /\ stage = "circular" /\ path = <<>> /\ s \in roots
  /\ path' = <<s>>
  /\ todo' = [todo EXCEPT ![s] = deps[s]]
  /\ UNCHANGED <<graphVars, stage, missVars, roots, chain>>

(* hasCircularDepsRec(s, s, map[string]uint{}, 0) *)
EnterRoot(s) ==
  /\ stage = "circular" /\ path = <<>> /\ s \in roots
  /\ roots' = roots \ {s}
  /\ path' = <<s>>
  /\ todo' = [todo EXCEPT ![s] = deps[s]]
  /\ UNCHANGED <<graphVars, stage, missVars, chain>>

(* The recursive call for a dependency that has not been met *)
Descend(d) ==
  /\ stage = "circular" /\ path # <<>> /\ d \in todo[Top] /\ ~OnPath(d)
  /\ path' = Append(path, d)
  /\ todo' = [todo EXCEPT ![Top] = @ \ {d}, ![d] = deps[d]]
  /\ UNCHANGED <<graphVars, stage, missVars, roots, chain>>

(* Mutant of Report: the service that is met again is not part of it. *)
ReportPath(d) ==
  /\ stage = "circular" /\ path # <<>> /\ d \in todo[Top] /\ OnPath(d)
  /\ chain' = path
  /\ stage' = "refused"
  /\ UNCHANGED <<graphVars, missVars, roots, path, todo>>

(* Mutant of Report: circularDeps[lvl] = cur.Name() is left out. *)
ReportUnset(d) ==
  /\ stage = "circular" /\ path # <<>> /\ d \in todo[Top] /\ OnPath(d)
  /\ chain' = Append(path, "")
  /\ stage' = "refused"
  /\ UNCHANGED <<graphVars, missVars, roots, path, todo>>

(* One that has been met: the way down to it is reported. *)
Report(d) ==
  /\ stage = "circular" /\ path # <<>> /\ d \in todo[Top] /\ OnPath(d)
  /\ chain' = Append(path, d)
  /\ stage' = "refused"
  /\ UNCHANGED <<graphVars, missVars, roots, path, todo>>

(* All dependencies of a service are followed: return false *)
Backtrack ==
  /\ stage = "circular" /\ path # <<>> /\ todo[Top] = {}
  /\ path' = SubSeq(path, 1, Len(path) - 1)
  /\ UNCHANGED <<graphVars, stage, missVars, roots, todo, chain>>

EndCircular ==
  /\ stage = "circular" /\ path = <<>> /\ roots = {}
  /\ stage' = "accepted"
  /\ UNCHANGED <<graphVars, missVars, walkVars>>

CheckNext ==
  \/ \E s, d \in Names : LookUp(s, d)
  \/ EndMissing
  \/ \E s \in Names : EnterRoot(s) \/ Descend(s) \/ Report(s)
  \/ Backtrack
  \/ EndCircular

(* A sequential program: it goes on as long as it can. *)
CheckSpec == CheckInit /\ [][CheckNext]_checkVars /\ WF_checkVars(CheckNext)

-----------------------------------------------------------------------------
(* The checks accept exactly the graphs in which nothing is missing and no *)
(* service can be reached from itself; a refusal reports every missing     *)
(* dependency once, or one chain (hasMissingDeps and hasCircularDeps).     *)
VerdictIsRight ==
  /\ stage = "accepted" => Missing(services, deps) = {} /\ Circular(services, deps) = {}
  /\ stage = "refused" /\ chain = <<>> =>
       absent # {} /\ absent = Missing(services, deps)
  /\ stage = "refused" /\ chain # <<>> => Circular(services, deps) # {}

(* The reported chain is a way along dependencies between registered       *)
(* services, whose last one is the only one that comes twice.              *)
ChainIsGenuine ==
  chain # <<>> =>
    LET n == Len(chain)
    IN  /\ \A i \in 1..(n - 1) : chain[i] \in services /\ chain[i + 1] \in deps[chain[i]]
        /\ \E i \in 1..(n - 1) : chain[i] = chain[n]
        /\ \A i, j \in 1..(n - 1) : chain[i] = chain[j] => i = j

(* The walk never looks up a service that is not there (m.services[name]), *)
(* and never meets a service twice on one path, which bounds its depth.    *)
WalkIsSafe ==
  /\ \A i \in 1..Len(path) : path[i] \in services /\ todo[path[i]] \subseteq services
  /\ \A i, j \in 1..Len(path) : path[i] = path[j] => i = j

-----------------------------------------------------------------------------
(* The inductive invariant behind the verdict *)

(* The errors, and the dependencies not looked up yet, hold all that is    *)
(* missing.                                                                *)
MissingSoFar ==
  /\ stage # "blocked" =>
       Missing(services, deps) = absent \cup {m \in unchecked : m[2] \notin services}
  /\ stage \in {"circular", "accepted"} => absent = {}
  /\ stage \in {"circular", "accepted", "refused"} => unchecked = {}
  /\ stage \in {"missing", "blocked"} => path = <<>>

(* The path follows dependencies, and what is still to be followed is one. *)
PathFollows ==
  \A i \in 1..Len(path) :
    /\ todo[path[i]] \subseteq deps[path[i]]
    /\ i < Len(path) => path[i + 1] \in deps[path[i]]

(* Wherever the walk has been, but for the path it is on, no cycle is.     *)
ExploredIsAcyclic ==
  /\ roots \subseteq services
  /\ \A i \in 1..Len(path) : \A d \in deps[path[i]] \ todo[path[i]] :
       d \in Circular(services, deps) => i < Len(path) /\ d = path[i + 1]
  /\ \A s \in services \ roots :
       s \in Circular(services, deps) => path # <<>> /\ s = path[1]

Verdicts ==
  /\ stage = "accepted" => path = <<>> /\ roots = {}
  /\ chain # <<>> => stage = "refused"
  /\ stage = "refused" /\ chain = <<>> => absent # {}
  /\ stage = "refused" /\ chain # <<>> => Circular(services, deps) # {}

(* The verdict is right in a state like this one, and in those that follow *)
(* (hasMissingDeps, hasCircularDeps).                                      *)
CheckInductive ==
  /\ CheckTypeOK /\ MissingSoFar /\ WalkIsSafe /\ PathFollows
  /\ ExploredIsAcyclic /\ Verdicts /\ ChainIsGenuine

-----------------------------------------------------------------------------
(* What is left to do, the most significant first: of StartAll, of the two *)
(* loops, and of the loop at each level of the recursion.                  *)
StagesLeft == CASE stage = "missing" -> 2 [] stage = "circular" -> 1 [] OTHER -> 0
LevelLeft(i) == IF i \in 1..Len(path) THEN Cardinality(todo[path[i]]) + 1 ELSE 0
Levels == Cardinality(Names)
Left == [k \in 1..(Levels + 3) |->
           CASE k = 1 -> StagesLeft
             [] k = 2 -> Cardinality(unchecked)
             [] k = 3 -> Cardinality(roots)
             [] OTHER -> LevelLeft(k - 3)]

(* The walk gets nearer to its end with each step, although it remembers no*)
(* service once it has left it, and may come by many times: a step that    *)
(* adds to what is left at a level takes from a higher one, and it never   *)
(* goes down more levels than there are services (hasMissingDeps,          *)
(* hasCircularDepsRec).                                                    *)
ChecksShrink ==
  [][\E k \in 1..(Levels + 3) :
       /\ Left[k]' < Left[k]
       /\ \A j \in 1..(k - 1) : Left[j]' = Left[j]]_checkVars

(* Every path is walked to its end: the checks do not go round in circles. *)
ChecksEnd == <>(stage \in {"blocked", "refused", "accepted"})

(* "if any such thing were to be detected, an error will be pushed on the  *)
(* returned channel" (StartAll, maestro.go): the push does not block.      *)
ErrorsArePushed == stage # "blocked"
=============================================================================
