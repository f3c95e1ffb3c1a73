-------------------------- MODULE DependencyGraph --------------------------
(***************************************************************************)
(* What StartAll refuses to boot, said without an algorithm.  services are *)
(* the registered names and deps[s] the names s was given as dependencies, *)
(* some of which may not be registered.                                    *)
(***************************************************************************)

(* Every dependency that is not registered, with the service that needs it *)
Missing(services, deps) == UNION {{s} \X (deps[s] \ services) : s \in services}

(* A set of services each of which depends on another of the set *)
IsKnot(C, deps) == \A s \in C : deps[s] \cap C # {}

(* The services from which following dependencies can go on forever: those *)
(* of a cycle, and all that depend on one.                                 *)
Circular(services, deps) == UNION {C \in SUBSET services : IsKnot(C, deps)}
=============================================================================
