-------------------------- MODULE DependencyOrder --------------------------
(***************************************************************************)
(* What the Maestro promises about the order in which it boots and shuts   *)
(* down services (maestro.go): a service boots once everything it depends  *)
(* on is up, and is shut down once everything that depends on it is down.  *)
(* No goroutine, channel, retry or lock: just a phase per service.         *)
(* Maestro.tla implements this specification.                              *)
(***************************************************************************)
EXTENDS Naturals

CONSTANT Services

VARIABLES
  services,   \* the services declared so far
  deps,       \* what each depends on; some of it may not be declared yet
  phase       \* where each service is in its life

orderVars == <<services, deps, phase>>

Phases == {"down", "booting", "up", "halting"}

OrderTypeOK ==
  /\ services \in SUBSET Services
  /\ deps \in [Services -> SUBSET Services]
  /\ phase \in [Services -> Phases]

OrderInit ==
  /\ services = {}
  /\ deps = [s \in Services |-> {}]
  /\ phase = [s \in Services |-> "down"]

Declare(s, ds) ==
  /\ s \notin services
  /\ services' = services \cup {s}
  /\ deps' = [deps EXCEPT ![s] = ds]
  /\ UNCHANGED phase

Enter(s, p) == phase' = [phase EXCEPT ![s] = p] /\ UNCHANGED <<services, deps>>

(* The dependencies of s are up from here until s is down again. *)
BeginBoot(s) ==
  /\ s \in services /\ phase[s] = "down"
  /\ \A d \in deps[s] : phase[d] = "up"
  /\ Enter(s, "booting")

(* The boot succeeds, or fails for good. *)
EndBoot(s) ==
  /\ phase[s] = "booting"
  /\ Enter(s, "up") \/ Enter(s, "down")

BeginHalt(s) ==
  /\ phase[s] = "up"
  /\ \A p \in services : s \in deps[p] => phase[p] = "down"
  /\ Enter(s, "halting")

(* The shutdown succeeds, or fails for good and leaves the service up. *)
EndHalt(s) ==
  /\ phase[s] = "halting"
  /\ Enter(s, "down") \/ Enter(s, "up")

OrderNext ==
  \E s \in Services :
    \/ \E ds \in SUBSET Services : Declare(s, ds)
    \/ BeginBoot(s) \/ EndBoot(s) \/ BeginHalt(s) \/ EndHalt(s)

OrderSpec == OrderInit /\ [][OrderNext]_orderVars

-----------------------------------------------------------------------------
(* A service that is up, or on its way up or down, has all of its          *)
(* dependencies up: what the `deps' handed to Service.Start stand for.     *)
DependenciesUp ==
  \A s \in Services : phase[s] # "down" => \A d \in deps[s] : phase[d] = "up"
=============================================================================
