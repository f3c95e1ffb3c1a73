----------------------------- MODULE MCMaestro -----------------------------
(* Small instances of Maestro for TLC. *)
EXTENDS Maestro, TLC

CONSTANTS a, b, c, u

(* The tree of maestro_test.go, b -> a and c -> {a, b}, and parts of it *)
ChainDeps == (a :> {{}}) @@ (b :> {{a}}) @@ (c :> {{a, b}})
PairDeps == (a :> {{}}) @@ (b :> {{a}})

(* Any dependencies at all, on services that may be missing, or in circles *)
AnyDeps == [s \in Services |-> SUBSET Services]

OneTry == [s \in Services |-> 0]
MixedTries == [s \in Services |-> IF s = a THEN 2 ELSE IF s = b THEN 1 ELSE 0]
=============================================================================
