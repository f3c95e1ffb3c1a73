----------------------------- MODULE MCRegistry -----------------------------
(* A small instance of Registry for TLC. *)
EXTENDS Registry, TLC

CONSTANTS a, b, x, y, z, m1, m2, m3, w1, w2

(* Two objects under two names: alone, with one dependency (on itself, for *)
(* b), with one twice after another, and an object without a base          *)
Registrations ==
  ({a, b} \X {x, y} \X {<<>>, <<b>>})
    \cup ({a} \X {x, y} \X {<<b, b>>}) \cup {<<a, z, <<>>>>}

OwnMaestros == (w1 :> m1) @@ (w2 :> m2)
=============================================================================
