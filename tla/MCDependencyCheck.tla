------------------------- MODULE MCDependencyCheck -------------------------
(* All graphs over a few names, up to their order *)
EXTENDS DependencyCheck, TLC

AnyOrder == Permutations(Names)
=============================================================================
