---------------------------- MODULE MCConnectors ----------------------------
(* One service of each kind: they do not interact. *)
EXTENDS Connectors

MCServices == Kinds
MCKindOf == [s \in MCServices |-> s]
=============================================================================
