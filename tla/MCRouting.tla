------------------------------ MODULE MCRouting -------------------------------
(***************************************************************************)
(* Routing on small instances.  Handlers are interchangeable, and so are   *)
(* the sessions begun before the proxy.                                    *)
(***************************************************************************)
EXTENDS Routing, TLC

RoutingSymmetry == Permutations(Handlers) \union Permutations(Strange)
=============================================================================
