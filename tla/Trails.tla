------------------------------- MODULE Trails -------------------------------
(***************************************************************************)
(* Array.prototype.filter() and a WHERE clause: the elements of a sequence *)
(* at some of its places, in their order.                                  *)
(***************************************************************************)
EXTENDS Integers, FiniteSets

(* The k-th of them is at the place that has k - 1 of the places before.   *)
Picked(s, places) ==
  [k \in 1 .. Cardinality(places) |->
     s[CHOOSE i \in places : Cardinality({j \in places : j < i}) = k - 1]]
=============================================================================
