---------------------------- MODULE MCAuditTrail ----------------------------
(***************************************************************************)
(* Instances of AuditTrail: two callers, up to two emitters on one sink,   *)
(* and three events, the fewest that have a first, a middle and a last.    *)
(***************************************************************************)
EXTENDS AuditTrail, TLC

CONSTANTS e1, e2, c1, c2, throwing

OneType == {"authorization"}
Symmetry == Permutations(Callers)
=============================================================================
