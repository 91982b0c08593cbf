------------------------- MODULE MCConstraintValues -------------------------
(***************************************************************************)
(* An instance of ConstraintValues: three hops, two values, two objects.   *)
(***************************************************************************)
EXTENDS ConstraintValues, TLC

CONSTANTS eu, us

Symmetry == Permutations(Data)
=============================================================================
