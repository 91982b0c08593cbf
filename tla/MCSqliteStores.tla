--------------------------- MODULE MCSqliteStores ---------------------------
(***************************************************************************)
(* Instances of SqliteStores: two processes over one file.                 *)
(***************************************************************************)
EXTENDS SqliteStores, TLC

CONSTANTS p1, p2, tA, tB, h1, root

Input(k, createdBy, metadata) ==
  [kind |-> k, tenantId |-> Undefined, name |-> Undefined, hasKty |-> TRUE,
   createdBy |-> createdBy, metadata |-> metadata]

(* An agent by default that names its creator, an agent and an unnamed     *)
(* kind that do not, and inputs rejected for each of the other reasons.    *)
MCInputs ==
  { Input(Undefined, root, {"team"}), Input(Undefined, Undefined, Undefined) }
  \cup { Input("agent", by, Undefined) : by \in {Undefined, Empty} }
  \cup { Input("robot", root, Undefined) }
  \cup { Input("human", Undefined, m) : m \in {{"__proto__"}, {"team", "note"}} }
  \cup { [Input("human", Undefined, Undefined) EXCEPT !.name = Empty],
         [Input("human", Undefined, Undefined) EXCEPT !.hasKty = FALSE] }

MCFilters == {[tenantId |-> t] : t \in {tA, tB}}
Symmetry == Permutations(Processes)
=============================================================================
