-------------------------- MODULE ConstraintValues --------------------------
(***************************************************************************)
(* A constraint other than maxAmount and minAmount may have any JSON value *)
(* and is compared with ===, which tells objects apart by identity.  The   *)
(* claims a holder keeps in memory share the objects of whoever passed     *)
(* them to issueCredential() or delegate(); a signed hop carries what they *)
(* contain, and every parse of it makes objects anew.                      *)
(*                                                                         *)
(* Of each hop this module keeps the one constraint and its value; module  *)
(* Narrowing has the rest and takes values for primitive.                  *)
(***************************************************************************)
EXTENDS Naturals, Sequences

CONSTANTS
  Data,                     \* the primitive values, and what objects contain
  MaxHops,                  \* maxDelegationDepth
  MaxObjects                \* bound on the objects the holder makes

VARIABLES
  object,                   \* the contents of the holder's objects
  chain,                    \* the holder's chain: its claims in memory
  tokens                    \* the same hops as they were signed
vars == <<object, chain, tokens>>

Primitive(data) == [type |-> "primitive", is |-> data]

(* In memory an object is a reference: to one of the holder's, or to the   *)
(* one the parser made of the i-th hop.                                    *)
Own(r) == [type |-> "object", is |-> <<"own", r>>]
Parsed(value, i) ==
  IF value.type = "primitive" THEN Primitive(value.data)
  ELSE [type |-> "object", is |-> <<"hop", i>>]

Init == object = <<>> /\ chain = <<>> /\ tokens = <<>>

Contents(value) ==
  [type |-> value.type,
   data |-> IF value.type = "primitive" THEN value.is ELSE object[value.is[2]]]

StrictlyEqual(value, other) == value = other

-----------------------------------------------------------------------------
makeObject(data) ==
  /\ Len(object) < MaxObjects
  /\ object' = Append(object, data)
  /\ UNCHANGED <<chain, tokens>>

(* Claims are Readonly to the compiler; nothing freezes them.              *)
alter(r, data) ==
  /\ object' = [object EXCEPT ![r] = data]
  /\ UNCHANGED <<chain, tokens>>

sign(value) ==
  /\ chain' = Append(chain, value) /\ tokens' = Append(tokens, Contents(value))
  /\ UNCHANGED object

issueCredential(value) == chain = <<>> /\ sign(value)

delegate(value) ==
  /\ chain # <<>> /\ Len(chain) < MaxHops
  /\ StrictlyEqual(value, chain[Len(chain)])
  /\ sign(value)

Values == {Primitive(data) : data \in Data} \cup {Own(r) : r \in DOMAIN object}

Next ==
  \/ \E data \in Data : makeObject(data) \/ \E r \in DOMAIN object : alter(r, data)
  \/ \E value \in Values : issueCredential(value) \/ delegate(value)

Spec == Init /\ [][Next]_vars

(* verifyChain() walks the hops it has parsed.                             *)
WalkAccepts ==
  \A i \in 2 .. Len(tokens) : StrictlyEqual(Parsed(tokens[i], i), Parsed(tokens[i - 1], i - 1))

-----------------------------------------------------------------------------
(* src/src/delegation/narrow.ts: "Returns `null` if `parent` constraints   *)
(* structurally cover `requested` (every key parent restricts, requested   *)
(* restates at least as strictly)".  Stated of verifyChain(): hops that    *)
(* were all signed with one value pass its walk.                           *)
RestatedConstraintsPass ==
  (\A i, j \in DOMAIN tokens : tokens[i] = tokens[j]) => WalkAccepts
=============================================================================
