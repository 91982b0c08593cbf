----------------------------- MODULE Narrowing -----------------------------
(***************************************************************************)
(* The narrowing checks of src/src/delegation/narrow.ts, which delegate()  *)
(* applies when a hop is issued and verifyChain() applies again to every   *)
(* adjacent pair, and the request-time reading of the same claims:         *)
(* matching in src/src/authorization/authorize.ts and the default policy   *)
(* of src/src/policy/default.ts.                                           *)
(*                                                                         *)
(* A grant's `constraints` and a request's `context` are functions on a    *)
(* set of keys: an absent object and an object with no own key are treated *)
(* alike by every operator here, so both are the empty function.  A value  *)
(* is a finite number (a member of Amounts) or something else that only    *)
(* strict equality looks at (a member of Others).                          *)
(***************************************************************************)
EXTENDS Grammar

CONSTANTS Amounts,      \* the finite numbers
          Others,       \* every other value of a constraint or a context entry
          Keys          \* the keys of constraints and contexts

ASSUME ValuesAssumption ==
  /\ Amounts \subseteq Int
  /\ Amounts \cap Others = {}

Values == Amounts \cup Others
Bindings == UNION {[K -> Values] : K \in SUBSET Keys}
Patterns == Seq(Segments)
CapabilityGrants == [action : Patterns, resource : Patterns, constraints : Bindings]

Claims == [capabilities : SUBSET CapabilityGrants, aud : SUBSET Patterns]

(* The type of the two claims that carry authority, of a record that may   *)
(* have others.                                                            *)
TypedAuthority(claims) ==
  claims.capabilities \subseteq CapabilityGrants /\ claims.aud \subseteq Patterns

isFiniteNumber(value) == value \in Amounts

(* Two slips in RestatesKey: a constraint the request leaves out counts as *)
(* inherited; a ceiling must be strictly lowered.                          *)
SlipInheritsKey(parent, requested, key) ==
  key \in DOMAIN requested =>
    IF key \in {"maxAmount", "minAmount"}
    THEN /\ isFiniteNumber(requested[key]) /\ isFiniteNumber(parent[key])
         /\ IF key = "maxAmount" THEN requested[key] <= parent[key]
                                 ELSE requested[key] >= parent[key]
    ELSE requested[key] = parent[key]
SlipStrictCeiling(parent, requested, key) ==
  /\ key \in DOMAIN requested
  /\ IF key = "maxAmount"
     THEN /\ isFiniteNumber(requested[key]) /\ isFiniteNumber(parent[key])
          /\ requested[key] < parent[key]
     ELSE requested[key] = parent[key]

(* What must hold of one key of the parent's constraints for the requested *)
(* constraints to be at least as strict on it.                             *)
RestatesKey(parent, requested, key) ==
  /\ key \in DOMAIN requested
  /\ \/ /\ key = "maxAmount"
        /\ isFiniteNumber(requested[key]) /\ isFiniteNumber(parent[key])
        /\ requested[key] <= parent[key]
     \/ /\ key = "minAmount"
        /\ isFiniteNumber(requested[key]) /\ isFiniteNumber(parent[key])
        /\ requested[key] >= parent[key]
     \/ /\ key \notin {"maxAmount", "minAmount"}
        /\ requested[key] = parent[key]

constraintsCoverRequest(parent, requested) ==
  \A key \in DOMAIN parent : RestatesKey(parent, requested, key)

capabilityCoversRequest(parent, requested) ==
  /\ patternIsSubsetOf(requested.action, parent.action)
  /\ patternIsSubsetOf(requested.resource, parent.resource)
  /\ constraintsCoverRequest(parent.constraints, requested.constraints)

(* The two results' `ok`: a list of capabilities, or of audience patterns, *)
(* is the set of its entries, since their order and multiplicity change    *)
(* only the reported reasons.                                              *)
intersectCapabilities(parentCapabilities, requestedGrant) ==
  \A requested \in requestedGrant : \E parent \in parentCapabilities :
    capabilityCoversRequest(parent, requested)

intersectAudience(parentAud, requestedAud) ==
  \A requested \in requestedAud : \E parent \in parentAud :
    patternIsSubsetOf(requested, parent)

(* Both checks between two hops.                                           *)
Covers(parent, child) ==
  /\ intersectCapabilities(parent.capabilities, child.capabilities)
  /\ intersectAudience(parent.aud, child.aud)

-----------------------------------------------------------------------------
(* The default policy evaluator: every constraint must be met by the       *)
(* request's context.                                                      *)
MeetsKey(constraints, context, key) ==
  \/ /\ key \in {"maxAmount", "minAmount"}
     /\ "amount" \in DOMAIN context
     /\ isFiniteNumber(context["amount"]) /\ isFiniteNumber(constraints[key])
     /\ IF key = "maxAmount" THEN context["amount"] <= constraints[key]
                             ELSE context["amount"] >= constraints[key]
  \/ /\ key \notin {"maxAmount", "minAmount"}
     /\ key \in DOMAIN context
     /\ context[key] = constraints[key]

evaluate(capability, context) ==
  \A key \in DOMAIN capability.constraints :
    MeetsKey(capability.constraints, context, key)

(* The request-time checks of authorize() that do not depend on the time   *)
(* or on the revocation store, in its order: the audience, the capability  *)
(* patterns, then the policy on each capability that matched.              *)
structuralMatches(claims, request) ==
  {cap \in claims.capabilities : /\ matchPattern(cap.action, request.action)
                                 /\ matchPattern(cap.resource, request.resource)}

ClaimsAllow(claims, request) ==
  /\ matchAnyPattern(claims.aud, request.resource)
  /\ \E cap \in structuralMatches(claims, request) : evaluate(cap, request.context)

Requests == [action : {s \in Patterns : assertConcrete(s)},
             resource : {s \in Patterns : assertConcrete(s)},
             context : Bindings]
=============================================================================
