---------------------------- MODULE Eligibility ----------------------------
(***************************************************************************)
(* What an authorization is about: a verified chain, a request, and the    *)
(* moment, given by the clock and the contents of the revocation store.    *)
(* Shared by the abstract specification of authorize() and by the detailed *)
(* one.                                                                    *)
(***************************************************************************)
EXTENDS Narrowing

CONSTANTS
  Jtis,             \* hop ids, the keys of the revocation store
  Chains,           \* the verified chains callers hold
  AskedRequests,    \* what they ask for, well-formed or not
  Callers,          \* concurrent authorize() calls
  MaxNow            \* bound on the clock

HopClaims == [jti : Jtis, exp : Int, capabilities : SUBSET CapabilityGrants,
              aud : SUBSET Patterns]
AskedFor == [action : Patterns, resource : Patterns, context : Bindings]

(* Of the chains, only what verifyChain() establishes before it brands     *)
(* one: module Delegation checks that it does.                             *)
ASSUME ChainsAssumption ==
  /\ Chains \subseteq Seq(HopClaims) \ {<<>>}
  /\ \A hops \in Chains : \A i \in 2 .. Len(hops) :
       Covers(hops[i - 1], hops[i]) /\ hops[i].exp <= hops[i - 1].exp

ASSUME AskedAssumption == AskedRequests \subseteq AskedFor /\ MaxNow \in Nat

WellFormed(request) == assertConcrete(request.action) /\ assertConcrete(request.resource)

(* Every hop of the chain, at the moment given, is unrevoked, unexpired,   *)
(* and allows the request by itself.                                       *)
Eligible(hops, request, moment) ==
  \A i \in DOMAIN hops :
    /\ hops[i].jti \notin moment.revoked
    /\ moment.now < hops[i].exp
    /\ ClaimsAllow(hops[i], request)
=============================================================================
