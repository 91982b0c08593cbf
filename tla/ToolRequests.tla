---------------------------- MODULE ToolRequests ----------------------------
(***************************************************************************)
(* What a tools/call request is about: the signed hops it presents, the    *)
(* tool action it asks for, and the moment.  Shared by the abstract        *)
(* specification of a guarded tool and by the MCP server that implements   *)
(* it.  A hop is named by its place in Tokens, as in module Delegation,    *)
(* whoever signed it and whether or not it makes a chain with others.      *)
(***************************************************************************)
EXTENDS Narrowing, FiniteSets

CONSTANTS
  Identities, Kids,
  KeyPairs,                 \* the <<issuer, kid>> that may come to be trusted
  Tokens,                   \* the hops that have been signed
  maxDelegationDepth,
  Presented,                \* the sequences of hops that requests carry
  AskedRequests,            \* action, resource and context of the calls
  Clients,                  \* each has at most one request in flight
  MaxNow                    \* bound on the clock

NoParent == 0
TokenClaims == [iss : Identities, sub : Identities, capabilities : SUBSET CapabilityGrants,
                aud : SUBSET Patterns, exp : Int, parentHopHash : Nat]
AskedFor == [action : Patterns, resource : Patterns, context : Bindings]

ASSUME ToolRequestsAssumption ==
  /\ KeyPairs \subseteq Identities \X Kids
  /\ Tokens \in Seq([kid : Kids, claims : TokenClaims])
  /\ \A t \in DOMAIN Tokens : Tokens[t].claims.parentHopHash < t
  /\ Presented \subseteq Seq(DOMAIN Tokens)
  /\ AskedRequests \subseteq AskedFor
  /\ maxDelegationDepth \in Nat /\ MaxNow \in Nat

claims(token) == Tokens[token].claims
WellFormed(request) == assertConcrete(request.action) /\ assertConcrete(request.resource)

(* Who has to have signed the i-th hop presented: the subject of the hop   *)
(* before it.  And whether keys vouch for all of them.                     *)
Holder(hops, i) == IF i = 1 THEN claims(hops[1]).iss ELSE claims(hops[i - 1]).sub
Vouched(hops, keys) ==
  \A i \in DOMAIN hops :
    claims(hops[i]).iss = Holder(hops, i) /\ <<Holder(hops, i), Tokens[hops[i]].kid>> \in keys

(* The hops are all there, in order and none from elsewhere: the whole     *)
(* lineage of the last one.                                                *)
WholeLineage(hops) ==
  /\ hops # <<>>
  /\ \A i \in DOMAIN hops :
       claims(hops[i]).parentHopHash = IF i = 1 THEN NoParent ELSE hops[i - 1]

(* What a rightful holder presents: a lineage within the depth, each hop   *)
(* readable and within the authority and the life of the one before.       *)
WellMade(hops) ==
  /\ WholeLineage(hops) /\ Len(hops) <= maxDelegationDepth
  /\ \A i \in DOMAIN hops :
       /\ claims(hops[i]).aud # {} /\ <<>> \notin claims(hops[i]).aud
       /\ \A cap \in claims(hops[i]).capabilities : cap.action # <<>> /\ cap.resource # <<>>
  /\ \A i \in 2 .. Len(hops) :
       /\ Covers(claims(hops[i - 1]), claims(hops[i]))
       /\ claims(hops[i]).exp <= claims(hops[i - 1]).exp

(* Every hop is, at the moment given, unrevoked, unexpired and enough for  *)
(* the request.                                                            *)
Entitled(hops, request, moment) ==
  \A i \in DOMAIN hops : /\ hops[i] \notin moment.revoked
                         /\ moment.now < claims(hops[i]).exp
                         /\ ClaimsAllow(claims(hops[i]), request)
=============================================================================
