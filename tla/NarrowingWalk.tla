--------------------------- MODULE NarrowingWalk ---------------------------
(***************************************************************************)
(* How authority evolves along one lineage of hops: issueCredential()      *)
(* starts it with any well-typed claims and every delegate() appends the   *)
(* requested ones if narrow.ts finds them covered by the present leaf.     *)
(* Keys, time and transport are left to module Delegation; what is kept    *)
(* here is the whole language of patterns and constraints, which is where  *)
(* a check that looks only at adjacent hops can go wrong.                  *)
(***************************************************************************)
EXTENDS Narrowing

CONSTANTS Offers,       \* the [capabilities, aud] anyone may ask to issue
          AskedRequests,    \* the requests the properties are about
          maxDelegationDepth

ASSUME OffersAssumption ==
  Offers \subseteq Claims

ASSUME AskedRequestsAssumption == AskedRequests \subseteq Requests

(* What it takes to tell any two patterns apart by the requests asked: two *)
(* concrete segments, and a request for each name made of them.            *)
ASSUME NamesAssumption ==
  /\ \E s1, s2 \in ConcreteSegments : s1 # s2
  /\ \A n \in 1 .. MAX_SEGMENTS : \A name \in [1 .. n -> ConcreteSegments] :
       \E request \in AskedRequests : request.resource = name

VARIABLE lineage        \* the claims of the hops, root first

Leaf == lineage[Len(lineage)]

Init == \E root \in Offers : lineage = <<root>>

(* delegate(): grant and aud must both be covered by the parent leaf, and  *)
(* the result is what was requested, never a clipped version of it.        *)
Delegate(offer) ==
  /\ Len(lineage) < maxDelegationDepth
  /\ offer.capabilities # {}
  /\ Covers(Leaf, offer)
  /\ lineage' = Append(lineage, offer)

Next == \E offer \in Offers : Delegate(offer)

Spec == Init /\ [][Next]_lineage

-----------------------------------------------------------------------------
(* The claims a holder can restate: every pattern parses, and the two      *)
(* numeric constraints are numbers.                                        *)
WellFormed(claims) ==
  /\ \A pattern \in claims.aud : parsePatternSegments(pattern)
  /\ \A cap \in claims.capabilities :
       /\ parsePatternSegments(cap.action) /\ parsePatternSegments(cap.resource)
       /\ \A key \in DOMAIN cap.constraints \cap {"maxAmount", "minAmount"} :
            isFiniteNumber(cap.constraints[key])

TypeOK ==
  /\ lineage \in Seq(Claims)
  /\ Len(lineage) > 0

(* A request that a hop's claims allow is allowed by the claims of every   *)
(* hop before it, although each check compared only two adjacent hops and  *)
(* compared patterns and constraints, not requests.  authorize() reads the *)
(* leaf alone on the strength of this.                                     *)
AuthorityNeverGrows ==
  \A j \in DOMAIN lineage : \A i \in 1 .. j : \A request \in AskedRequests :
    ClaimsAllow(lineage[j], request) => ClaimsAllow(lineage[i], request)

(* patternIsSubsetOf decides inclusion of the two patterns' languages: for *)
(* patterns that parse, it holds exactly when every concrete resource one  *)
(* matches is matched by the other.  Too weak a check widens authority,    *)
(* too strong a one refuses a legitimate delegation.                       *)
SubsetIsInclusion ==
  \A j \in DOMAIN lineage : \A i \in 1 .. j :
    \A child \in lineage[j].aud : \A parent \in lineage[i].aud :
      parsePatternSegments(child) /\ parsePatternSegments(parent) =>
        ( patternIsSubsetOf(child, parent) <=>
            \A request \in AskedRequests :
              matchPattern(child, request.resource) => matchPattern(parent, request.resource) )

(* A holder of well-formed claims can always pass all of them on: the      *)
(* covering check accepts claims against themselves, so a chain never      *)
(* loses authority that its holder did not ask to give up.  delegate()     *)
(* relies on it when `aud` is defaulted to the parent leaf's.              *)
FullGrantCanBePassedOn ==
  WellFormed(Leaf) => Covers(Leaf, Leaf)

=============================================================================
