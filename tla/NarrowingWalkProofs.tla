------------------------ MODULE NarrowingWalkProofs ------------------------
(***************************************************************************)
(* The invariants of NarrowingWalk, for lineages of any length.            *)
(***************************************************************************)
EXTENDS NarrowingWalk, NarrowingProofs

(* The claims of a hop are typed.                                          *)
LEMMA ClaimsAreTyped ==
  ASSUME NEW claims \in Claims
  PROVE  TypedAuthority(claims)
BY DEF Claims, TypedAuthority

(* The walk: the adjacent checks delegate() makes add up to the invariant  *)
(* that every hop covers every later one.                                  *)
EarlierCoversLater ==
  \A j \in DOMAIN lineage : \A i \in 1 .. j - 1 : Covers(lineage[i], lineage[j])

(* A lineage is a sequence of typed claims that is never empty.            *)
THEOREM TypeCorrect == Spec => []TypeOK
<1>1. Init => TypeOK
  BY OffersAssumption DEF Init, TypeOK
<1>2. TypeOK /\ [Next]_lineage => TypeOK'
  BY OffersAssumption DEF TypeOK, Next, Delegate
<1> QED
  BY <1>1, <1>2, PTL DEF Spec

(* Every step of the walk keeps all earlier hops above all later ones, by  *)
(* transitivity of covering, not by comparing them.                        *)
LEMMA WalkCovers == Spec => []EarlierCoversLater
<1>1. Init => EarlierCoversLater
  BY DEF Init, EarlierCoversLater
<1>2. TypeOK /\ EarlierCoversLater /\ [Next]_lineage => EarlierCoversLater'
  <2> SUFFICES ASSUME TypeOK, EarlierCoversLater, [Next]_lineage
               PROVE  EarlierCoversLater'
    OBVIOUS
  <2>1. CASE UNCHANGED lineage
    BY <2>1 DEF EarlierCoversLater
  <2>2. ASSUME NEW offer \in Offers, Delegate(offer)
        PROVE  EarlierCoversLater'
    <3> DEFINE n == Len(lineage)
    <3>1. /\ lineage' = Append(lineage, offer) /\ n \in Nat \ {0}
          /\ DOMAIN lineage = 1 .. n /\ DOMAIN lineage' = 1 .. n + 1
          /\ \A i \in 1 .. n : lineage'[i] = lineage[i]
          /\ lineage'[n + 1] = offer
      BY <2>2 DEF Delegate, TypeOK
    <3>2. TypedAuthority(offer) /\ \A i \in 1 .. n : TypedAuthority(lineage[i])
      <4>1. offer \in Claims
        BY OffersAssumption
      <4>2. \A i \in 1 .. n : lineage[i] \in Claims
        BY DEF TypeOK
      <4> QED
        BY <4>1, <4>2, ClaimsAreTyped
    <3>3. Covers(lineage[n], offer)
      BY <2>2 DEF Delegate, Leaf
    <3> HIDE DEF n
    <3>4. ASSUME NEW j \in 1 .. n + 1, NEW i \in 1 .. j - 1
          PROVE  Covers(lineage'[i], lineage'[j])
      <4>1. CASE j \in 1 .. n
        BY <3>1, <4>1 DEF EarlierCoversLater
      <4>2. CASE j = n + 1 /\ i = n
        BY <3>1, <3>3, <4>2
      <4>3. CASE j = n + 1 /\ i \in 1 .. n - 1
        <5>1. Covers(lineage[i], lineage[n]) /\ n \in 1 .. n
          BY <3>1, <4>3 DEF EarlierCoversLater
        <5>2. Covers(lineage[i], offer)
          BY <3>1, <3>2, <3>3, <4>3, <5>1, CoversIsTransitive
        <5> QED
          BY <3>1, <4>3, <5>2
      <4> QED
        BY <3>1, <4>1, <4>2, <4>3
    <3> QED
      BY <3>1, <3>4 DEF EarlierCoversLater
  <2> QED
    BY <2>1, <2>2 DEF Next
<1> QED
  BY <1>1, <1>2, TypeCorrect, PTL DEF Spec

(* Along any lineage, of any length, no hop allows a request that a hop    *)
(* before it does not.                                                     *)
THEOREM AuthorityNeverGrowsHolds == Spec => []AuthorityNeverGrows
<1>1. TypeOK /\ EarlierCoversLater => AuthorityNeverGrows
  <2> SUFFICES ASSUME TypeOK, EarlierCoversLater,
                      NEW j \in DOMAIN lineage, NEW i \in 1 .. j,
                      NEW request \in AskedRequests, ClaimsAllow(lineage[j], request)
               PROVE  ClaimsAllow(lineage[i], request)
    BY DEF AuthorityNeverGrows
  <2>1. CASE i = j
    BY <2>1
  <2>2. CASE i # j
    <3>1. i \in 1 .. j - 1 /\ i \in DOMAIN lineage
      BY <2>2 DEF TypeOK
    <3>2. TypedAuthority(lineage[i]) /\ TypedAuthority(lineage[j])
      BY <3>1, ClaimsAreTyped DEF TypeOK
    <3>3. Covers(lineage[i], lineage[j]) /\ request \in Requests
      BY <3>1, AskedRequestsAssumption DEF EarlierCoversLater
    <3> QED
      BY <3>2, <3>3, NarrowingIsSound
  <2> QED
    BY <2>1, <2>2
<1> QED
  BY <1>1, TypeCorrect, WalkCovers, PTL

(* The pattern check is exact wherever along a lineage it is asked: one    *)
(* pattern is taken for a subset of another if and only if no request      *)
(* tells otherwise.                                                        *)
THEOREM SubsetIsInclusionHolds == Spec => []SubsetIsInclusion
<1>1. TypeOK => SubsetIsInclusion
  <2> SUFFICES ASSUME TypeOK, NEW j \in DOMAIN lineage, NEW i \in 1 .. j,
                      NEW child \in lineage[j].aud, NEW parent \in lineage[i].aud,
                      parsePatternSegments(child), parsePatternSegments(parent)
               PROVE  patternIsSubsetOf(child, parent) <=>
                        \A request \in AskedRequests :
                          matchPattern(child, request.resource)
                            => matchPattern(parent, request.resource)
    BY DEF SubsetIsInclusion
  <2>1. child \in Patterns /\ parent \in Patterns
    <3>1. i \in DOMAIN lineage
      BY DEF TypeOK
    <3>2. lineage[i] \in Claims /\ lineage[j] \in Claims
      BY <3>1 DEF TypeOK
    <3> QED
      BY <3>2 DEF Claims
  <2>2. \A request \in AskedRequests : request.resource \in Patterns
    BY AskedRequestsAssumption DEF Requests
  <2>3. ASSUME \A request \in AskedRequests :
                 matchPattern(child, request.resource) => matchPattern(parent, request.resource)
        PROVE  patternIsSubsetOf(child, parent)
    <3>1. ASSUME NEW name \in [1 .. Len(child) -> ConcreteSegments], matchPattern(child, name)
          PROVE  matchPattern(parent, name)
      <4>1. Len(child) \in 1 .. MAX_SEGMENTS
        BY DEF parsePatternSegments
      <4>2. PICK request \in AskedRequests : request.resource = name
        BY <4>1, NamesAssumption
      <4> QED
        BY <2>3, <3>1, <4>2
    <3> QED
      BY <2>1, <3>1, NamesAssumption, SubsetIsComplete
  <2> QED
    BY <2>1, <2>2, <2>3, SubsetIsSound
<1> QED
  BY <1>1, TypeCorrect, PTL

(* A grant that can be written down covers itself, key by key.             *)
LEMMA WellFormedCoversItself ==
  ASSUME NEW c \in Claims, WellFormed(c)
  PROVE  Covers(c, c)
<1>1. \A p \in Patterns : parsePatternSegments(p) => patternIsSubsetOf(p, p)
  BY DEF patternIsSubsetOf
<1>2. c.capabilities \subseteq CapabilityGrants /\ c.aud \subseteq Patterns
  BY DEF Claims
<1>3. ASSUME NEW cap \in c.capabilities
      PROVE  capabilityCoversRequest(cap, cap)
  <2>1. /\ cap.action \in Patterns /\ cap.resource \in Patterns
        /\ parsePatternSegments(cap.action) /\ parsePatternSegments(cap.resource)
    BY <1>2 DEF CapabilityGrants, WellFormed
  <2>2. ASSUME NEW key \in DOMAIN cap.constraints
        PROVE  RestatesKey(cap.constraints, cap.constraints, key)
    <3>1. key \in {"maxAmount", "minAmount"} => isFiniteNumber(cap.constraints[key])
      BY DEF WellFormed
    <3>2. isFiniteNumber(cap.constraints[key]) => cap.constraints[key] \in Int
      BY ValuesAssumption DEF isFiniteNumber
    <3> QED
      BY <3>1, <3>2 DEF RestatesKey
  <2> QED
    BY <1>1, <2>1, <2>2 DEF capabilityCoversRequest, constraintsCoverRequest
<1>4. \A p \in c.aud : patternIsSubsetOf(p, p)
  BY <1>1, <1>2 DEF WellFormed
<1> QED
  BY <1>3, <1>4 DEF Covers, intersectCapabilities, intersectAudience

(* The holder of a leaf that can be written down can pass all of it on.    *)
THEOREM FullGrantCanBePassedOnHolds == Spec => []FullGrantCanBePassedOn
<1>1. TypeOK => FullGrantCanBePassedOn
  <2> SUFFICES ASSUME TypeOK, WellFormed(Leaf)
               PROVE  Covers(Leaf, Leaf)
    BY DEF FullGrantCanBePassedOn
  <2>1. Leaf \in Claims
    BY DEF TypeOK, Leaf
  <2> QED
    BY <2>1, WellFormedCoversItself
<1> QED
  BY <1>1, TypeCorrect, PTL
=============================================================================
