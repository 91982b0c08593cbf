-------------------------- MODULE NarrowingProofs --------------------------
(***************************************************************************)
(* What the narrowing checks guarantee for every alphabet of segments,     *)
(* every set of constraint keys and values, and lineages of any length.    *)
(***************************************************************************)
EXTENDS Narrowing, NaturalsInduction, WellFoundedInduction, TLAPS

(* A string the child pattern matches is matched by any parent pattern     *)
(* patternIsSubsetOf accepts for it (the "only if" half of the comment on  *)
(* patternIsSubsetOf in grammar.ts).                                       *)
LEMMA SubsetIsSound ==
  ASSUME NEW child \in Patterns, NEW parent \in Patterns, NEW concrete \in Patterns,
         patternIsSubsetOf(child, parent), matchPattern(child, concrete)
  PROVE  matchPattern(parent, concrete)
<1>0. Len(child) = Len(parent) /\ Len(child) = Len(concrete)
  BY DEF patternIsSubsetOf, matchPattern
<1>1. DOMAIN child = 1 .. Len(child) /\ DOMAIN parent = 1 .. Len(parent)
  BY DEF Patterns
<1>2. ASSUME NEW i \in DOMAIN parent
      PROVE  parent[i] \in {Wildcard, concrete[i]}
  <2>1. parent[i] \in {Wildcard, child[i]} /\ child[i] \in {Wildcard, concrete[i]}
    BY <1>0, <1>1 DEF patternIsSubsetOf, matchPattern
  <2> QED
    BY <2>1
<1> QED
  BY <1>0, <1>2 DEF patternIsSubsetOf, matchPattern

(* The "if" half, for patterns that parse and an alphabet with at least    *)
(* two concrete segments: inclusion of the languages is enough.  A child   *)
(* that is not a subset has a string of its own that the parent rejects.   *)
LEMMA SubsetIsComplete ==
  ASSUME NEW child \in Patterns, NEW parent \in Patterns,
         parsePatternSegments(child), parsePatternSegments(parent),
         NEW s1 \in ConcreteSegments, NEW s2 \in ConcreteSegments, s1 # s2,
         \A concrete \in [1 .. Len(child) -> ConcreteSegments] :
           matchPattern(child, concrete) => matchPattern(parent, concrete)
  PROVE  patternIsSubsetOf(child, parent)
<1> DEFINE Other(segment) == IF segment = s1 THEN s2 ELSE s1
           w == [i \in 1 .. Len(child) |->
                   IF child[i] = Wildcard THEN Other(parent[i]) ELSE child[i]]
<1>1. /\ w \in [1 .. Len(child) -> ConcreteSegments]
      /\ w \in Seq(ConcreteSegments)
      /\ Len(w) = Len(child)
      /\ DOMAIN w = 1 .. Len(child)
  <2>1. \A i \in 1 .. Len(child) : w[i] \in ConcreteSegments
    BY DEF parsePatternSegments, isPatternSegment, Patterns
  <2> QED
    BY <2>1 DEF Patterns
<1>2. matchPattern(child, w)
  BY <1>1 DEF matchPattern, parsePatternSegments, isPatternSegment, Patterns
<1>3. matchPattern(parent, w)
  BY <1>1, <1>2
<1> HIDE DEF w
<1>4. Len(parent) = Len(child) /\ \A i \in 1 .. Len(child) : parent[i] \in {Wildcard, w[i]}
  <2>1. Len(parent) = Len(child) /\ DOMAIN parent = 1 .. Len(child)
    BY <1>1, <1>3 DEF matchPattern, Patterns
  <2> QED
    BY <1>3, <2>1 DEF matchPattern
<1>5. ASSUME NEW i \in 1 .. Len(child)
      PROVE  parent[i] \in {Wildcard, child[i]}
  <2>1. parent[i] \in {Wildcard, w[i]}
    BY <1>4
  <2>2. CASE child[i] = Wildcard
    BY <2>1, <2>2, SegmentsAssumption DEF w
  <2>3. CASE child[i] # Wildcard
    BY <2>1, <2>3 DEF w
  <2> QED
    BY <2>2, <2>3
<1> QED
  BY <1>4, <1>5 DEF patternIsSubsetOf, Patterns

(* patternIsSubsetOf decides inclusion: neither half alone says that a     *)
(* delegation is refused only for widening.                                *)
THEOREM SubsetIsExact ==
  ASSUME NEW child \in Patterns, NEW parent \in Patterns,
         parsePatternSegments(child), parsePatternSegments(parent),
         \E s1, s2 \in ConcreteSegments : s1 # s2
  PROVE  patternIsSubsetOf(child, parent) <=>
           \A concrete \in Seq(ConcreteSegments) :
             matchPattern(child, concrete) => matchPattern(parent, concrete)
<1>1. Seq(ConcreteSegments) \subseteq Patterns
  BY DEF Patterns, Segments
<1>2. PICK s1 \in ConcreteSegments, s2 \in ConcreteSegments : s1 # s2
  OBVIOUS
<1>3. ASSUME patternIsSubsetOf(child, parent),
             NEW concrete \in Seq(ConcreteSegments), matchPattern(child, concrete)
      PROVE  matchPattern(parent, concrete)
  BY <1>1, <1>3, SubsetIsSound
<1>4. ASSUME \A concrete \in Seq(ConcreteSegments) :
               matchPattern(child, concrete) => matchPattern(parent, concrete)
      PROVE  patternIsSubsetOf(child, parent)
  <2>1. [1 .. Len(child) -> ConcreteSegments] \subseteq Seq(ConcreteSegments)
    BY DEF Patterns
  <2> QED
    BY <1>2, <1>4, <2>1, SubsetIsComplete
<1> QED
  BY <1>3, <1>4

(* Inclusion of patterns is transitive, with no pattern in between lost.   *)
LEMMA SubsetIsTransitive ==
  ASSUME NEW p \in Patterns, NEW q \in Patterns, NEW r \in Patterns,
         patternIsSubsetOf(q, p), patternIsSubsetOf(r, q)
  PROVE  patternIsSubsetOf(r, p)
<1>1. /\ DOMAIN q = 1 .. Len(q) /\ DOMAIN r = 1 .. Len(r)
      /\ Len(q) = Len(p) /\ Len(r) = Len(q)
  BY DEF patternIsSubsetOf, Patterns
<1>2. ASSUME NEW i \in DOMAIN r
      PROVE  p[i] \in {Wildcard, r[i]}
  <2>1. p[i] \in {Wildcard, q[i]} /\ q[i] \in {Wildcard, r[i]}
    BY <1>1 DEF patternIsSubsetOf
  <2> QED
    BY <2>1
<1> QED
  BY <1>1, <1>2 DEF patternIsSubsetOf

-----------------------------------------------------------------------------
(* The values of a grant's constraints.                                    *)
LEMMA BindingsValues ==
  ASSUME NEW f \in Bindings, NEW key \in DOMAIN f
  PROVE  key \in Keys /\ f[key] \in Values
BY DEF Bindings

(* The two layers agree on what narrower means: constraints that the       *)
(* narrowing check accepts are, for every context, at least as hard to     *)
(* meet as the parent's.                                                   *)
LEMMA ConstraintsAreSound ==
  ASSUME NEW p \in CapabilityGrants, NEW r \in CapabilityGrants, NEW context \in Bindings,
         constraintsCoverRequest(p.constraints, r.constraints), evaluate(r, context)
  PROVE  evaluate(p, context)
<1> DEFINE pc == p.constraints
           rc == r.constraints
<1>0. pc \in Bindings /\ rc \in Bindings
  BY DEF CapabilityGrants
<1> SUFFICES ASSUME NEW key \in DOMAIN pc
             PROVE  MeetsKey(pc, context, key)
  BY DEF evaluate
<1>1. RestatesKey(pc, rc, key) /\ key \in DOMAIN rc
  BY DEF constraintsCoverRequest, RestatesKey
<1>2. MeetsKey(rc, context, key)
  BY <1>1 DEF evaluate
<1>3. CASE key \notin {"maxAmount", "minAmount"}
  BY <1>1, <1>2, <1>3 DEF RestatesKey, MeetsKey
<1>4. CASE key \in {"maxAmount", "minAmount"}
  <2>1. /\ context["amount"] \in Int /\ pc[key] \in Int /\ rc[key] \in Int
        /\ isFiniteNumber(context["amount"]) /\ isFiniteNumber(pc[key])
        /\ "amount" \in DOMAIN context
    BY <1>1, <1>2, <1>4, ValuesAssumption DEF RestatesKey, MeetsKey, isFiniteNumber
  <2>2. CASE key = "maxAmount"
    <3>1. context["amount"] <= rc[key] /\ rc[key] <= pc[key]
      BY <1>1, <1>2, <2>2 DEF RestatesKey, MeetsKey
    <3> QED
      BY <2>1, <2>2, <3>1 DEF MeetsKey
  <2>3. CASE key = "minAmount"
    <3>1. context["amount"] >= rc[key] /\ rc[key] >= pc[key]
      BY <1>1, <1>2, <2>3 DEF RestatesKey, MeetsKey
    <3> QED
      BY <2>1, <2>3, <3>1 DEF MeetsKey
  <2> QED
    BY <1>4, <2>2, <2>3
<1> QED
  BY <1>3, <1>4

(* Restating constraints at least as strictly is transitive.               *)
LEMMA ConstraintsAreTransitive ==
  ASSUME NEW p \in Bindings, NEW q \in Bindings, NEW r \in Bindings,
         constraintsCoverRequest(p, q), constraintsCoverRequest(q, r)
  PROVE  constraintsCoverRequest(p, r)
<1> SUFFICES ASSUME NEW key \in DOMAIN p
             PROVE  RestatesKey(p, r, key)
  BY DEF constraintsCoverRequest
<1>1. RestatesKey(p, q, key) /\ RestatesKey(q, r, key)
  BY DEF constraintsCoverRequest, RestatesKey
<1>2. CASE key \notin {"maxAmount", "minAmount"}
  BY <1>1, <1>2 DEF RestatesKey
<1>3. CASE key \in {"maxAmount", "minAmount"}
  <2>1. p[key] \in Int /\ q[key] \in Int /\ r[key] \in Int
    BY <1>1, <1>3, ValuesAssumption DEF RestatesKey, isFiniteNumber
  <2>2. CASE key = "maxAmount"
    BY <1>1, <2>1, <2>2 DEF RestatesKey
  <2>3. CASE key = "minAmount"
    BY <1>1, <2>1, <2>3 DEF RestatesKey
  <2> QED
    BY <1>3, <2>2, <2>3
<1> QED
  BY <1>2, <1>3

(* So is covering of single capabilities,                                  *)
LEMMA CoverIsTransitive ==
  ASSUME NEW p \in CapabilityGrants, NEW q \in CapabilityGrants, NEW r \in CapabilityGrants,
         capabilityCoversRequest(p, q), capabilityCoversRequest(q, r)
  PROVE  capabilityCoversRequest(p, r)
<1>1. \A cap \in {p, q, r} : /\ cap.action \in Patterns /\ cap.resource \in Patterns
                              /\ cap.constraints \in Bindings
  BY DEF CapabilityGrants
<1>2. patternIsSubsetOf(r.action, p.action) /\ patternIsSubsetOf(r.resource, p.resource)
  BY <1>1, SubsetIsTransitive DEF capabilityCoversRequest
<1>3. constraintsCoverRequest(p.constraints, r.constraints)
  BY <1>1, ConstraintsAreTransitive DEF capabilityCoversRequest
<1> QED
  BY <1>2, <1>3 DEF capabilityCoversRequest

(* of sets of them,                                                        *)
LEMMA CapabilitiesAreTransitive ==
  ASSUME NEW P \in SUBSET CapabilityGrants, NEW Q \in SUBSET CapabilityGrants,
         NEW R \in SUBSET CapabilityGrants,
         intersectCapabilities(P, Q), intersectCapabilities(Q, R)
  PROVE  intersectCapabilities(P, R)
<1> SUFFICES ASSUME NEW r \in R
             PROVE  \E p \in P : capabilityCoversRequest(p, r)
  BY DEF intersectCapabilities
<1>1. PICK q \in Q : capabilityCoversRequest(q, r)
  BY DEF intersectCapabilities
<1>2. PICK p \in P : capabilityCoversRequest(p, q)
  BY DEF intersectCapabilities
<1> QED
  BY <1>1, <1>2, CoverIsTransitive

(* and of audiences.                                                       *)
LEMMA AudienceIsTransitive ==
  ASSUME NEW P \in SUBSET Patterns, NEW Q \in SUBSET Patterns, NEW R \in SUBSET Patterns,
         intersectAudience(P, Q), intersectAudience(Q, R)
  PROVE  intersectAudience(P, R)
<1> SUFFICES ASSUME NEW r \in R
             PROVE  \E p \in P : patternIsSubsetOf(r, p)
  BY DEF intersectAudience
<1>1. PICK q \in Q : patternIsSubsetOf(r, q)
  BY DEF intersectAudience
<1>2. PICK p \in P : patternIsSubsetOf(q, p)
  BY DEF intersectAudience
<1> QED
  BY <1>1, <1>2, SubsetIsTransitive

(* Covered claims allow no request their parent's claims do not: what      *)
(* comparing patterns and constraints is worth at request time, when the   *)
(* policy is the default one.                                              *)
THEOREM NarrowingIsSound ==
  ASSUME NEW parent, NEW child, TypedAuthority(parent), TypedAuthority(child),
         NEW request \in Requests, Covers(parent, child), ClaimsAllow(child, request)
  PROVE  ClaimsAllow(parent, request)
<1>0. /\ parent.aud \subseteq Patterns /\ child.aud \subseteq Patterns
      /\ parent.capabilities \subseteq CapabilityGrants
      /\ child.capabilities \subseteq CapabilityGrants
  BY DEF TypedAuthority
<1>1. /\ request.action \in Patterns /\ request.resource \in Patterns
      /\ request.context \in Bindings
  BY DEF Requests
<1>2. matchAnyPattern(parent.aud, request.resource)
  <2>1. PICK r \in child.aud : matchPattern(r, request.resource)
    BY DEF ClaimsAllow, matchAnyPattern
  <2>2. PICK p \in parent.aud : patternIsSubsetOf(r, p)
    BY DEF Covers, intersectAudience
  <2> QED
    BY <1>0, <1>1, <2>1, <2>2, SubsetIsSound DEF matchAnyPattern
<1>3. PICK r \in child.capabilities : /\ matchPattern(r.action, request.action)
                                      /\ matchPattern(r.resource, request.resource)
                                      /\ evaluate(r, request.context)
  BY DEF ClaimsAllow, structuralMatches
<1>4. PICK p \in parent.capabilities : capabilityCoversRequest(p, r)
  BY DEF Covers, intersectCapabilities
<1>5. /\ r \in CapabilityGrants /\ p \in CapabilityGrants
      /\ r.action \in Patterns /\ r.resource \in Patterns
      /\ p.action \in Patterns /\ p.resource \in Patterns
  BY <1>0 DEF CapabilityGrants
<1>6. matchPattern(p.action, request.action) /\ matchPattern(p.resource, request.resource)
  BY <1>1, <1>3, <1>4, <1>5, SubsetIsSound DEF capabilityCoversRequest
<1>7. evaluate(p, request.context)
  BY <1>1, <1>3, <1>4, <1>5, ConstraintsAreSound DEF capabilityCoversRequest
<1> QED
  BY <1>2, <1>6, <1>7 DEF ClaimsAllow, structuralMatches

(* Both checks between two hops together are transitive.                   *)
LEMMA CoversIsTransitive ==
  ASSUME NEW p, NEW q, NEW r, TypedAuthority(p), TypedAuthority(q), TypedAuthority(r),
         Covers(p, q), Covers(q, r)
  PROVE  Covers(p, r)
BY CapabilitiesAreTransitive, AudienceIsTransitive DEF Covers, TypedAuthority

-----------------------------------------------------------------------------
(* A set of naturals that is not empty has a least element.                *)
LEMMA LeastElement ==
  ASSUME NEW T \in SUBSET Nat, T # {}
  PROVE  \E k \in T : \A m \in T : k <= m
<1> DEFINE R == {p \in Nat \X Nat : p[1] < p[2]}
<1>1. IsWellFoundedOn(R, Nat)
  BY NatLessThanWellFounded DEF OpToRel
<1>2. PICK k \in T : \A m \in T : ~(<<m, k>> \in R)
  BY <1>1, WFMin
<1>3. ASSUME NEW m \in T
      PROVE  k <= m
  <2>1. <<m, k>> \notin R /\ m \in Nat /\ k \in Nat
    BY <1>2
  <2> QED
    BY <2>1
<1> QED
  BY <1>3

(* Comparing adjacent hops is enough: in a sequence of claims each of      *)
(* which covers the next, each covers all that come after it.              *)
LEMMA AdjacentCoversAll ==
  ASSUME NEW n \in Nat, NEW hops,
         \A i \in 1 .. n : TypedAuthority(hops[i]),
         \A i \in 2 .. n : Covers(hops[i - 1], hops[i])
  PROVE  \A j \in 1 .. n : \A i \in 1 .. j - 1 : Covers(hops[i], hops[j])
<1> DEFINE T == {j \in 1 .. n : \E i \in 1 .. j - 1 : ~Covers(hops[i], hops[j])}
<1> SUFFICES ASSUME T # {}
             PROVE  FALSE
  OBVIOUS
<1>1. PICK j \in T : \A m \in T : j <= m
  <2>1. T \in SUBSET Nat
    OBVIOUS
  <2> HIDE DEF T
  <2> QED
    BY <2>1, LeastElement
<1>2. PICK i \in 1 .. j - 1 : ~Covers(hops[i], hops[j])
  OBVIOUS
<1>3. /\ j \in 2 .. n /\ j - 1 \in 1 .. n /\ j - 1 \notin T
      /\ i \in 1 .. n
  BY <1>1, <1>2
<1>4. i # j - 1 /\ i \in 1 .. (j - 1) - 1
  BY <1>2, <1>3
<1>5. Covers(hops[i], hops[j - 1]) /\ Covers(hops[j - 1], hops[j])
  BY <1>3, <1>4
<1> QED
  BY <1>2, <1>3, <1>5, CoversIsTransitive

(* A sequence of numbers that never rises from one place to the next never *)
(* rises at all.                                                           *)
LEMMA AdjacentNonIncreasing ==
  ASSUME NEW n \in Nat, NEW f,
         \A i \in 1 .. n : f[i] \in Int,
         \A i \in 2 .. n : f[i] <= f[i - 1]
  PROVE  \A j \in 1 .. n : \A i \in 1 .. j : f[j] <= f[i]
<1> DEFINE T == {j \in 1 .. n : \E i \in 1 .. j : ~(f[j] <= f[i])}
<1> SUFFICES ASSUME T # {}
             PROVE  FALSE
  OBVIOUS
<1>1. PICK j \in T : \A m \in T : j <= m
  <2>1. T \in SUBSET Nat
    OBVIOUS
  <2> HIDE DEF T
  <2> QED
    BY <2>1, LeastElement
<1>2. PICK i \in 1 .. j : ~(f[j] <= f[i])
  OBVIOUS
<1>3. j \in 1 .. n /\ i \in 1 .. n /\ f[i] \in Int /\ f[j] \in Int
  OBVIOUS
<1>4. i # j /\ i \in 1 .. j - 1 /\ j \in 2 .. n /\ j - 1 \in 1 .. n
  BY <1>2, <1>3
<1>5. j - 1 \notin T
  BY <1>1, <1>4
<1>6. f[j - 1] <= f[i] /\ f[j] <= f[j - 1] /\ f[j - 1] \in Int
  BY <1>4, <1>5
<1> QED
  BY <1>2, <1>3, <1>6
=============================================================================
