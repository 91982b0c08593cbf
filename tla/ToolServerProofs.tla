-------------------------- MODULE ToolServerProofs --------------------------
(***************************************************************************)
(* The guarded tool, for any number of clients, processes, tokens and      *)
(* requests, and any interleaving of the awaits of one with the others,    *)
(* with rotated keys, revocations, time and restarts.                      *)
(***************************************************************************)
EXTENDS ToolServer, NarrowingProofs, TrailsProofs

Responses == {"no_credential", "thrown", "denied", "ran"}
Moments == [now : Nat, revoked : SUBSET DOMAIN Tokens]
Pendings == [pc : {"resolving", "resolved", "authorizing"}, hops : Presented, asked : AskedRequests,
             arrived : Moments, once : SUBSET KeyPairs, always : SUBSET KeyPairs,
             revokedBefore : SUBSET DOMAIN Tokens]

(* A request in flight: what it remembers of its arrival has only been     *)
(* added to since.                                                         *)
Received(c) ==
  \/ server[c] = Idle
  \/ \E response \in Responses : server[c] = Answered(response)
  \/ /\ server[c] \in Pendings /\ process # Down
     /\ server[c].arrived.now <= now /\ server[c].arrived.revoked \subseteq revoked
     /\ server[c].revokedBefore \subseteq server[c].arrived.revoked
     /\ server[c].always \subseteq trusted /\ trusted \subseteq server[c].once

(* The hops that verifyChain() has behind it are readable, and were signed *)
(* under keys seen trusted; the clock it judges the hop at hand by was     *)
(* read before; when it has returned, all of the hops make a chain.        *)
VerifyingCall(c) ==
  LET v == verifying[c]
      hops == server[c].hops
  IN  /\ v = [pc |-> v.pc, hops |-> hops, i |-> v.i, checkedAt |-> v.checkedAt,
              trustedSince |-> v.trustedSince]
      /\ v.pc \in {"getKey", "importKey", "jwtVerify"}
      /\ Len(hops) <= maxDelegationDepth /\ v.i \in DOMAIN hops
      /\ \A j \in 1 .. v.i - 1 :
           V!assertShapeOfHopClaims(hops[j]) /\ V!signer(hops[j]) \in server[c].once
      /\ v.pc # "getKey" => V!signer(hops[v.i]) \in server[c].once
      /\ v.pc = "jwtVerify" => v.checkedAt \in Nat /\ v.checkedAt <= now

Verified(c) ==
  /\ verifying[c] # V!Idle => server[c].pc = "resolving" /\ VerifyingCall(c)
  /\ server[c].pc = "resolving" /\ verifying[c] = V!Idle =>
       Len(server[c].hops) \notin 1 .. maxDelegationDepth
  /\ server[c].pc \in {"resolved", "authorizing"} =>
       /\ server[c].hops \in verified
       /\ WellMade(server[c].hops) /\ Vouched(server[c].hops, server[c].once)

(* What authorize() has established so far, and a decision in terms of the *)
(* request: an allow was right when it arrived, a denial is right now.     *)
Knows(c, a) ==
  LET hops == server[c].hops
      asked == server[c].asked
      arrived == server[c].arrived
  IN  /\ a = [pc |-> a.pc, hops |-> Credential(hops), request |-> asked, i |-> a.i,
              answer |-> a.answer, decision |-> a.decision, asked |-> a.asked, failed |-> a.failed]
      /\ a.pc \in {"isRevoked", "resume", "returned"} /\ a.i \in DOMAIN hops
      /\ a.answer \in BOOLEAN /\ a.failed \in BOOLEAN
      /\ \A j \in 1 .. a.i - 1 : hops[j] \notin arrived.revoked
      /\ a.pc = "isRevoked" => ~a.failed
      /\ a.pc = "resume" /\ a.answer => a.failed \/ hops[a.i] \in revoked
      /\ a.pc = "resume" /\ ~a.answer => ~a.failed /\ hops[a.i] \notin arrived.revoked
      /\ a.pc = "returned" /\ a.decision = "allow" => ~a.failed /\ Entitled(hops, asked, arrived)
      /\ a.pc = "returned" /\ a.decision # "allow" => a.failed \/ ~Entitled(hops, asked, A!Moment)

DecidingCall(c) == Knows(c, authorizing[c])

Decided(c) ==
  /\ authorizing[c] # A!NoCall =>
       server[c].pc = "authorizing" /\ WellFormed(server[c].asked) /\ DecidingCall(c)
  /\ server[c].pc = "authorizing" /\ WellFormed(server[c].asked) => authorizing[c] # A!NoCall

(* The audit wrapper has that very decision, and from when it awaits the   *)
(* sink, an event on record.                                               *)
OnRecord(event) == event \in ToSet(sink) \/ event.id \in reported

Settled(c) == auditing[c].pc = "returned" /\ auditing[c].outcome # "thrown"

AuditedCall(c) ==
  LET t == auditing[c]
  IN  /\ t = [pc |-> t.pc, type |-> "authorization", emitter |-> t.emitter, result |-> t.result,
              outcome |-> t.outcome, id |-> t.id]
      /\ t.pc \in {"wrapped", "observe", "append", "returned"}
      /\ t.emitter = process /\ process # Down
      /\ t.pc = "append" \/ Settled(c) =>
           \E event \in T!Events : /\ event.id = t.id /\ event.id[1] = t.emitter
                                   /\ event.content[2] = t.result /\ OnRecord(event)
      /\ t.pc = "returned" => t.outcome = t.result

Recorded(c) ==
  /\ auditing[c] # T!Idle => AuditedCall(c)
  /\ server[c].pc = "authorizing" =>
       /\ auditing[c] # T!Idle /\ auditing[c].emitter = process
       /\ auditing[c].pc \in {"observe", "append"} \/ Settled(c) =>
            /\ authorizing[c] # A!NoCall /\ A!Returned(c)
            /\ auditing[c].result = outcome(authorizing[c].decision)
       /\ auditing[c].pc = "returned" /\ auditing[c].outcome = "thrown" => ~WellFormed(server[c].asked)
  /\ \A pair \in {<<"ran", "allow">>, <<"denied", "deny">>} : server[c] = Answered(pair[1]) =>
       /\ auditing[c] # T!Idle /\ auditing[c].pc = "returned"
       /\ auditing[c].emitter = process /\ auditing[c].outcome = pair[2]

Shared ==
  /\ now \in Nat /\ trusted \subseteq KeyPairs
  /\ revoked \subseteq DOMAIN Tokens /\ revokedEver \subseteq revoked
  /\ running \subseteq Processes /\ process \in running \cup {Down}
  /\ IsSequence(sink) /\ built = [e \in Processes |-> built[e]]
  /\ \A e \in Processes : IsSequence(built[e])

PerClient ==
  /\ server = [c \in Clients |-> server[c]] /\ verifying = [c \in Clients |-> verifying[c]]
  /\ authorizing = [c \in Clients |-> authorizing[c]] /\ auditing = [c \in Clients |-> auditing[c]]

Client(c) == Received(c) /\ Verified(c) /\ Decided(c) /\ Recorded(c)

Inv == Shared /\ PerClient /\ \A c \in Clients : Client(c)

-----------------------------------------------------------------------------
(* What is presented is made of typed claims.                              *)
LEMMA PresentedHops ==
  ASSUME NEW hops \in Presented
  PROVE  /\ Len(hops) \in Nat /\ DOMAIN hops = 1 .. Len(hops)
         /\ \A i \in DOMAIN hops :
              /\ hops[i] \in DOMAIN Tokens /\ claims(hops[i]) \in TokenClaims
              /\ TypedAuthority(claims(hops[i])) /\ claims(hops[i]).exp \in Int
<1>1. hops \in Seq(DOMAIN Tokens)
  BY ToolRequestsAssumption
<1>2. \A t \in DOMAIN Tokens : Tokens[t] \in [kid : Kids, claims : TokenClaims]
  <2> DEFINE S == [kid : Kids, claims : TokenClaims]
  <2>1. Tokens \in Seq(S)
    BY ToolRequestsAssumption
  <2> HIDE DEF S
  <2>2. \A t \in DOMAIN Tokens : Tokens[t] \in S
    BY <2>1
  <2> QED
    BY <2>2 DEF S
<1>3. ASSUME NEW i \in DOMAIN hops
      PROVE  /\ hops[i] \in DOMAIN Tokens /\ claims(hops[i]) \in TokenClaims
             /\ TypedAuthority(claims(hops[i])) /\ claims(hops[i]).exp \in Int
  <2>1. hops[i] \in DOMAIN Tokens
    BY <1>1
  <2>2. Tokens[hops[i]] \in [kid : Kids, claims : TokenClaims]
    BY <1>2, <2>1
  <2>3. claims(hops[i]) \in TokenClaims
    BY <2>2 DEF claims
  <2> QED
    BY <2>1, <2>3 DEF TokenClaims, TypedAuthority
<1> QED
  BY <1>1, <1>3

(* Reading the last hop alone is enough: in a lineage that is well made,   *)
(* what the last hop allows every hop allows, and none expires before it.  *)
LEMMA LastSpeaksForAll ==
  ASSUME NEW hops \in Presented, WellMade(hops), NEW i \in DOMAIN hops
  PROVE  /\ Len(hops) \in DOMAIN hops
         /\ claims(hops[Len(hops)]).exp <= claims(hops[i]).exp
         /\ \A request \in Requests :
              ClaimsAllow(claims(hops[Len(hops)]), request) => ClaimsAllow(claims(hops[i]), request)
<1> DEFINE n == Len(hops)
           f == [k \in 1 .. n |-> claims(hops[k]).exp]
           g == [k \in 1 .. n |-> claims(hops[k])]
<1>1. /\ n \in Nat \ {0} /\ DOMAIN hops = 1 .. n /\ n \in DOMAIN hops
      /\ \A k \in 1 .. n : TypedAuthority(claims(hops[k])) /\ claims(hops[k]).exp \in Int
  BY PresentedHops
<1>2. \A k \in 2 .. n : /\ Covers(claims(hops[k - 1]), claims(hops[k]))
                        /\ claims(hops[k]).exp <= claims(hops[k - 1]).exp
  BY DEF WellMade
<1> HIDE DEF n
<1>3. \A k \in 1 .. n : f[k] = claims(hops[k]).exp /\ g[k] = claims(hops[k])
  OBVIOUS
<1>4. \A k \in 2 .. n : k \in 1 .. n /\ k - 1 \in 1 .. n
  BY <1>1
<1>5. /\ \A k \in 1 .. n : f[k] \in Int /\ TypedAuthority(g[k])
      /\ \A k \in 2 .. n : f[k] <= f[k - 1] /\ Covers(g[k - 1], g[k])
  BY <1>1, <1>2, <1>3, <1>4
<1> HIDE DEF f, g
<1>6. \A j \in 1 .. n : \A k \in 1 .. j : f[j] <= f[k]
  BY <1>1, <1>5, AdjacentNonIncreasing
<1>7. \A j \in 1 .. n : \A k \in 1 .. j - 1 : Covers(g[k], g[j])
  BY <1>1, <1>5, AdjacentCoversAll
<1>8. ASSUME NEW request \in Requests, ClaimsAllow(claims(hops[n]), request)
      PROVE  ClaimsAllow(claims(hops[i]), request)
  <2>1. CASE i = n
    BY <1>8, <2>1
  <2>2. CASE i # n
    <3>1. i \in 1 .. n - 1 /\ i \in 1 .. n /\ n \in 1 .. n
      BY <1>1, <2>2
    <3>2. Covers(g[i], g[n])
      BY <1>7, <3>1
    <3>3. Covers(claims(hops[i]), claims(hops[n]))
      BY <1>3, <3>1, <3>2
    <3> QED
      BY <1>1, <1>8, <3>1, <3>3, NarrowingIsSound
  <2> QED
    BY <2>1, <2>2
<1>9. claims(hops[n]).exp <= claims(hops[i]).exp
  BY <1>1, <1>3, <1>6
<1> QED
  BY <1>1, <1>8, <1>9 DEF n

(* A request that assertConcrete lets through is one narrowing speaks of.  *)
LEMMA WellFormedIsRequest ==
  ASSUME NEW request \in AskedRequests, WellFormed(request)
  PROVE  request \in Requests
<1>1. request \in AskedFor
  BY ToolRequestsAssumption
<1> QED
  BY <1>1 DEF AskedFor, Requests, WellFormed

(* Time and revocations only take entitlement away.                        *)
LEMMA EntitlementShrinks ==
  ASSUME NEW hops \in Presented, NEW request, NEW m1, NEW m2,
         m1.now \in Int, m2.now \in Int, m1.now <= m2.now, m1.revoked \subseteq m2.revoked,
         Entitled(hops, request, m2)
  PROVE  Entitled(hops, request, m1)
<1> SUFFICES ASSUME NEW i \in DOMAIN hops
             PROVE  /\ hops[i] \notin m1.revoked
                    /\ m1.now < claims(hops[i]).exp
                    /\ ClaimsAllow(claims(hops[i]), request)
  BY DEF Entitled
<1>1. claims(hops[i]).exp \in Int
  BY PresentedHops
<1> QED
  BY <1>1 DEF Entitled

-----------------------------------------------------------------------------
(* The modules of the parts read claims through definitions of their own,  *)
(* which say the same.                                                     *)
LEMMA SameCovering ==
  ASSUME NEW parent, NEW child
  PROVE  V!Covers(parent, child) = Covers(parent, child)
<1>1. ASSUME NEW p, NEW q
      PROVE  V!patternIsSubsetOf(p, q) = patternIsSubsetOf(p, q)
  BY DEF V!patternIsSubsetOf, patternIsSubsetOf, V!parsePatternSegments, parsePatternSegments,
         V!isPatternSegment, isPatternSegment
<1>2. ASSUME NEW p, NEW q
      PROVE  V!constraintsCoverRequest(p, q) = constraintsCoverRequest(p, q)
  BY DEF V!constraintsCoverRequest, constraintsCoverRequest, V!RestatesKey, RestatesKey,
         V!isFiniteNumber, isFiniteNumber
<1>3. ASSUME NEW p, NEW q
      PROVE  V!capabilityCoversRequest(p, q) = capabilityCoversRequest(p, q)
  BY <1>1, <1>2 DEF V!capabilityCoversRequest, capabilityCoversRequest
<1> QED
  BY <1>1, <1>3 DEF V!Covers, Covers, V!intersectCapabilities, intersectCapabilities,
                    V!intersectAudience, intersectAudience

(* Authorization's reading of claims and of requests is the server's.      *)
LEMMA SameAllowing ==
  ASSUME NEW hop, NEW request
  PROVE  A!ClaimsAllow(hop, request) = ClaimsAllow(hop, request)
<1>1. ASSUME NEW pattern, NEW concrete
      PROVE  A!matchPattern(pattern, concrete) = matchPattern(pattern, concrete)
  BY DEF A!matchPattern, matchPattern, A!parsePatternSegments, parsePatternSegments,
         A!isPatternSegment, isPatternSegment
<1>2. ASSUME NEW cap, NEW context
      PROVE  A!evaluate(cap, context) = evaluate(cap, context)
  BY DEF A!evaluate, evaluate, A!MeetsKey, MeetsKey, A!isFiniteNumber, isFiniteNumber
<1> QED
  BY <1>1, <1>2
     DEF A!ClaimsAllow, ClaimsAllow, A!matchAnyPattern, matchAnyPattern,
         A!structuralMatches, structuralMatches

(* And so is its reading of what is concrete.                              *)
LEMMA SameWellFormed ==
  ASSUME NEW request
  PROVE  A!WellFormed(request) = WellFormed(request)
BY DEF A!WellFormed, WellFormed, A!assertConcrete, assertConcrete,
       A!isConcreteSegment, isConcreteSegment

(* What the walk of verifyChain() compares, in terms of the request.       *)
LEMMA WalkCompares ==
  ASSUME NEW hops
  PROVE  V!WalkAccepts(hops) <=>
           /\ claims(hops[1]).parentHopHash = NoParent
           /\ \A i \in 2 .. Len(hops) :
                /\ claims(hops[i - 1]).sub = claims(hops[i]).iss
                /\ claims(hops[i]).parentHopHash = hops[i - 1]
                /\ Covers(claims(hops[i - 1]), claims(hops[i]))
                /\ claims(hops[i]).exp <= claims(hops[i - 1]).exp
<1>1. ASSUME NEW token
      PROVE  V!claims(token) = claims(token)
  BY DEF V!claims, claims
<1> QED
  BY <1>1, SameCovering DEF V!WalkAccepts, V!AdjacentOk, V!WithinAuthority, V!NoParent, NoParent

(* The hops that verifyChain() accepts are well made, and vouched for by   *)
(* the keys it has seen trusted.                                           *)
LEMMA AcceptedIsWellMade ==
  ASSUME NEW hops \in Presented, Len(hops) \in 1 .. maxDelegationDepth, NEW keys,
         \A j \in 1 .. Len(hops) : V!assertShapeOfHopClaims(hops[j]) /\ V!signer(hops[j]) \in keys,
         V!WalkAccepts(hops)
  PROVE  WellMade(hops) /\ Vouched(hops, keys)
<1>1. /\ Len(hops) \in Nat \ {0} /\ DOMAIN hops = 1 .. Len(hops) /\ hops # <<>>
      /\ Len(hops) <= maxDelegationDepth /\ hops[1] \in DOMAIN Tokens
  BY PresentedHops, ToolRequestsAssumption
<1>2. /\ claims(hops[1]).parentHopHash = NoParent
      /\ \A i \in 2 .. Len(hops) :
           /\ claims(hops[i - 1]).sub = claims(hops[i]).iss
           /\ claims(hops[i]).parentHopHash = hops[i - 1]
           /\ Covers(claims(hops[i - 1]), claims(hops[i]))
           /\ claims(hops[i]).exp <= claims(hops[i - 1]).exp
  BY WalkCompares
<1>3. \A i \in DOMAIN hops : i = 1 \/ i \in 2 .. Len(hops)
  BY <1>1
<1>4. ASSUME NEW i \in DOMAIN hops
      PROVE  /\ claims(hops[i]).aud # {} /\ <<>> \notin claims(hops[i]).aud
             /\ \A cap \in claims(hops[i]).capabilities : cap.action # <<>> /\ cap.resource # <<>>
  BY <1>1 DEF V!assertShapeOfHopClaims, V!assertValidCapabilities, V!claims, claims
<1>5. WholeLineage(hops)
  BY <1>1, <1>2, <1>3 DEF WholeLineage
<1>6. WellMade(hops)
  BY <1>1, <1>2, <1>4, <1>5 DEF WellMade
<1>7. ASSUME NEW i \in DOMAIN hops
      PROVE  claims(hops[i]).iss = Holder(hops, i) /\ <<Holder(hops, i), Tokens[hops[i]].kid>> \in keys
  <2>1. claims(hops[i]).iss = Holder(hops, i)
    BY <1>2, <1>3 DEF Holder
  <2>2. V!signer(hops[i]) = <<claims(hops[i]).iss, Tokens[hops[i]].kid>>
    BY DEF V!signer, V!claims, claims
  <2> QED
    BY <1>1, <2>1, <2>2
<1> QED
  BY <1>6, <1>7 DEF Vouched

(* Hops that are well made and vouched for meet each of its checks, but    *)
(* for the clock.                                                          *)
LEMMA WellMadeIsAccepted ==
  ASSUME NEW hops \in Presented, NEW keys, WellMade(hops), Vouched(hops, keys)
  PROVE  /\ Len(hops) \in 1 .. maxDelegationDepth
         /\ \A j \in DOMAIN hops : V!assertShapeOfHopClaims(hops[j]) /\ V!signer(hops[j]) \in keys
         /\ V!WalkAccepts(hops)
<1>1. /\ Len(hops) \in Nat \ {0} /\ DOMAIN hops = 1 .. Len(hops)
      /\ Len(hops) <= maxDelegationDepth /\ WholeLineage(hops)
  <2>1. hops # <<>> /\ Len(hops) <= maxDelegationDepth /\ WholeLineage(hops)
    BY DEF WellMade, WholeLineage
  <2>2. hops \in Seq(DOMAIN Tokens)
    BY ToolRequestsAssumption
  <2> QED
    BY <2>1, <2>2
<1>2. 1 \in DOMAIN hops /\ \A i \in 2 .. Len(hops) : i \in DOMAIN hops /\ i # 1
  BY <1>1
<1>3. ASSUME NEW j \in DOMAIN hops
      PROVE  V!assertShapeOfHopClaims(hops[j]) /\ V!signer(hops[j]) \in keys
  <2>1. V!assertShapeOfHopClaims(hops[j])
    BY DEF WellMade, V!assertShapeOfHopClaims, V!assertValidCapabilities, V!claims, claims
  <2>2. V!signer(hops[j]) = <<claims(hops[j]).iss, Tokens[hops[j]].kid>>
    BY DEF V!signer, V!claims, claims
  <2> QED
    BY <2>1, <2>2 DEF Vouched
<1>4. claims(hops[1]).parentHopHash = NoParent
  BY <1>1, <1>2 DEF WholeLineage
<1>5. ASSUME NEW i \in 2 .. Len(hops)
      PROVE  /\ claims(hops[i - 1]).sub = claims(hops[i]).iss
             /\ claims(hops[i]).parentHopHash = hops[i - 1]
             /\ Covers(claims(hops[i - 1]), claims(hops[i]))
             /\ claims(hops[i]).exp <= claims(hops[i - 1]).exp
  BY <1>1, <1>2 DEF WholeLineage, WellMade, Vouched, Holder
<1>6. V!WalkAccepts(hops)
  BY <1>4, <1>5, WalkCompares
<1> QED
  BY <1>1, <1>3, <1>6, ToolRequestsAssumption

-----------------------------------------------------------------------------
(* Most steps are those of one client, or of none: for the others time     *)
(* goes on, hops are revoked, chains are verified and events are recorded. *)
Onward ==
  /\ now' \in Nat /\ now <= now' /\ revoked \subseteq revoked' /\ verified \subseteq verified'
  /\ trusted' = trusted /\ process' = process
  /\ T!Events \subseteq T!Events' /\ \A event : OnRecord(event) => OnRecord(event)'

(* What a client in flight is known to have, in one piece.                 *)
LEMMA PendingOf ==
  ASSUME NEW c \in Clients, Received(c), server[c].pc \in {"resolving", "resolved", "authorizing"}
  PROVE  /\ server[c] \in Pendings /\ process # Down
         /\ server[c].hops \in Presented /\ server[c].asked \in AskedRequests
         /\ server[c].arrived.now \in Nat /\ server[c].arrived.now <= now
         /\ server[c].arrived.revoked \subseteq revoked
         /\ server[c].revokedBefore \subseteq server[c].arrived.revoked
         /\ server[c].always \subseteq trusted /\ trusted \subseteq server[c].once
<1>1. server[c] # Idle /\ \A response : server[c] # Answered(response)
  <2>1. Idle.pc = "idle" /\ \A response : Answered(response).pc = "answered"
    BY DEF Idle, Answered
  <2> QED
    BY <2>1
<1>2. server[c] \in Pendings
  BY <1>1 DEF Received
<1>3. server[c].arrived \in Moments
  BY <1>2 DEF Pendings
<1> QED
  BY <1>1, <1>2, <1>3 DEF Received, Pendings, Moments

(* What a client is known to have survives the steps of others, part by    *)
(* part.                                                                   *)
LEMMA ReceivedKept ==
  ASSUME NEW d \in Clients, Received(d), server'[d] = server[d], now \in Nat, Onward
  PROVE  Received(d)'
<1>1. CASE server[d] = Idle \/ \E response \in Responses : server[d] = Answered(response)
  BY <1>1 DEF Received
<1>2. CASE server[d] \in Pendings
  <2>1. server[d].pc \in {"resolving", "resolved", "authorizing"}
    BY <1>2 DEF Pendings
  <2>2. server[d].arrived.now <= now'
    BY <2>1, PendingOf DEF Onward
  <2> QED
    BY <1>2, <2>1, <2>2, PendingOf DEF Received, Onward
<1> QED
  BY <1>1, <1>2 DEF Received

(* Verified chains stay verified.                                          *)
LEMMA VerifiedKept ==
  ASSUME NEW d \in Clients, Verified(d), now \in Nat,
         server'[d] = server[d], verifying'[d] = verifying[d], Onward
  PROVE  Verified(d)'
<1>1. VerifyingCall(d) => VerifyingCall(d)'
  BY DEF VerifyingCall, Onward
<1> QED
  BY <1>1 DEF Verified, Onward, V!Idle

(* A denial that was right stays right: entitlement only shrinks.          *)
LEMMA DecidedKept ==
  ASSUME NEW d \in Clients, Received(d), Decided(d), now \in Nat,
         server'[d] = server[d], authorizing'[d] = authorizing[d], Onward
  PROVE  Decided(d)'
<1>1. CASE authorizing[d] = A!NoCall
  BY <1>1 DEF Decided, A!NoCall
<1>2. CASE authorizing[d] # A!NoCall
  <2>1. server[d].hops \in Presented
    BY <1>2, PendingOf DEF Decided
  <2>2. /\ A!Moment.now = now /\ A!Moment.revoked = revoked
        /\ (A!Moment)'.now = now' /\ (A!Moment)'.revoked = revoked'
    BY DEF A!Moment
  <2>3. Entitled(server[d].hops, server[d].asked, (A!Moment)')
          => Entitled(server[d].hops, server[d].asked, A!Moment)
    BY <2>1, <2>2, EntitlementShrinks DEF Onward
  <2>4. DecidingCall(d) => DecidingCall(d)'
    BY <2>3 DEF DecidingCall, Knows, Onward
  <2> QED
    BY <1>2, <2>4 DEF Decided, A!NoCall
<1> QED
  BY <1>1, <1>2

(* An event on record stays on record.                                     *)
LEMMA RecordedKept ==
  ASSUME NEW d \in Clients, Recorded(d), server'[d] = server[d],
         authorizing'[d] = authorizing[d], auditing'[d] = auditing[d], Onward
  PROVE  Recorded(d)'
<1>1. AuditedCall(d) => AuditedCall(d)'
  BY DEF AuditedCall, Onward, Settled
<1> QED
  BY <1>1 DEF Recorded, Onward, Settled, A!Returned, A!NoCall, T!Idle

Same(d) ==
  /\ server'[d] = server[d] /\ verifying'[d] = verifying[d]
  /\ authorizing'[d] = authorizing[d] /\ auditing'[d] = auditing[d]

(* All of it together.                                                     *)
LEMMA ClientKept ==
  ASSUME Inv, Onward, NEW d \in Clients, Same(d)
  PROVE  Client(d)'
BY ReceivedKept, VerifiedKept, DecidedKept, RecordedKept DEF Inv, Shared, Client, Same

(* So a step of one client needs to be looked at for that client only.     *)
LEMMA ClientStep ==
  ASSUME Inv, Onward, Shared', PerClient', NEW c \in Clients, Client(c)',
         \A d \in Clients \ {c} : Same(d)
  PROVE  Inv'
<1>1. \A d \in Clients : Client(d)'
  BY ClientKept
<1> QED
  BY <1>1 DEF Inv

(* And a step of none for none.                                            *)
LEMMA WorldStep ==
  ASSUME Inv, Onward, Shared', server' = server, verifying' = verifying,
         authorizing' = authorizing, auditing' = auditing
  PROVE  Inv'
<1>1. \A d \in Clients : Client(d)'
  BY ClientKept DEF Same
<1>2. PerClient'
  BY DEF Inv, PerClient
<1> QED
  BY <1>1, <1>2 DEF Inv

-----------------------------------------------------------------------------
(* The world around the clients.                                           *)
LEMMA InitHolds == Init => Inv
<1> SUFFICES ASSUME Init
             PROVE  Inv
  OBVIOUS
<1>1. Shared
  <2>1. IsSequence(sink) /\ \A e \in Processes : IsSequence(built[e])
    BY DEF Init, IsSequence
  <2> QED
    BY <2>1, ToolServerAssumption DEF Init, Shared
<1>2. PerClient
  BY DEF Init, PerClient
<1>3. ASSUME NEW c \in Clients
      PROVE  Client(c)
  <2>1. /\ server[c] = Idle /\ verifying[c] = V!Idle /\ authorizing[c] = A!NoCall
        /\ auditing[c] = T!Idle
    BY DEF Init
  <2>2. server[c].pc = "idle" /\ \A response : server[c] # Answered(response)
    <3>1. Idle.pc = "idle" /\ \A response : Answered(response).pc = "answered"
      BY DEF Idle, Answered
    <3> QED
      BY <2>1, <3>1
  <2> QED
    BY <2>1, <2>2 DEF Client, Received, Verified, Decided, Recorded
<1> QED
  BY <1>1, <1>2, <1>3 DEF Inv

(* Time passes.                                                            *)
LEMMA TickKeepsInv ==
  ASSUME Inv, Tick
  PROVE  Inv'
<1>1. /\ now \in Nat /\ now' = now + 1
      /\ UNCHANGED <<trusted, verified, verifying, running, sink, auditing, built, reported,
                     process, server, received, revokedEver, revoked, authorizing>>
  BY DEF Inv, Shared, Tick, A!Tick, verifierVars, auditVars, serverVars
<1>2. Onward
  BY <1>1 DEF Onward, T!Events, OnRecord
<1>3. Shared'
  BY <1>1 DEF Inv, Shared, IsSequence
<1> QED
  BY <1>1, <1>2, <1>3, WorldStep

(* A hop is revoked.                                                       *)
LEMMA RevokeKeepsInv ==
  ASSUME Inv, NEW token \in DOMAIN Tokens, Revoke(token)
  PROVE  Inv'
<1>1. /\ revoked' = revoked \cup {token} /\ revokedEver' = revokedEver \cup {token}
      /\ UNCHANGED <<now, trusted, verified, verifying, running, sink, auditing, built, reported,
                     process, server, received, authorizing>>
  BY DEF Revoke, A!revoke, verifierVars, auditVars
<1>2. Onward
  BY <1>1 DEF Inv, Shared, Onward, T!Events, OnRecord
<1>3. Shared'
  BY <1>1 DEF Inv, Shared, IsSequence
<1> QED
  BY <1>1, <1>2, <1>3, WorldStep

(* What a rotation of keys does: a request in flight notes it, and nothing *)
(* but its history changes.                                                *)
Noted(s, keys) ==
  [pc |-> s.pc, hops |-> s.hops, asked |-> s.asked, arrived |-> s.arrived,
   once |-> s.once \cup keys, always |-> s.always \cap keys, revokedBefore |-> s.revokedBefore]

(* The histories of a request in flight after a rotation.                  *)
LEMMA SeenNotes ==
  ASSUME Inv, NEW keys, Seen(keys), NEW d \in Clients
  PROVE  /\ server' = [c \in Clients |-> server'[c]]
         /\ server[d] \in Pendings => InFlight(d) /\ server'[d] = Noted(server[d], keys)
         /\ ~InFlight(d) => server'[d] = server[d]
<1>1. server' = [c \in Clients |->
               IF InFlight(c) THEN [server[c] EXCEPT !.once = @ \cup keys, !.always = @ \cap keys]
               ELSE server[c]]
  BY DEF Seen
<1>2. ASSUME server[d] \in Pendings
      PROVE  InFlight(d) /\ server'[d] = Noted(server[d], keys)
  <2>1. InFlight(d)
    BY <1>2 DEF Pendings, InFlight
  <2>2. server'[d] = [server[d] EXCEPT !.once = @ \cup keys, !.always = @ \cap keys]
    BY <1>1, <2>1
  <2>3. PICK s : s = server[d]
    OBVIOUS
  <2>4. s = [pc |-> s.pc, hops |-> s.hops, asked |-> s.asked, arrived |-> s.arrived,
             once |-> s.once, always |-> s.always, revokedBefore |-> s.revokedBefore]
    BY <1>2, <2>3 DEF Pendings
  <2>5. [s EXCEPT !.once = @ \cup keys]
          = [pc |-> s.pc, hops |-> s.hops, asked |-> s.asked, arrived |-> s.arrived,
             once |-> s.once \cup keys, always |-> s.always, revokedBefore |-> s.revokedBefore]
    BY <2>4
  <2>6. [s EXCEPT !.once = @ \cup keys, !.always = @ \cap keys] = Noted(s, keys)
    <3>1. PICK t : t = [s EXCEPT !.once = @ \cup keys]
      OBVIOUS
    <3>2. t = [pc |-> s.pc, hops |-> s.hops, asked |-> s.asked, arrived |-> s.arrived,
               once |-> s.once \cup keys, always |-> s.always, revokedBefore |-> s.revokedBefore]
      BY <2>5, <3>1
    <3>3. [t EXCEPT !.always = s.always \cap keys] = Noted(s, keys)
      BY <3>2 DEF Noted
    <3> QED
      BY <3>1, <3>3
  <2> QED
    BY <2>1, <2>2, <2>3, <2>6
<1> QED
  BY <1>1, <1>2

(* A key is added or removed.                                              *)
LEMMA RotateKeysKeepsInv ==
  ASSUME Inv, NEW pair \in Rotated, RotateKeys(pair[1], pair[2])
  PROVE  Inv'
<1>1. /\ trusted' \subseteq KeyPairs /\ Seen(trusted')
      /\ \/ verifying' = verifying
         \/ \E keys : verifying' = [v \in Clients |->
               IF verifying[v].pc = "idle" THEN verifying[v]
               ELSE [verifying[v] EXCEPT !.trustedSince = @ \cup keys]]
      /\ UNCHANGED <<now, verified, running, sink, auditing, built, reported,
                     process, received, revokedEver, revoked, authorizing>>
  <2>1. pair = <<pair[1], pair[2]>> /\ pair \in KeyPairs
    BY ToolServerAssumption, ToolRequestsAssumption
  <2>2. trusted \subseteq KeyPairs
    BY DEF Inv, Shared
  <2> QED
    BY <2>1, <2>2 DEF RotateKeys, V!addKey, V!removeKey, auditVars
<1>2. Shared'
  BY <1>1 DEF Inv, Shared, IsSequence
<1>3. PerClient'
  BY <1>1, SeenNotes DEF Inv, PerClient, Seen
<1>4. ASSUME NEW d \in Clients
      PROVE  Client(d)'
  <2>1. Client(d)
    BY DEF Inv
  <2>2. /\ verifying'[d] = V!Idle <=> verifying[d] = V!Idle
        /\ VerifyingCall(d) => /\ verifying'[d].pc = verifying[d].pc /\ verifying'[d].i = verifying[d].i
                               /\ verifying'[d].checkedAt = verifying[d].checkedAt
                               /\ verifying'[d] = [pc |-> verifying[d].pc, hops |-> server[d].hops,
                                      i |-> verifying[d].i, checkedAt |-> verifying[d].checkedAt,
                                      trustedSince |-> verifying'[d].trustedSince]
    <3>1. CASE verifying[d] = V!Idle
      <4>1. verifying[d].pc = "idle"
        BY <3>1 DEF V!Idle
      <4>2. verifying'[d] = verifying[d]
        BY <1>1, <4>1 DEF Inv, PerClient
      <4> QED
        BY <3>1, <4>1, <4>2 DEF VerifyingCall
    <3>2. CASE verifying[d] # V!Idle
      <4>1. VerifyingCall(d)
        BY <2>1, <3>2 DEF Client, Verified
      <4>2. /\ verifying[d] = [pc |-> verifying[d].pc, hops |-> server[d].hops, i |-> verifying[d].i,
                               checkedAt |-> verifying[d].checkedAt,
                               trustedSince |-> verifying[d].trustedSince]
            /\ verifying[d].pc # "idle"
        BY <4>1 DEF VerifyingCall
      <4>3. \E keys : verifying'[d] = [pc |-> verifying[d].pc, hops |-> server[d].hops,
                                       i |-> verifying[d].i, checkedAt |-> verifying[d].checkedAt,
                                       trustedSince |-> keys]
        <5>1. CASE verifying' = verifying
          BY <4>2, <5>1
        <5>2. ASSUME NEW keys, verifying' = [v \in Clients |->
                       IF verifying[v].pc = "idle" THEN verifying[v]
                       ELSE [verifying[v] EXCEPT !.trustedSince = @ \cup keys]]
              PROVE  \E k : verifying'[d] = [pc |-> verifying[d].pc, hops |-> server[d].hops,
                                             i |-> verifying[d].i,
                                             checkedAt |-> verifying[d].checkedAt, trustedSince |-> k]
          <6>1. verifying'[d] = [verifying[d] EXCEPT !.trustedSince = @ \cup keys]
            BY <4>2, <5>2
          <6>2. verifying'[d] = [pc |-> verifying[d].pc, hops |-> server[d].hops,
                   i |-> verifying[d].i, checkedAt |-> verifying[d].checkedAt,
                   trustedSince |-> verifying[d].trustedSince \cup keys]
            BY <4>2, <6>1
          <6> QED
            BY <6>2
        <5> QED
          BY <1>1, <5>1, <5>2
      <4>4. /\ verifying'[d].pc = verifying[d].pc /\ verifying'[d].i = verifying[d].i
            /\ verifying'[d].checkedAt = verifying[d].checkedAt
        BY <4>3
      <4>5. verifying'[d] # V!Idle
        BY <4>2, <4>4 DEF V!Idle
      <4> QED
        BY <3>2, <4>3, <4>4, <4>5
    <3> QED
      BY <3>1, <3>2
  <2>3. CASE ~InFlight(d)
    <3>1. server'[d] = server[d] /\ server[d].pc \notin {"resolving", "resolved", "authorizing"}
      BY <1>1, <2>3, SeenNotes DEF InFlight
    <3>2. server[d] \notin Pendings
      BY <3>1 DEF Pendings
    <3>3. Received(d)' /\ Verified(d)' /\ Decided(d)'
      BY <1>1, <2>1, <2>2, <3>1, <3>2 DEF Client, Received, Verified, Decided, A!NoCall
    <3>4. Recorded(d)'
      <4>1. AuditedCall(d) => AuditedCall(d)'
        BY <1>1 DEF AuditedCall, Settled, OnRecord, T!Events
      <4> QED
        BY <1>1, <2>1, <3>1, <4>1 DEF Client, Recorded, T!Idle
    <3> QED
      BY <3>3, <3>4 DEF Client
  <2>4. CASE InFlight(d)
    <3>1. server[d] \in Pendings /\ process # Down /\ Received(d)
      BY <2>1, <2>4, PendingOf DEF Client, InFlight
    <3>2. server'[d] = Noted(server[d], trusted')
      BY <1>1, <3>1, SeenNotes
    <3>3. /\ server'[d].pc = server[d].pc /\ server'[d].hops = server[d].hops
          /\ server'[d].asked = server[d].asked /\ server'[d].arrived = server[d].arrived
          /\ server'[d].revokedBefore = server[d].revokedBefore
          /\ server'[d].once = server[d].once \cup trusted'
          /\ server'[d].always = server[d].always \cap trusted'
      BY <3>2 DEF Noted
    <3>4. Received(d)'
      <4>1. server'[d] \in Pendings
        BY <1>1, <3>1, <3>2 DEF Noted, Pendings
      <4> QED
        BY <1>1, <2>4, <3>1, <3>3, <4>1, PendingOf DEF Received, InFlight
    <3>5. Verified(d)'
      <4>1. VerifyingCall(d) => VerifyingCall(d)'
        BY <1>1, <2>2, <3>3 DEF VerifyingCall
      <4>2. Vouched(server[d].hops, server[d].once) => Vouched(server'[d].hops, server'[d].once)
        BY <3>3 DEF Vouched
      <4> QED
        BY <1>1, <2>1, <2>2, <3>3, <4>1, <4>2 DEF Client, Verified
    <3>6. Decided(d)'
      <4>1. A!Moment' = A!Moment
        BY <1>1 DEF A!Moment
      <4>2. DecidingCall(d) => DecidingCall(d)'
        BY <1>1, <3>3, <4>1 DEF DecidingCall, Knows
      <4> QED
        BY <1>1, <2>1, <3>3, <4>2 DEF Client, Decided, A!NoCall
    <3>7. Recorded(d)'
      <4>1. AuditedCall(d) => AuditedCall(d)'
        BY <1>1 DEF AuditedCall, Settled, OnRecord, T!Events
      <4>2. \A response : server'[d] # Answered(response)
        BY <2>4, <3>3 DEF Answered, InFlight
      <4>3. Settled(d)' = Settled(d) /\ A!Returned(d)' = A!Returned(d)
        BY <1>1 DEF Settled, A!Returned
      <4> QED
        BY <1>1, <2>1, <3>3, <4>1, <4>2, <4>3 DEF Client, Recorded, T!Idle, A!NoCall
    <3> QED
      BY <3>4, <3>5, <3>6, <3>7 DEF Client
  <2> QED
    BY <2>3, <2>4
<1> QED
  BY <1>2, <1>3, <1>4 DEF Inv

(* The process stops: no request and no call is left.                      *)
LEMMA CrashKeepsInv ==
  ASSUME Inv, Crash
  PROVE  Inv'
<1>1. /\ process' = Down /\ trusted' = {} /\ running' = running \ {process} /\ verified' = {}
      /\ verifying' = [c \in Clients |-> V!Idle] /\ authorizing' = [c \in Clients |-> A!NoCall]
      /\ server' = [c \in Clients |-> Idle]
      /\ auditing' = [c \in Clients |-> IF auditing[c].pc # "idle" /\ auditing[c].emitter = process
                                        THEN T!Idle ELSE auditing[c]]
      /\ UNCHANGED <<now, revoked, revokedEver, sink, built, reported>>
  BY DEF Crash, T!Crash
<1>2. Shared'
  BY <1>1 DEF Inv, Shared, IsSequence
<1>3. PerClient'
  BY <1>1 DEF PerClient
<1>4. ASSUME NEW d \in Clients
      PROVE  Client(d)'
  <2>1. server'[d] = Idle /\ verifying'[d] = V!Idle /\ authorizing'[d] = A!NoCall
    BY <1>1
  <2>2. server'[d].pc = "idle" /\ \A response : server'[d] # Answered(response)
    <3>1. Idle.pc = "idle" /\ \A response : Answered(response).pc = "answered"
      BY DEF Idle, Answered
    <3> QED
      BY <2>1, <3>1
  <2>3. auditing'[d] = T!Idle
    <3>1. auditing[d] # T!Idle => auditing[d].emitter = process /\ auditing[d].pc # "idle"
      BY DEF Inv, Client, Recorded, AuditedCall
    <3> QED
      BY <1>1, <3>1
  <2> QED
    BY <2>1, <2>2, <2>3 DEF Client, Received, Verified, Decided, Recorded, T!Idle
<1> QED
  BY <1>2, <1>3, <1>4 DEF Inv

(* A process starts over the tables of the one before, or with nothing in  *)
(* memory: no request and no call is left that could miss anything.        *)
LEMMA RestartKeepsInv ==
  ASSUME Inv, Restart
  PROVE  Inv'
<1>1. /\ process = Down /\ process' \in running /\ trusted' = keysFile
      /\ UNCHANGED <<now, verified, verifying, authorizing, running, auditing, built, reported, server>>
  BY DEF Restart, verifierVars
<1>2. Shared'
  <2>1. /\ IsSequence(sink') /\ revoked' \subseteq DOMAIN Tokens /\ revokedEver' \subseteq revoked'
    <3>1. CASE Durable
      BY <3>1 DEF Restart, opened, Inv, Shared, IsSequence
    <3>2. CASE ~Durable
      BY <3>2 DEF Restart, opened, IsSequence
    <3> QED
      BY <3>1, <3>2
  <2> QED
    BY <1>1, <2>1, ToolServerAssumption DEF Inv, Shared, IsSequence
<1>3. PerClient'
  BY <1>1 DEF Inv, PerClient
<1>4. ASSUME NEW d \in Clients
      PROVE  Client(d)'
  <2>1. Client(d)
    BY DEF Inv
  <2>2. server[d] = Idle \/ \E response \in Responses : server[d] = Answered(response)
    BY <1>1, <2>1 DEF Client, Received
  <2>3. server[d].pc \in {"idle", "answered"}
    <3>1. Idle.pc = "idle" /\ \A response : Answered(response).pc = "answered"
      BY DEF Idle, Answered
    <3> QED
      BY <2>2, <3>1
  <2>4. Received(d)' /\ Verified(d)' /\ Decided(d)'
    BY <1>1, <2>1, <2>2, <2>3 DEF Client, Received, Verified, Decided, A!NoCall
  <2>5. auditing[d] = T!Idle
    BY <1>1, <2>1 DEF Client, Recorded, AuditedCall
  <2>6. Recorded(d)'
    BY <1>1, <2>1, <2>3, <2>5 DEF Client, Recorded, T!Idle
  <2> QED
    BY <2>4, <2>6 DEF Client
<1> QED
  BY <1>2, <1>3, <1>4 DEF Inv

-----------------------------------------------------------------------------
(* A request arrives.                                                      *)
LEMMA NotInFlight ==
  ASSUME Inv, NEW c \in Clients, ~InFlight(c)
  PROVE  verifying[c] = V!Idle /\ authorizing[c] = A!NoCall
BY DEF Inv, Client, Verified, Decided, InFlight

(* What the request is known to have when it arrives.                      *)
LEMMA ReceiveKeepsInv ==
  ASSUME Inv, NEW c \in Clients, NEW hops \in Presented, NEW asked \in AskedRequests,
         receive(c, hops, asked)
  PROVE  Inv'
<1> DEFINE pending == [pc |-> "resolving", hops |-> hops, asked |-> asked,
                       arrived |-> A!Moment, once |-> trusted, always |-> trusted,
                       revokedBefore |-> revokedEver]
           v == [pc |-> "getKey", hops |-> hops, i |-> 1, checkedAt |-> 0, trustedSince |-> trusted]
<1>1. /\ process # Down /\ ~InFlight(c) /\ server' = [server EXCEPT ![c] = pending]
      /\ \/ Len(hops) \in 1 .. maxDelegationDepth /\ verifying' = [verifying EXCEPT ![c] = v]
         \/ Len(hops) \notin 1 .. maxDelegationDepth /\ verifying' = verifying
      /\ UNCHANGED <<now, trusted, verified, running, sink, auditing, built, reported,
                     process, revokedEver, revoked, authorizing>>
  BY DEF receive, V!verifyChain, verifierVars, auditVars
<1>2. /\ server'[c] = pending
      /\ verifying'[c] = IF Len(hops) \in 1 .. maxDelegationDepth THEN v ELSE V!Idle
      /\ authorizing'[c] = A!NoCall /\ auditing'[c] = auditing[c]
      /\ \A d \in Clients \ {c} : Same(d)
  BY <1>1, NotInFlight DEF Inv, PerClient, Same
<1>3. Onward
  BY <1>1 DEF Inv, Shared, Onward, T!Events, OnRecord
<1>4. Shared' /\ PerClient'
  BY <1>1 DEF Inv, Shared, PerClient, IsSequence
<1>5. Received(c)'
  <2>1. A!Moment \in Moments /\ A!Moment.now = now /\ A!Moment.revoked = revoked
    BY DEF Inv, Shared, A!Moment, Moments
  <2>2. pending \in Pendings
    BY <2>1 DEF Pendings, Inv, Shared
  <2> QED
    BY <1>1, <1>2, <2>1, <2>2 DEF Received, Inv, Shared
<1>6. Verified(c)'
  <2>1. Len(hops) \in 1 .. maxDelegationDepth => v # V!Idle /\ VerifyingCall(c)'
    <3>1. v.pc # V!Idle.pc
      BY DEF V!Idle
    <3>2. Len(hops) \in 1 .. maxDelegationDepth =>
            Len(hops) <= maxDelegationDepth /\ 1 \in DOMAIN hops /\ \A j : j \notin 1 .. 1 - 1
      BY PresentedHops, ToolRequestsAssumption
    <3> QED
      BY <1>2, <3>1, <3>2 DEF VerifyingCall
  <2> QED
    BY <1>2, <2>1 DEF Verified, V!Idle
<1>7. Decided(c)'
  BY <1>2 DEF Decided, A!NoCall
<1>8. Recorded(c)'
  <2>1. \A response : pending # Answered(response)
    <3>1. \A response : Answered(response).pc = "answered"
      BY DEF Answered
    <3> QED
      BY <3>1
  <2>2. AuditedCall(c) => AuditedCall(c)'
    BY <1>1, <1>2 DEF AuditedCall, Settled, OnRecord, T!Events
  <2> QED
    BY <1>1, <1>2, <2>1, <2>2 DEF Inv, Client, Recorded, T!Idle
<1> QED
  BY <1>2, <1>3, <1>4, <1>5, <1>6, <1>7, <1>8, ClientStep DEF Client

-----------------------------------------------------------------------------
(* verifyChain() goes on, has verified the hops, or rejects them, which it *)
(* does only for a cause.                                                  *)
Quiet ==
  UNCHANGED <<now, trusted, revoked, authorizing, running, sink, auditing, built, reported,
              process, revokedEver>>

GoesOn(c) ==
  /\ Quiet /\ verified' = verified /\ server' = server
  /\ verifying' = [verifying EXCEPT ![c] = verifying'[c]]
  /\ verifying'[c] # V!Idle /\ VerifyingCall(c)'

Resolves(c) ==
  /\ Quiet /\ verified' = verified \cup {server[c].hops}
  /\ server' = [server EXCEPT ![c] = [@ EXCEPT !.pc = "resolved"]]
  /\ verifying' = [verifying EXCEPT ![c] = V!Idle]
  /\ WellMade(server[c].hops) /\ Vouched(server[c].hops, server[c].once)

Rejects(c) ==
  /\ Quiet /\ verified' = verified
  /\ server' = [server EXCEPT ![c] = NO_CREDENTIAL]
  /\ verifying' = [verifying EXCEPT ![c] = V!Idle]
  /\ ~ /\ WellMade(server[c].hops) /\ Vouched(server[c].hops, server[c].always)
       /\ \A i \in DOMAIN server[c].hops : now < claims(server[c].hops[i]).exp

(* There is no other way for verifyChain() to go on.                       *)
LEMMA ResolveCases ==
  ASSUME Inv, NEW c \in Clients, resolveCredential(c)
  PROVE  GoesOn(c) \/ Resolves(c) \/ Rejects(c)
<1> DEFINE hops == server[c].hops
           v == verifying[c]
<1>1. /\ server[c].pc = "resolving" /\ Quiet
      /\ hops \in Presented /\ server[c].always \subseteq trusted /\ trusted \subseteq server[c].once
  <2>1. server[c].pc = "resolving" /\ Received(c)
    BY DEF resolveCredential, Inv, Client
  <2> QED
    BY <2>1, PendingOf DEF resolveCredential, V!GetKey, V!ImportKey, V!JwtVerify, Quiet,
                         auditVars, verifierVars
<1>2. server' = [server EXCEPT ![c] = IF verifying'[c] # V!Idle THEN @
                                     ELSE IF V!Accepts(c) THEN [@ EXCEPT !.pc = "resolved"]
                                     ELSE NO_CREDENTIAL]
  BY DEF resolveCredential, verifies
<1>3. verifying'[c] # V!Idle => server' = server
  BY <1>2 DEF Inv, PerClient
<1>4. v # V!Idle =>
        /\ VerifyingCall(c) /\ V!Hop(c) = hops[v.i] /\ v.hops = hops
        /\ Len(hops) \in Nat \ {0} /\ DOMAIN hops = 1 .. Len(hops) /\ v.i \in 1 .. Len(hops)
        /\ Len(hops) \in 1 .. maxDelegationDepth
  <2>1. v # V!Idle => VerifyingCall(c)
    BY DEF Inv, Client, Verified
  <2>2. Len(hops) \in Nat /\ DOMAIN hops = 1 .. Len(hops)
    BY <1>1, PresentedHops
  <2>3. VerifyingCall(c) =>
          v.i \in DOMAIN hops /\ Len(hops) <= maxDelegationDepth /\ v.hops = hops
    BY DEF VerifyingCall
  <2> QED
    BY <2>1, <2>2, <2>3, ToolRequestsAssumption DEF V!Hop
<1>5. V!Idle.pc = "idle"
  BY DEF V!Idle
<1>6. CASE V!GetKey(c)
  <2>1. v.pc = "getKey" /\ v # V!Idle /\ verified' = verified /\ ~V!Accepts(c)
    BY <1>5, <1>6 DEF V!GetKey, V!Accepts
  <2>2. v = [pc |-> "getKey", hops |-> hops, i |-> v.i, checkedAt |-> v.checkedAt,
             trustedSince |-> v.trustedSince]
    BY <1>4, <2>1 DEF VerifyingCall
  <2>3. CASE V!signer(hops[v.i]) \in trusted
    <3>1. verifying' = [verifying EXCEPT ![c] = [@ EXCEPT !.pc = "importKey"]]
      BY <1>4, <1>6, <2>1, <2>3 DEF V!GetKey, V!getKey
    <3>2. verifying'[c] = [pc |-> "importKey", hops |-> hops, i |-> v.i, checkedAt |-> v.checkedAt,
                           trustedSince |-> v.trustedSince]
      BY <2>2, <3>1 DEF Inv, PerClient
    <3>3. verifying'[c] # V!Idle /\ server' = server
      BY <1>3, <1>5, <3>2
    <3>4. VerifyingCall(c)'
      BY <1>1, <1>4, <2>1, <2>3, <3>2, <3>3 DEF VerifyingCall
    <3> QED
      BY <1>1, <2>1, <3>1, <3>2, <3>3, <3>4 DEF GoesOn, Inv, PerClient
  <2>4. CASE V!signer(hops[v.i]) \notin trusted
    <3>1. verifying' = [verifying EXCEPT ![c] = V!Idle]
      BY <1>4, <1>6, <2>1, <2>4 DEF V!GetKey, V!getKey
    <3>2. server' = [server EXCEPT ![c] = NO_CREDENTIAL]
      BY <1>2, <2>1, <3>1 DEF Inv, PerClient
    <3>3. ~(WellMade(hops) /\ Vouched(hops, server[c].always))
      BY <1>1, <1>4, <2>1, <2>4, WellMadeIsAccepted
    <3> QED
      BY <1>1, <2>1, <3>1, <3>2, <3>3 DEF Rejects
  <2> QED
    BY <2>3, <2>4
<1>7. CASE V!ImportKey(c)
  <2>1. /\ v.pc = "importKey" /\ v # V!Idle /\ verified' = verified
        /\ verifying' = [verifying EXCEPT ![c].pc = "jwtVerify", ![c].checkedAt = now]
    BY <1>5, <1>7 DEF V!ImportKey
  <2>2. v = [pc |-> "importKey", hops |-> hops, i |-> v.i, checkedAt |-> v.checkedAt,
             trustedSince |-> v.trustedSince]
    BY <1>4, <2>1 DEF VerifyingCall
  <2>3. PICK t : t = [v EXCEPT !.pc = "jwtVerify"]
    OBVIOUS
  <2>4. t = [pc |-> "jwtVerify", hops |-> hops, i |-> v.i, checkedAt |-> v.checkedAt,
             trustedSince |-> v.trustedSince]
    BY <2>2, <2>3
  <2>5. [t EXCEPT !.checkedAt = now]
          = [pc |-> "jwtVerify", hops |-> hops, i |-> v.i, checkedAt |-> now,
             trustedSince |-> v.trustedSince]
    BY <2>4
  <2>6. verifying' = [verifying EXCEPT ![c] = [t EXCEPT !.checkedAt = now]]
    BY <2>1, <2>3 DEF Inv, PerClient
  <2>7. /\ verifying'[c] = [pc |-> "jwtVerify", hops |-> hops, i |-> v.i, checkedAt |-> now,
                            trustedSince |-> v.trustedSince]
        /\ verifying' = [verifying EXCEPT ![c] = verifying'[c]]
    BY <2>5, <2>6 DEF Inv, PerClient
  <2>8. verifying'[c] # V!Idle /\ server' = server
    BY <1>3, <1>5, <2>7
  <2>9. VerifyingCall(c)'
    <3>1. now' = now /\ now \in Nat
      BY <1>1 DEF Quiet, Inv, Shared
    <3>2. /\ v.i \in DOMAIN hops /\ Len(hops) <= maxDelegationDepth
          /\ \A j \in 1 .. v.i - 1 :
               V!assertShapeOfHopClaims(hops[j]) /\ V!signer(hops[j]) \in server[c].once
          /\ V!signer(hops[v.i]) \in server[c].once
      BY <1>4, <2>1 DEF VerifyingCall
    <3>3. PICK w : w = verifying'[c]
      OBVIOUS
    <3>4. /\ w = [pc |-> w.pc, hops |-> hops, i |-> w.i, checkedAt |-> w.checkedAt,
                  trustedSince |-> w.trustedSince]
          /\ w.pc = "jwtVerify" /\ w.i = v.i /\ w.checkedAt = now
      BY <2>7, <3>3
    <3> QED
      BY <2>8, <3>1, <3>2, <3>3, <3>4 DEF VerifyingCall
  <2> QED
    BY <1>1, <2>1, <2>7, <2>8, <2>9 DEF GoesOn
<1>8. CASE V!JwtVerify(c)
  <2>1. /\ v.pc = "jwtVerify" /\ v # V!Idle
        /\ verifying' = [verifying EXCEPT ![c] = IF V!HopOk(c) /\ ~V!LastHop(c) THEN V!nextHop(@)
                                                ELSE V!Idle]
        /\ verified' = IF V!Accepts(c) THEN verified \cup {hops} ELSE verified
    BY <1>4, <1>5, <1>8 DEF V!JwtVerify
  <2>2. /\ v = [pc |-> "jwtVerify", hops |-> hops, i |-> v.i, checkedAt |-> v.checkedAt,
                trustedSince |-> v.trustedSince]
        /\ v.checkedAt \in Nat /\ v.checkedAt <= now /\ now \in Nat
    BY <1>4, <2>1 DEF VerifyingCall, Inv, Shared
  <2>3. /\ V!HopOk(c) <=> v.checkedAt < claims(hops[v.i]).exp /\ V!assertShapeOfHopClaims(hops[v.i])
        /\ V!LastHop(c) <=> v.i = Len(hops)
        /\ V!Accepts(c) <=> V!HopOk(c) /\ v.i = Len(hops) /\ V!WalkAccepts(hops)
    BY <1>4, <2>1 DEF V!HopOk, V!Unexpired, V!claims, claims, V!LastHop, V!Accepts
  <2>4. /\ \A j \in 1 .. v.i - 1 :
             V!assertShapeOfHopClaims(hops[j]) /\ V!signer(hops[j]) \in server[c].once
        /\ V!signer(hops[v.i]) \in server[c].once
    BY <1>4, <2>1 DEF VerifyingCall
  <2>5. V!HopOk(c) => \A j \in 1 .. v.i :
             V!assertShapeOfHopClaims(hops[j]) /\ V!signer(hops[j]) \in server[c].once
    <3>1. \A j \in 1 .. v.i : j \in 1 .. v.i - 1 \/ j = v.i
      BY <1>4, <2>1
    <3> QED
      BY <2>3, <2>4, <3>1
  <2>6. CASE V!HopOk(c) /\ ~V!LastHop(c)
    <3>1. verifying' = [verifying EXCEPT ![c] = V!nextHop(@)] /\ verified' = verified
      BY <2>1, <2>3, <2>6
    <3>2. verifying'[c] = V!nextHop(v)
      BY <3>1 DEF Inv, PerClient
    <3>3. V!nextHop(v) = [pc |-> "getKey", hops |-> hops, i |-> v.i + 1, checkedAt |-> 0,
                          trustedSince |-> v.trustedSince]
      <4>1. PICK t : t = [v EXCEPT !.pc = "getKey"]
        OBVIOUS
      <4>2. t = [pc |-> "getKey", hops |-> hops, i |-> v.i, checkedAt |-> v.checkedAt,
                 trustedSince |-> v.trustedSince]
        BY <2>2, <4>1
      <4>3. PICK u : u = [t EXCEPT !.i = v.i + 1]
        OBVIOUS
      <4>4. u = [pc |-> "getKey", hops |-> hops, i |-> v.i + 1, checkedAt |-> v.checkedAt,
                 trustedSince |-> v.trustedSince]
        BY <4>2, <4>3
      <4>5. [u EXCEPT !.checkedAt = 0]
              = [pc |-> "getKey", hops |-> hops, i |-> v.i + 1, checkedAt |-> 0,
                 trustedSince |-> v.trustedSince]
        BY <4>4
      <4>6. V!nextHop(v) = [u EXCEPT !.checkedAt = 0]
        BY <4>1, <4>3 DEF V!nextHop
      <4> QED
        BY <4>5, <4>6
    <3>4. verifying'[c] # V!Idle /\ server' = server
      <4>1. verifying'[c].pc = "getKey"
        BY <3>2, <3>3
      <4> QED
        BY <1>3, <1>5, <4>1
    <3>5. /\ v.i + 1 \in 1 .. Len(hops) /\ (v.i + 1) - 1 = v.i
          /\ verifying'[c] = [pc |-> "getKey", hops |-> hops, i |-> v.i + 1, checkedAt |-> 0,
                              trustedSince |-> v.trustedSince]
      BY <1>4, <2>1, <2>3, <2>6, <3>2, <3>3
    <3>6. VerifyingCall(c)'
      <4> DEFINE k == v.i + 1
      <4>1. /\ verifying'[c] = [pc |-> "getKey", hops |-> hops, i |-> k, checkedAt |-> 0,
                                trustedSince |-> v.trustedSince]
            /\ k \in DOMAIN hops /\ Len(hops) <= maxDelegationDepth
            /\ \A j \in 1 .. k - 1 :
                 V!assertShapeOfHopClaims(hops[j]) /\ V!signer(hops[j]) \in server[c].once
        BY <1>4, <2>1, <2>5, <2>6, <3>5
      <4> HIDE DEF k
      <4> QED
        BY <3>4, <4>1 DEF VerifyingCall
    <3> QED
      BY <1>1, <3>1, <3>2, <3>4, <3>6 DEF GoesOn
  <2>7. CASE ~(V!HopOk(c) /\ ~V!LastHop(c))
    <3>1. verifying' = [verifying EXCEPT ![c] = V!Idle] /\ verifying'[c] = V!Idle
      BY <2>1, <2>7 DEF Inv, PerClient
    <3>2. CASE V!Accepts(c)
      <4>1. WellMade(hops) /\ Vouched(hops, server[c].once)
        BY <1>1, <1>4, <2>1, <2>3, <2>5, <3>2, AcceptedIsWellMade
      <4>2. server' = [server EXCEPT ![c] = [@ EXCEPT !.pc = "resolved"]]
        BY <1>2, <3>1, <3>2
      <4> QED
        BY <1>1, <2>1, <3>1, <3>2, <4>1, <4>2 DEF Resolves
    <3>3. CASE ~V!Accepts(c)
      <4>1. server' = [server EXCEPT ![c] = NO_CREDENTIAL]
        BY <1>2, <3>1, <3>3
      <4>2. ~ /\ WellMade(hops) /\ Vouched(hops, server[c].always)
              /\ \A i \in DOMAIN hops : now < claims(hops[i]).exp
        <5>1. v.i \in DOMAIN hops /\ claims(hops[v.i]).exp \in Int
          BY <1>1, <1>4, <2>1, PresentedHops
        <5>2. now < claims(hops[v.i]).exp => v.checkedAt < claims(hops[v.i]).exp
          BY <2>2, <5>1
        <5> QED
          BY <1>1, <1>4, <2>1, <2>3, <2>7, <3>3, <5>1, <5>2, WellMadeIsAccepted
      <4> QED
        BY <1>1, <2>1, <3>1, <3>3, <4>1, <4>2 DEF Rejects
    <3> QED
      BY <3>2, <3>3
  <2> QED
    BY <2>6, <2>7
<1>9. CASE verifying[c] = V!Idle /\ UNCHANGED <<now, trusted, verifierVars>>
  <2>1. verified' = verified /\ verifying' = verifying /\ ~V!Accepts(c)
    BY <1>5, <1>9 DEF verifierVars, V!Accepts
  <2>2. verifying' = [verifying EXCEPT ![c] = V!Idle]
    BY <1>9, <2>1 DEF Inv, PerClient
  <2>3. server' = [server EXCEPT ![c] = NO_CREDENTIAL]
    BY <1>2, <1>9, <2>1
  <2>4. Len(hops) \notin 1 .. maxDelegationDepth
    BY <1>1, <1>9 DEF Inv, Client, Verified
  <2>5. ~(WellMade(hops) /\ Vouched(hops, server[c].always))
    BY <1>1, <2>4, WellMadeIsAccepted
  <2> QED
    BY <1>1, <2>1, <2>2, <2>3, <2>5 DEF Rejects
<1> QED
  BY <1>6, <1>7, <1>8, <1>9 DEF resolveCredential

(* A request that is no longer in flight, and in no call any more, needs   *)
(* only its record.                                                        *)
LEMMA AnsweredClient ==
  ASSUME NEW c \in Clients, NEW response \in Responses, server'[c] = Answered(response),
         verifying'[c] = V!Idle, authorizing'[c] = A!NoCall
  PROVE  Received(c)' /\ Verified(c)' /\ Decided(c)'
<1>1. server'[c].pc = "answered"
  BY DEF Answered
<1> QED
  BY <1>1 DEF Received, Verified, Decided, V!Idle, A!NoCall

(* verifyChain() moves on for one request.                                 *)
LEMMA ResolveKeepsInv ==
  ASSUME Inv, NEW c \in Clients, resolveCredential(c)
  PROVE  Inv'
<1>1. server[c].pc = "resolving" /\ Client(c)
  BY DEF resolveCredential, Inv
<1>2. /\ server[c] \in Pendings /\ authorizing[c] = A!NoCall
      /\ process # Down /\ server[c].arrived.now <= now /\ server[c].arrived.revoked \subseteq revoked
      /\ server[c].revokedBefore \subseteq server[c].arrived.revoked
      /\ server[c].always \subseteq trusted /\ trusted \subseteq server[c].once
  BY <1>1, PendingOf DEF Client, Decided
<1>3. ASSUME Quiet, server' = [server EXCEPT ![c] = server'[c]],
             verifying' = [verifying EXCEPT ![c] = verifying'[c]],
             auditing' = auditing, verified \subseteq verified', Client(c)'
      PROVE  Inv'
  <2>1. Onward
    BY <1>3 DEF Quiet, Inv, Shared, Onward, T!Events, OnRecord
  <2>2. Shared'
    BY <1>3 DEF Quiet, Inv, Shared, IsSequence
  <2>3. PerClient'
    BY <1>3 DEF Quiet, Inv, PerClient
  <2>4. \A d \in Clients \ {c} : Same(d)
    BY <1>3 DEF Quiet, Same, Inv, PerClient
  <2> QED
    BY <1>3, <2>1, <2>2, <2>3, <2>4, ClientStep
<1>4. /\ auditing' = auditing
      /\ Quiet => (AuditedCall(c) => AuditedCall(c)')
  BY DEF resolveCredential, auditVars, Quiet, AuditedCall, Settled, OnRecord, T!Events
<1>5. CASE GoesOn(c)
  <2>1. Received(c)' /\ Decided(c)'
    BY <1>1, <1>2, <1>5 DEF GoesOn, Quiet, Client, Received, Decided, A!NoCall
  <2>2. Verified(c)'
    BY <1>1, <1>5 DEF GoesOn, Verified, V!Idle
  <2>3. Recorded(c)'
    BY <1>1, <1>4, <1>5 DEF GoesOn, Quiet, Client, Recorded, T!Idle
  <2> QED
    BY <1>3, <1>4, <1>5, <2>1, <2>2, <2>3 DEF GoesOn, Client, Inv, PerClient
<1>6. CASE Resolves(c)
  <2>1. /\ server'[c] = [server[c] EXCEPT !.pc = "resolved"] /\ verifying'[c] = V!Idle
        /\ server' = [server EXCEPT ![c] = server'[c]]
        /\ verifying' = [verifying EXCEPT ![c] = verifying'[c]]
    BY <1>6 DEF Resolves, Inv, PerClient
  <2>2. /\ server'[c] \in Pendings /\ server'[c].pc = "resolved"
        /\ server'[c].hops = server[c].hops /\ server'[c].asked = server[c].asked
        /\ server'[c].arrived = server[c].arrived /\ server'[c].revokedBefore = server[c].revokedBefore
        /\ server'[c].once = server[c].once /\ server'[c].always = server[c].always
    BY <1>2, <2>1 DEF Pendings
  <2>3. Received(c)'
    BY <1>2, <1>6, <2>2 DEF Resolves, Quiet, Received
  <2>4. Verified(c)' /\ Decided(c)'
    BY <1>2, <1>6, <2>1, <2>2 DEF Resolves, Quiet, Verified, Decided, V!Idle, A!NoCall
  <2>5. \A response : server'[c] # Answered(response)
    BY <2>2 DEF Answered
  <2>6. Recorded(c)'
    BY <1>1, <1>4, <1>6, <2>2, <2>5 DEF Resolves, Client, Recorded, T!Idle
  <2> QED
    BY <1>3, <1>4, <1>6, <2>1, <2>3, <2>4, <2>6 DEF Resolves, Client
<1>7. CASE Rejects(c)
  <2>1. /\ server'[c] = NO_CREDENTIAL /\ verifying'[c] = V!Idle
        /\ server' = [server EXCEPT ![c] = server'[c]]
        /\ verifying' = [verifying EXCEPT ![c] = verifying'[c]]
    BY <1>7 DEF Rejects, Inv, PerClient
  <2>2. authorizing'[c] = A!NoCall
    BY <1>2, <1>7 DEF Rejects, Quiet, A!NoCall
  <2>3. Received(c)' /\ Verified(c)' /\ Decided(c)'
    BY <2>1, <2>2, AnsweredClient DEF NO_CREDENTIAL, Responses
  <2>4. Recorded(c)'
    <3>1. server'[c].pc = "answered" /\ server'[c].response = "no_credential"
      BY <2>1 DEF NO_CREDENTIAL, Answered
    <3>2. \A response : Answered(response).response = response
      BY DEF Answered
    <3> QED
      BY <1>1, <1>4, <1>7, <3>1, <3>2 DEF Rejects, Client, Recorded, T!Idle
  <2> QED
    BY <1>3, <1>4, <1>7, <2>1, <2>3, <2>4 DEF Rejects, Client
<1> QED
  BY <1>5, <1>6, <1>7, ResolveCases

-----------------------------------------------------------------------------
(* authorize() is called, on what verifyChain() has verified.              *)
LEMMA AuditedAuthorizeKeepsInv ==
  ASSUME Inv, NEW c \in Clients, auditedAuthorize(c)
  PROVE  Inv'
<1> DEFINE hops == server[c].hops
           asked == server[c].asked
           a == [pc |-> "isRevoked", hops |-> Credential(hops), request |-> asked, i |-> 1,
                 answer |-> FALSE, decision |-> "none", asked |-> A!Moment, failed |-> FALSE]
           t == [pc |-> "wrapped", type |-> "authorization", emitter |-> process,
                 result |-> "none", outcome |-> "none", id |-> <<>>]
<1>1. /\ server[c].pc = "resolved" /\ Client(c)
      /\ server' = [server EXCEPT ![c].pc = "authorizing"]
      /\ auditing' = [auditing EXCEPT ![c] = t]
      /\ \/ WellFormed(asked) /\ authorizing' = [authorizing EXCEPT ![c] = a]
         \/ ~WellFormed(asked) /\ authorizing' = authorizing
      /\ UNCHANGED <<now, trusted, verified, verifying, running, sink, built, reported,
                     process, revokedEver, revoked>>
  BY SameWellFormed DEF auditedAuthorize, A!authorize, T!audited, verifierVars, Inv
<1>2. /\ server[c] \in Pendings /\ hops \in Presented /\ authorizing[c] = A!NoCall
      /\ process # Down /\ server[c].arrived.now <= now /\ server[c].arrived.revoked \subseteq revoked
      /\ server[c].revokedBefore \subseteq server[c].arrived.revoked
      /\ server[c].always \subseteq trusted /\ trusted \subseteq server[c].once
      /\ verifying[c] = V!Idle
  BY <1>1, PendingOf DEF Client, Verified, Decided
<1>3. /\ server'[c] = [server[c] EXCEPT !.pc = "authorizing"]
      /\ auditing'[c] = t /\ verifying'[c] = V!Idle
      /\ authorizing'[c] = IF WellFormed(asked) THEN a ELSE A!NoCall
      /\ \A d \in Clients \ {c} : Same(d)
  BY <1>1, <1>2 DEF Inv, PerClient, Same
<1>4. /\ server'[c] \in Pendings /\ server'[c].pc = "authorizing"
      /\ server'[c].hops = hops /\ server'[c].asked = asked
      /\ server'[c].arrived = server[c].arrived /\ server'[c].revokedBefore = server[c].revokedBefore
      /\ server'[c].once = server[c].once /\ server'[c].always = server[c].always
  BY <1>2, <1>3 DEF Pendings
<1>5. Onward
  BY <1>1 DEF Inv, Shared, Onward, T!Events, OnRecord
<1>6. Shared' /\ PerClient'
  BY <1>1 DEF Inv, Shared, PerClient, IsSequence
<1>7. Received(c)'
  BY <1>1, <1>2, <1>4 DEF Received
<1>8. Verified(c)'
  BY <1>1, <1>2, <1>3, <1>4 DEF Client, Verified, V!Idle
<1>9. Decided(c)'
  <2>1. WellFormed(asked) => a # A!NoCall /\ DecidingCall(c)'
    <3>1. a.pc # A!NoCall.pc
      BY DEF A!NoCall
    <3>2. 1 \in DOMAIN hops /\ \A j : j \notin 1 .. 1 - 1
      <4>1. hops # <<>> /\ hops \in Seq(DOMAIN Tokens)
        BY <1>1, <1>2, ToolRequestsAssumption DEF Client, Verified, WellMade, WholeLineage
      <4> QED
        BY <4>1
    <3> QED
      BY <1>3, <1>4, <3>1, <3>2 DEF DecidingCall, Knows
  <2> QED
    BY <1>3, <1>4, <2>1 DEF Decided, A!NoCall
<1>10. Recorded(c)'
  <2>1. process \in Processes
    BY <1>2 DEF Inv, Shared
  <2>2. \A response : server'[c] # Answered(response)
    BY <1>4 DEF Answered
  <2>3. auditing'[c] # T!Idle
    <3>1. t.pc # T!Idle.pc
      BY DEF T!Idle
    <3> QED
      BY <1>3, <3>1
  <2> QED
    BY <1>1, <1>2, <1>3, <2>1, <2>2, <2>3 DEF Recorded, AuditedCall, Settled, T!Idle
<1> QED
  BY <1>3, <1>5, <1>6, <1>7, <1>8, <1>9, <1>10, ClientStep DEF Client

-----------------------------------------------------------------------------
(* authorize() goes on: each hop is looked up, and the last one decides.   *)
Asks(c, a) ==
  /\ authorizing' = [authorizing EXCEPT ![c] = a] /\ authorizing[c].pc \in {"isRevoked", "resume"}
  /\ UNCHANGED <<now, trusted, revoked, verified, verifying, running, sink, auditing, built, reported,
                 process, server, revokedEver>>

(* A step of authorize() that knows what it should keeps the invariant.    *)
LEMMA AskingKeepsInv ==
  ASSUME Inv, NEW c \in Clients, NEW a, Asks(c, a), Knows(c, a)
  PROVE  Inv'
<1>1. /\ authorizing' = [authorizing EXCEPT ![c] = a] /\ authorizing[c].pc \in {"isRevoked", "resume"}
      /\ UNCHANGED <<now, trusted, revoked, verified, verifying, running, sink, auditing, built,
                     reported, process, server, revokedEver>>
  BY DEF Asks
<1>2. authorizing'[c] = a /\ \A d \in Clients \ {c} : Same(d)
  BY <1>1 DEF Inv, PerClient, Same
<1>3. Onward
  BY <1>1 DEF Inv, Shared, Onward, T!Events, OnRecord
<1>4. Shared' /\ PerClient'
  BY <1>1 DEF Inv, Shared, PerClient, IsSequence
<1>5. A!NoCall.pc = "idle"
  BY DEF A!NoCall
<1>6. Client(c) /\ authorizing[c] # A!NoCall /\ a # A!NoCall /\ ~A!Returned(c)
  BY <1>1, <1>5 DEF Inv, A!Returned, Knows
<1>7. Received(c)' /\ Verified(c)'
  BY <1>1, <1>3, <1>6, ReceivedKept, VerifiedKept DEF Client, Inv, Shared
<1>8. Decided(c)'
  <2>1. (A!Moment)' = A!Moment
    BY <1>1 DEF A!Moment
  <2>2. DecidingCall(c)'
    BY <1>1, <1>2, <2>1 DEF DecidingCall, Knows
  <2> QED
    BY <1>1, <1>2, <1>6, <2>2 DEF Client, Decided, A!NoCall
<1>9. Recorded(c)'
  <2>1. AuditedCall(c) => AuditedCall(c)'
    BY <1>1 DEF AuditedCall, Settled, OnRecord, T!Events
  <2> QED
    BY <1>1, <1>6, <2>1 DEF Client, Recorded, Settled, T!Idle
<1> QED
  BY <1>2, <1>3, <1>4, <1>7, <1>8, <1>9, ClientStep DEF Client

(* decide() looks at the last hop as Entitled looks at a hop.              *)
LEMMA DecideAllows ==
  ASSUME NEW hop, hop.exp \in Int, now \in Int, NEW request
  PROVE  A!decide(hop, request) = "allow" <=> now < hop.exp /\ ClaimsAllow(hop, request)
<1>1. A!Expired(hop) <=> ~(now < hop.exp)
  BY DEF A!Expired
<1>2. (\E cap \in A!structuralMatches(hop, request) : A!evaluate(cap, request.context))
        => A!structuralMatches(hop, request) # {}
  OBVIOUS
<1>3. A!decide(hop, request) = "allow" <=> now < hop.exp /\ A!ClaimsAllow(hop, request)
  BY <1>1, <1>2 DEF A!decide, A!PolicyAllows, A!ClaimsAllow
<1> QED
  BY <1>3, SameAllowing

(* What authorize() is given of a hop are its claims.                      *)
LEMMA CredentialReads ==
  ASSUME NEW hops \in Presented, NEW i \in DOMAIN hops
  PROVE  /\ DOMAIN Credential(hops) = DOMAIN hops /\ Len(Credential(hops)) = Len(hops)
         /\ Credential(hops)[i].jti = hops[i] /\ Credential(hops)[i].exp = claims(hops[i]).exp
         /\ \A request : ClaimsAllow(Credential(hops)[i], request) = ClaimsAllow(claims(hops[i]), request)
<1>1. /\ DOMAIN Credential(hops) = DOMAIN hops
      /\ Credential(hops)[i] = [jti |-> hops[i], exp |-> claims(hops[i]).exp, aud |-> claims(hops[i]).aud,
                                capabilities |-> claims(hops[i]).capabilities]
  BY DEF Credential
<1>2. Len(Credential(hops)) = Len(hops)
  BY <1>1, PresentedHops
<1>3. /\ Credential(hops)[i].aud = claims(hops[i]).aud
      /\ Credential(hops)[i].capabilities = claims(hops[i]).capabilities
  BY <1>1
<1>4. \A request : ClaimsAllow(Credential(hops)[i], request) = ClaimsAllow(claims(hops[i]), request)
  BY <1>3 DEF ClaimsAllow, structuralMatches
<1> QED
  BY <1>1, <1>2, <1>4

(* What the last step of the loop concludes, from the lookups before it.   *)
LEMMA DecisionIsRight ==
  ASSUME now \in Nat, NEW hops \in Presented, WellMade(hops), NEW asked \in AskedRequests, WellFormed(asked),
         NEW arrived \in Moments, arrived.now <= now,
         \A j \in DOMAIN hops : hops[j] \notin arrived.revoked,
         NEW d, d = A!decide(A!leaf(Credential(hops)), asked)
  PROVE  /\ d = "allow" => Entitled(hops, asked, arrived)
         /\ d # "allow" => ~Entitled(hops, asked, A!Moment)
<1> DEFINE n == Len(hops)
<1>1. /\ n \in DOMAIN hops /\ arrived.now \in Nat /\ asked \in Requests
      /\ \A i \in DOMAIN hops : claims(hops[i]).exp \in Int
  <2>1. hops # <<>> /\ hops \in Seq(DOMAIN Tokens)
    BY ToolRequestsAssumption DEF WellMade, WholeLineage
  <2>2. n \in DOMAIN hops
    BY <2>1
  <2> QED
    BY <2>2, PresentedHops, WellFormedIsRequest DEF Moments
<1> HIDE DEF n
<1>2. /\ A!leaf(Credential(hops)) = Credential(hops)[n]
      /\ Credential(hops)[n].exp = claims(hops[n]).exp
      /\ ClaimsAllow(Credential(hops)[n], asked) = ClaimsAllow(claims(hops[n]), asked)
  BY <1>1, CredentialReads DEF A!leaf, n
<1>3. d = "allow" <=> now < claims(hops[n]).exp /\ ClaimsAllow(claims(hops[n]), asked)
  BY <1>1, <1>2, DecideAllows
<1>4. ASSUME d = "allow", NEW i \in DOMAIN hops
      PROVE  /\ hops[i] \notin arrived.revoked
             /\ arrived.now < claims(hops[i]).exp
             /\ ClaimsAllow(claims(hops[i]), asked)
  <2>1. claims(hops[n]).exp <= claims(hops[i]).exp
    BY LastSpeaksForAll DEF n
  <2>2. ClaimsAllow(claims(hops[n]), asked) => ClaimsAllow(claims(hops[i]), asked)
    BY <1>1, LastSpeaksForAll DEF n
  <2> QED
    BY <1>1, <1>3, <1>4, <2>1, <2>2
<1>5. Entitled(hops, asked, A!Moment) => now < claims(hops[n]).exp /\ ClaimsAllow(claims(hops[n]), asked)
  BY <1>1 DEF Entitled, A!Moment
<1> QED
  BY <1>3, <1>4, <1>5 DEF Entitled

(* The store answers or fails, and the call resumes.                       *)
LEMMA AuthorizeKeepsInv ==
  ASSUME Inv, NEW c \in Clients, authorize(c)
  PROVE  Inv'
<1> DEFINE hops == server[c].hops
           asked == server[c].asked
           arrived == server[c].arrived
           a == authorizing[c]
<1>1. /\ a.pc \in {"isRevoked", "resume"}
      /\ UNCHANGED <<now, trusted, revoked, verified, verifying, running, sink, auditing, built,
                     reported, process, server, revokedEver>>
  BY DEF authorize, A!StoreAnswers, A!StoreFails, A!Resume, verifierVars, auditVars, serverVars
<1>2. /\ Client(c) /\ a # A!NoCall /\ server[c].pc = "authorizing" /\ WellFormed(asked)
      /\ DecidingCall(c) /\ WellMade(hops)
  <2>1. a # A!NoCall
    <3>1. A!NoCall.pc = "idle"
      BY DEF A!NoCall
    <3> QED
      BY <1>1, <3>1
  <2> QED
    BY <2>1 DEF Inv, Client, Decided, Verified
<1>3. /\ hops \in Presented /\ asked \in AskedRequests /\ server[c] \in Pendings
      /\ arrived.now <= now /\ arrived.revoked \subseteq revoked /\ arrived \in Moments
  BY <1>2, PendingOf DEF Client, Pendings
<1>4. /\ a = [pc |-> a.pc, hops |-> Credential(hops), request |-> asked, i |-> a.i,
              answer |-> a.answer, decision |-> a.decision, asked |-> a.asked, failed |-> a.failed]
      /\ a.i \in DOMAIN hops /\ a.answer \in BOOLEAN /\ a.failed \in BOOLEAN
      /\ \A j \in 1 .. a.i - 1 : hops[j] \notin arrived.revoked
  BY <1>2 DEF DecidingCall, Knows
<1>5. /\ DOMAIN hops = 1 .. Len(hops) /\ Len(hops) \in Nat /\ a.i \in 1 .. Len(hops)
      /\ a.hops = Credential(hops) /\ a.request = asked
      /\ Len(a.hops) = Len(hops) /\ a.hops[a.i].jti = hops[a.i]
  BY <1>3, <1>4, CredentialReads, PresentedHops
<1>6. ASSUME NEW b, authorizing'[c] = b, authorizing' = [authorizing EXCEPT ![c] = authorizing'[c]],
             Knows(c, b)
      PROVE  Inv'
  <2>1. Asks(c, b)
    BY <1>1, <1>6 DEF Asks
  <2> QED
    BY <1>6, <2>1, AskingKeepsInv
<1>7. CASE A!StoreAnswers(c)
  <2>1. PICK found \in BOOLEAN : found = (hops[a.i] \in revoked)
    <3>1. CASE hops[a.i] \in revoked
      <4>1. TRUE = (hops[a.i] \in revoked)
        BY <3>1
      <4> QED
        BY <4>1, Zenon
    <3>2. CASE hops[a.i] \notin revoked
      <4>1. FALSE = (hops[a.i] \in revoked)
        BY <3>2
      <4> QED
        BY <4>1, Zenon
    <3> QED
      BY <3>1, <3>2
  <2>2. /\ a.pc = "isRevoked" /\ ~a.failed
        /\ authorizing' = [authorizing EXCEPT ![c].pc = "resume", ![c].answer = found]
    BY <1>2, <1>5, <1>7, <2>1 DEF A!StoreAnswers, A!isRevoked, DecidingCall, Knows
  <2>3. PICK b : b = [pc |-> "resume", hops |-> Credential(hops), request |-> asked, i |-> a.i,
                      answer |-> found, decision |-> a.decision, asked |-> a.asked, failed |-> a.failed]
    OBVIOUS
  <2>4. authorizing'[c] = b /\ authorizing' = [authorizing EXCEPT ![c] = authorizing'[c]]
    <3>1. PICK r : r = [a EXCEPT !.pc = "resume"]
      OBVIOUS
    <3>2. r = [pc |-> "resume", hops |-> Credential(hops), request |-> asked, i |-> a.i,
               answer |-> a.answer, decision |-> a.decision, asked |-> a.asked, failed |-> a.failed]
      BY <1>4, <3>1
    <3>3. [r EXCEPT !.answer = found] = b
      BY <2>3, <3>2
    <3>4. authorizing' = [authorizing EXCEPT ![c] = [r EXCEPT !.answer = found]]
      BY <2>2, <3>1 DEF Inv, PerClient
    <3> QED
      BY <3>3, <3>4 DEF Inv, PerClient
  <2>5. Knows(c, b)
    <3>1. ~found => hops[a.i] \notin arrived.revoked
      BY <1>3, <2>1
    <3> QED
      BY <1>4, <2>1, <2>2, <2>3, <3>1 DEF Knows
  <2> QED
    BY <1>6, <2>4, <2>5
<1>8. CASE A!StoreFails(c)
  <2>1. /\ a.pc = "isRevoked"
        /\ authorizing' = [authorizing EXCEPT ![c].pc = "resume", ![c].answer = TRUE, ![c].failed = TRUE]
    BY <1>8 DEF A!StoreFails, A!whenStoreFails
  <2>2. PICK t : t = TRUE
    OBVIOUS
  <2>3. PICK b : b = [pc |-> "resume", hops |-> Credential(hops), request |-> asked, i |-> a.i,
                      answer |-> t, decision |-> a.decision, asked |-> a.asked, failed |-> t]
    OBVIOUS
  <2>4. authorizing'[c] = b /\ authorizing' = [authorizing EXCEPT ![c] = authorizing'[c]]
    <3>1. PICK r : r = [a EXCEPT !.pc = "resume"]
      OBVIOUS
    <3>2. r = [pc |-> "resume", hops |-> Credential(hops), request |-> asked, i |-> a.i,
               answer |-> a.answer, decision |-> a.decision, asked |-> a.asked, failed |-> a.failed]
      BY <1>4, <3>1
    <3>3. PICK q : q = [r EXCEPT !.answer = t]
      OBVIOUS
    <3>4. q = [pc |-> "resume", hops |-> Credential(hops), request |-> asked, i |-> a.i,
               answer |-> t, decision |-> a.decision, asked |-> a.asked, failed |-> a.failed]
      BY <3>2, <3>3
    <3>5. [q EXCEPT !.failed = t] = b
      BY <2>3, <3>4
    <3>6. authorizing' = [authorizing EXCEPT ![c].pc = "resume", ![c].answer = t, ![c].failed = t]
      BY <2>1, <2>2, Zenon
    <3>7. authorizing' = [authorizing EXCEPT ![c] = [q EXCEPT !.failed = t]]
      BY <3>1, <3>3, <3>6 DEF Inv, PerClient
    <3> QED
      BY <3>5, <3>7 DEF Inv, PerClient
  <2>5. Knows(c, b)
    BY <1>4, <2>2, <2>3 DEF Knows
  <2> QED
    BY <1>6, <2>4, <2>5
<1>9. CASE A!Resume(c)
  <2>1. /\ a.pc = "resume"
        /\ \/ a.answer /\ A!Return(c, "credential_revoked")
           \/ ~a.answer /\ a.i # Len(hops) /\ A!NextHop(c)
           \/ ~a.answer /\ a.i = Len(hops) /\ A!Return(c, A!decide(A!leaf(Credential(hops)), asked))
    BY <1>5, <1>9 DEF A!Resume, A!LastHop
  <2>2. ASSUME NEW d, A!Return(c, d)
        PROVE  \E b : /\ authorizing'[c] = b /\ authorizing' = [authorizing EXCEPT ![c] = authorizing'[c]]
                      /\ b = [pc |-> "returned", hops |-> Credential(hops), request |-> asked, i |-> a.i,
                              answer |-> a.answer, decision |-> d, asked |-> a.asked, failed |-> a.failed]
    <3>1. authorizing' = [authorizing EXCEPT ![c].pc = "returned", ![c].decision = d]
      BY <2>2 DEF A!Return
    <3>2. PICK r : r = [a EXCEPT !.pc = "returned"]
      OBVIOUS
    <3>3. r = [pc |-> "returned", hops |-> Credential(hops), request |-> asked, i |-> a.i,
               answer |-> a.answer, decision |-> a.decision, asked |-> a.asked, failed |-> a.failed]
      BY <1>4, <3>2
    <3>4. PICK b : b = [r EXCEPT !.decision = d]
      OBVIOUS
    <3>5. b = [pc |-> "returned", hops |-> Credential(hops), request |-> asked, i |-> a.i,
               answer |-> a.answer, decision |-> d, asked |-> a.asked, failed |-> a.failed]
      BY <3>3, <3>4
    <3>6. authorizing' = [authorizing EXCEPT ![c] = b]
      BY <3>1, <3>2, <3>4 DEF Inv, PerClient
    <3> QED
      BY <3>5, <3>6 DEF Inv, PerClient
  <2>3. CASE a.answer /\ A!Return(c, "credential_revoked")
    <3>1. PICK b : /\ authorizing'[c] = b /\ authorizing' = [authorizing EXCEPT ![c] = authorizing'[c]]
                   /\ b = [pc |-> "returned", hops |-> Credential(hops), request |-> asked, i |-> a.i,
                           answer |-> a.answer, decision |-> "credential_revoked", asked |-> a.asked,
                           failed |-> a.failed]
      BY <2>2, <2>3
    <3>2. a.failed \/ ~Entitled(hops, asked, A!Moment)
      BY <1>2, <1>4, <2>1, <2>3 DEF DecidingCall, Knows, Entitled, A!Moment
    <3>3. Knows(c, b)
      BY <1>4, <3>1, <3>2 DEF Knows
    <3> QED
      BY <1>6, <3>1, <3>3
  <2>4. CASE ~a.answer /\ a.i # Len(hops) /\ A!NextHop(c)
    <3>1. authorizing' = [authorizing EXCEPT ![c].pc = "isRevoked", ![c].i = @ + 1]
      BY <2>4 DEF A!NextHop
    <3>2. PICK r : r = [a EXCEPT !.pc = "isRevoked"]
      OBVIOUS
    <3>3. r = [pc |-> "isRevoked", hops |-> Credential(hops), request |-> asked, i |-> a.i,
               answer |-> a.answer, decision |-> a.decision, asked |-> a.asked, failed |-> a.failed]
      BY <1>4, <3>2
    <3>4. PICK k : k = a.i + 1
      OBVIOUS
    <3>5. PICK b : b = [r EXCEPT !.i = k]
      OBVIOUS
    <3>6. b = [pc |-> "isRevoked", hops |-> Credential(hops), request |-> asked, i |-> k,
               answer |-> a.answer, decision |-> a.decision, asked |-> a.asked, failed |-> a.failed]
      BY <3>3, <3>5
    <3>7. authorizing' = [authorizing EXCEPT ![c] = b]
      BY <3>1, <3>2, <3>3, <3>4, <3>5 DEF Inv, PerClient
    <3>8. authorizing'[c] = b /\ authorizing' = [authorizing EXCEPT ![c] = authorizing'[c]]
      BY <3>7 DEF Inv, PerClient
    <3>9. /\ ~a.failed /\ hops[a.i] \notin arrived.revoked
          /\ k \in DOMAIN hops /\ \A j \in 1 .. k - 1 : j \in 1 .. a.i - 1 \/ j = a.i
      BY <1>2, <1>5, <2>1, <2>4, <3>4 DEF DecidingCall, Knows
    <3>10. Knows(c, b)
      BY <1>4, <3>6, <3>9 DEF Knows
    <3> QED
      BY <1>6, <3>8, <3>10
  <2>5. CASE ~a.answer /\ a.i = Len(hops) /\ A!Return(c, A!decide(A!leaf(Credential(hops)), asked))
    <3>1. PICK d : d = A!decide(A!leaf(Credential(hops)), asked)
      OBVIOUS
    <3>2. PICK b : /\ authorizing'[c] = b /\ authorizing' = [authorizing EXCEPT ![c] = authorizing'[c]]
                   /\ b = [pc |-> "returned", hops |-> Credential(hops), request |-> asked, i |-> a.i,
                           answer |-> a.answer, decision |-> d, asked |-> a.asked, failed |-> a.failed]
      BY <2>2, <2>5, <3>1
    <3>3. ~a.failed /\ hops[a.i] \notin arrived.revoked
      BY <1>2, <2>1, <2>5 DEF DecidingCall, Knows
    <3>4. \A j \in DOMAIN hops : hops[j] \notin arrived.revoked
      <4>1. \A j \in DOMAIN hops : j \in 1 .. a.i - 1 \/ j = a.i
        BY <1>5, <2>5
      <4> QED
        BY <1>4, <3>3, <4>1
    <3>5. now \in Nat
      BY DEF Inv, Shared
    <3>6. /\ d = "allow" => Entitled(hops, asked, arrived)
          /\ d # "allow" => ~Entitled(hops, asked, A!Moment)
      BY <1>2, <1>3, <3>1, <3>4, <3>5, DecisionIsRight
    <3>7. Knows(c, b)
      BY <1>4, <3>2, <3>3, <3>6 DEF Knows
    <3> QED
      BY <1>6, <3>2, <3>7
  <2> QED
    BY <2>1, <2>3, <2>4, <2>5
<1> QED
  BY <1>7, <1>8, <1>9 DEF authorize

-----------------------------------------------------------------------------
(* The wrapper around authorize() goes on.                                 *)
LEMMA AuditStep ==
  ASSUME Inv, NEW c \in Clients, Onward, Shared', server' = server, verifying' = verifying,
         authorizing' = authorizing, auditing' = [auditing EXCEPT ![c] = auditing'[c]], Recorded(c)'
  PROVE  Inv'
<1>1. \A d \in Clients \ {c} : Same(d)
  BY DEF Same, Inv, PerClient
<1>2. PerClient'
  BY DEF Inv, PerClient
<1>3. Received(c)' /\ Verified(c)' /\ Decided(c)'
  BY ReceivedKept, VerifiedKept, DecidedKept DEF Inv, Client, Shared
<1> QED
  BY <1>1, <1>2, <1>3, ClientStep DEF Client

Outcomes == {"allow", "deny"}

(* A decision becomes an outcome other than an exception.                  *)
LEMMA OutcomeIsOne == \A decision : outcome(decision) \in Outcomes /\ outcome(decision) # "thrown"
BY DEF outcome, Outcomes

(* What a call of the wrapper has become is what it was, moved on.         *)
LEMMA AuditedShape ==
  ASSUME Inv, NEW c \in Clients, auditing[c].pc \in {"wrapped", "observe", "append", "returned"}
  PROVE  /\ AuditedCall(c) /\ auditing[c] # T!Idle
         /\ auditing[c] = [pc |-> auditing[c].pc, type |-> "authorization",
                           emitter |-> auditing[c].emitter, result |-> auditing[c].result,
                           outcome |-> auditing[c].outcome, id |-> auditing[c].id]
<1>1. T!Idle.pc = "idle"
  BY DEF T!Idle
<1>2. auditing[c] # T!Idle
  BY <1>1
<1> QED
  BY <1>2 DEF Inv, Client, Recorded, AuditedCall

(* authorize() has returned or thrown, and the wrapper has its outcome.    *)
LEMMA DecidedKeepsInv ==
  ASSUME Inv, NEW c \in Clients, decided(c)
  PROVE  Inv'
<1> DEFINE t == auditing[c]
<1>1. /\ server[c].pc = "authorizing" /\ Client(c) /\ t.pc = "wrapped"
      /\ UNCHANGED <<now, trusted, revoked, verified, verifying, authorizing, running, sink, built,
                     reported, process, server, received, revokedEver>>
  BY DEF decided, T!WrappedSettles, verifierVars, serverVars, Inv
<1>2. /\ AuditedCall(c) /\ t.emitter = process
      /\ t = [pc |-> t.pc, type |-> "authorization", emitter |-> t.emitter, result |-> t.result,
              outcome |-> t.outcome, id |-> t.id]
  BY <1>1, AuditedShape DEF Client, Recorded
<1>3. Onward
  BY <1>1 DEF Inv, Shared, Onward, T!Events, OnRecord
<1>4. Shared'
  BY <1>1 DEF Inv, Shared, IsSequence
<1>5. \A response : server'[c] # Answered(response)
  BY <1>1 DEF Answered
<1>6. T!Idle.pc = "idle" /\ A!NoCall.pc = "idle"
  BY DEF T!Idle, A!NoCall
<1>7. CASE A!Returned(c) /\ T!WrappedSettles(c, outcome(authorizing[c].decision))
  <2>1. PICK result : result = outcome(authorizing[c].decision) /\ result # "thrown"
    BY OutcomeIsOne
  <2>2. auditing' = [auditing EXCEPT ![c] = [@ EXCEPT !.pc = "observe", !.result = result]]
    BY <1>7, <2>1 DEF T!WrappedSettles
  <2>3. PICK r : r = [t EXCEPT !.pc = "observe"]
    OBVIOUS
  <2>4. r = [pc |-> "observe", type |-> "authorization", emitter |-> t.emitter, result |-> t.result,
             outcome |-> t.outcome, id |-> t.id]
    BY <1>2, <2>3
  <2>5. PICK u : u = [r EXCEPT !.result = result]
    OBVIOUS
  <2>6. u = [pc |-> "observe", type |-> "authorization", emitter |-> t.emitter, result |-> result,
             outcome |-> t.outcome, id |-> t.id]
    BY <2>4, <2>5
  <2>7. auditing' = [auditing EXCEPT ![c] = u]
    BY <2>2, <2>3, <2>5 DEF Inv, PerClient
  <2>8. auditing'[c] = u /\ auditing' = [auditing EXCEPT ![c] = auditing'[c]]
    BY <2>7 DEF Inv, PerClient
  <2>9. AuditedCall(c)'
    BY <1>1, <1>2, <2>6, <2>8 DEF AuditedCall, Settled
  <2>10. authorizing[c] # A!NoCall /\ u # T!Idle
    BY <1>6, <1>7, <2>6 DEF A!Returned
  <2>11. Recorded(c)'
    BY <1>1, <1>2, <1>5, <1>7, <2>1, <2>6, <2>8, <2>9, <2>10
       DEF Recorded, Settled, A!Returned, T!Idle, A!NoCall
  <2> QED
    BY <1>1, <1>3, <1>4, <2>8, <2>11, AuditStep
<1>8. CASE ~WellFormed(server[c].asked) /\ T!WrappedSettles(c, "thrown")
  <2>1. auditing' = [auditing EXCEPT ![c] = [T!Return(c, "thrown") EXCEPT !.result = "thrown"]]
    BY <1>8 DEF T!WrappedSettles
  <2>2. PICK q : q = [t EXCEPT !.pc = "returned"]
    OBVIOUS
  <2>3. q = [pc |-> "returned", type |-> "authorization", emitter |-> t.emitter, result |-> t.result,
             outcome |-> t.outcome, id |-> t.id]
    BY <1>2, <2>2
  <2>4. PICK r : r = [q EXCEPT !.outcome = "thrown"]
    OBVIOUS
  <2>5. r = [pc |-> "returned", type |-> "authorization", emitter |-> t.emitter, result |-> t.result,
             outcome |-> "thrown", id |-> t.id]
    BY <2>3, <2>4
  <2>6. r = T!Return(c, "thrown")
    BY <2>2, <2>4 DEF T!Return
  <2>7. PICK u : u = [r EXCEPT !.result = "thrown"]
    OBVIOUS
  <2>8. u = [pc |-> "returned", type |-> "authorization", emitter |-> t.emitter, result |-> "thrown",
             outcome |-> "thrown", id |-> t.id]
    BY <2>5, <2>7
  <2>9. auditing' = [auditing EXCEPT ![c] = u]
    BY <2>1, <2>6, <2>7
  <2>10. auditing'[c] = u /\ auditing' = [auditing EXCEPT ![c] = auditing'[c]]
    BY <2>9 DEF Inv, PerClient
  <2>11. AuditedCall(c)'
    BY <1>1, <1>2, <2>8, <2>10 DEF AuditedCall, Settled
  <2>12. Recorded(c)'
    BY <1>1, <1>2, <1>5, <1>6, <1>8, <2>8, <2>10, <2>11 DEF Recorded, Settled, T!Idle
  <2> QED
    BY <1>1, <1>3, <1>4, <2>10, <2>12, AuditStep
<1> QED
  BY <1>7, <1>8 DEF decided

(* The sink has settled, and the wrapper returns.                          *)
LEMMA AppendSettlesKeepsInv ==
  ASSUME Inv, NEW c \in Clients, record(c), T!AppendSettles(c)
  PROVE  Inv'
<1> DEFINE t == auditing[c]
<1>1. /\ Client(c) /\ t.pc = "append" /\ auditing' = [auditing EXCEPT ![c] = T!Return(c, t.result)]
      /\ UNCHANGED <<now, trusted, revoked, verified, verifying, authorizing, running, sink, built,
                     reported, process, server, received, revokedEver>>
  BY DEF record, T!AppendSettles, verifierVars, serverVars, Inv
<1>2. /\ AuditedCall(c) /\ t # T!Idle
      /\ t = [pc |-> t.pc, type |-> "authorization", emitter |-> t.emitter, result |-> t.result,
              outcome |-> t.outcome, id |-> t.id]
  BY <1>1, AuditedShape
<1>3. Onward
  BY <1>1 DEF Inv, Shared, Onward, T!Events, OnRecord
<1>4. Shared'
  BY <1>1 DEF Inv, Shared, IsSequence
<1>5. PICK q : q = [t EXCEPT !.pc = "returned"]
  OBVIOUS
<1>6. q = [pc |-> "returned", type |-> "authorization", emitter |-> t.emitter, result |-> t.result,
           outcome |-> t.outcome, id |-> t.id]
  BY <1>2, <1>5
<1>7. PICK u : u = [q EXCEPT !.outcome = t.result]
  OBVIOUS
<1>8. u = [pc |-> "returned", type |-> "authorization", emitter |-> t.emitter, result |-> t.result,
           outcome |-> t.result, id |-> t.id]
  BY <1>6, <1>7
<1>9. auditing' = [auditing EXCEPT ![c] = u]
  BY <1>1, <1>5, <1>7 DEF T!Return
<1>10. auditing'[c] = u /\ auditing' = [auditing EXCEPT ![c] = auditing'[c]]
  BY <1>9 DEF Inv, PerClient
<1>11. AuditedCall(c)'
  BY <1>1, <1>2, <1>8, <1>10 DEF AuditedCall, Settled, OnRecord, T!Events
<1>12. Recorded(c)'
  <2>1. u # T!Idle /\ u.emitter = t.emitter /\ u.result = t.result /\ u.outcome = t.result
    BY <1>8 DEF T!Idle
  <2>2. server[c].pc = "authorizing" =>
          /\ t.emitter = process /\ authorizing[c] # A!NoCall /\ A!Returned(c)
          /\ t.result = outcome(authorizing[c].decision) /\ t.result # "thrown"
    BY <1>1, OutcomeIsOne DEF Client, Recorded
  <2>3. \A pair \in {<<"ran", "allow">>, <<"denied", "deny">>} : server[c] # Answered(pair[1])
    BY <1>1 DEF Client, Recorded
  <2> QED
    BY <1>1, <1>10, <1>11, <2>1, <2>2, <2>3 DEF Recorded, Settled, A!Returned, T!Idle, A!NoCall
<1> QED
  BY <1>1, <1>3, <1>4, <1>10, <1>12, AuditStep

(* An event is built, and stored or reported, in the step that emits it.   *)
LEMMA ObserveKeepsInv ==
  ASSUME Inv, NEW c \in Clients, NEW stored \in BOOLEAN, record(c), T!Observe(c, stored)
  PROVE  Inv'
<1> DEFINE t == auditing[c]
<1>1. /\ Client(c) /\ t.pc = "observe"
      /\ UNCHANGED <<now, trusted, revoked, verified, verifying, authorizing, running,
                     process, server, received, revokedEver>>
  BY DEF record, T!Observe, T!emit, verifierVars, serverVars, Inv
<1>2. /\ AuditedCall(c) /\ t # T!Idle /\ t.emitter \in Processes
      /\ t = [pc |-> t.pc, type |-> "authorization", emitter |-> t.emitter, result |-> t.result,
              outcome |-> t.outcome, id |-> t.id]
  BY <1>1, AuditedShape DEF AuditedCall, Inv, Shared
<1>3. PICK e \in Processes : e = t.emitter
  BY <1>2
<1>4. PICK event : event = T!newEvent(e, t)
  OBVIOUS
<1>5. event.id = <<e, Len(built[e]) + 1>> /\ event.content = <<"authorization", t.result>>
  BY <1>2, <1>4 DEF T!newEvent
<1>6. /\ built' = [built EXCEPT ![e] = Append(@, event)]
      /\ auditing' = [auditing EXCEPT ![c] = [[t EXCEPT !.id = event.id] EXCEPT !.pc = "append"]]
      /\ sink' = IF stored THEN Append(sink, event) ELSE sink
      /\ reported' = IF stored THEN reported ELSE reported \cup {event.id}
  <2>1. T!throwers(e) = {}
    BY DEF T!throwers
  <2>2. T!emit(c, stored)
    BY DEF T!Observe
  <2> QED
    BY <1>3, <1>4, <2>1, <2>2 DEF T!emit, T!onSinkError
<1>7. /\ IsSequence(sink) /\ IsSequence(built[e]) /\ built = [p \in Processes |-> built[p]]
  BY DEF Inv, Shared
<1>8. /\ IsSequence(Append(built[e], event)) /\ ToSet(Append(built[e], event)) = ToSet(built[e]) \cup {event}
      /\ IsSequence(Append(sink, event)) /\ ToSet(Append(sink, event)) = ToSet(sink) \cup {event}
  BY <1>7, Appended
<1>9. built'[e] = Append(built[e], event) /\ \A p \in Processes \ {e} : built'[p] = built[p]
  BY <1>6, <1>7
<1>10. T!Events \subseteq T!Events' /\ event \in T!Events'
  <2>1. \A p \in Processes : ToSet(built[p]) \subseteq ToSet(built[p])'
    <3> SUFFICES ASSUME NEW p \in Processes
                 PROVE  ToSet(built[p]) \subseteq ToSet(built'[p])
      OBVIOUS
    <3> QED
      BY <1>8, <1>9
  <2>2. event \in ToSet(built'[e])
    BY <1>8, <1>9
  <2>3. /\ \A x : x \in T!Events <=> \E p \in Processes : x \in ToSet(built[p])
        /\ \A x : x \in T!Events' <=> \E p \in Processes : x \in ToSet(built'[p])
    BY DEF T!Events, T!ToSet, ToSet
  <2> QED
    BY <2>1, <2>2, <2>3
<1>11. ToSet(sink') = (IF stored THEN ToSet(sink) \cup {event} ELSE ToSet(sink)) /\ IsSequence(sink')
  BY <1>6, <1>7, <1>8
<1>12. OnRecord(event)' /\ \A x : OnRecord(x) => OnRecord(x)'
  BY <1>6, <1>11 DEF OnRecord
<1>13. Onward
  BY <1>1, <1>10, <1>12 DEF Inv, Shared, Onward
<1>14. Shared'
  <2>1. \A p \in Processes : IsSequence(built'[p])
    BY <1>8, <1>9 DEF Inv, Shared
  <2>2. built' = [p \in Processes |-> built'[p]]
    BY <1>6, <1>7
  <2> QED
    BY <1>1, <1>11, <2>1, <2>2 DEF Inv, Shared, IsSequence
<1>15. PICK q : q = [t EXCEPT !.id = event.id]
  OBVIOUS
<1>16. q = [pc |-> t.pc, type |-> "authorization", emitter |-> t.emitter, result |-> t.result,
            outcome |-> t.outcome, id |-> event.id]
  BY <1>2, <1>15
<1>17. PICK u : u = [q EXCEPT !.pc = "append"]
  OBVIOUS
<1>18. u = [pc |-> "append", type |-> "authorization", emitter |-> t.emitter, result |-> t.result,
            outcome |-> t.outcome, id |-> event.id]
  BY <1>16, <1>17
<1>19. auditing'[c] = u /\ auditing' = [auditing EXCEPT ![c] = auditing'[c]]
  <2>1. auditing' = [auditing EXCEPT ![c] = u]
    BY <1>6, <1>15, <1>17
  <2> QED
    BY <2>1 DEF Inv, PerClient
<1>20. AuditedCall(c)'
  <2>1. event.id[1] = t.emitter /\ event.content[2] = t.result
    BY <1>3, <1>5
  <2>2. \E x \in T!Events' : /\ x.id = event.id /\ x.id[1] = t.emitter
                             /\ x.content[2] = t.result /\ OnRecord(x)'
    BY <1>10, <1>12, <2>1
  <2> QED
    BY <1>1, <1>2, <1>18, <1>19, <2>2 DEF AuditedCall, Settled
<1>21. Recorded(c)'
  <2>1. u # T!Idle
    BY <1>18 DEF T!Idle
  <2>2. server[c].pc = "authorizing" =>
          /\ t.emitter = process /\ authorizing[c] # A!NoCall /\ A!Returned(c)
          /\ t.result = outcome(authorizing[c].decision)
    BY <1>1 DEF Client, Recorded
  <2>3. \A pair \in {<<"ran", "allow">>, <<"denied", "deny">>} : server[c] # Answered(pair[1])
    BY <1>1 DEF Client, Recorded
  <2> QED
    BY <1>1, <1>18, <1>19, <1>20, <2>1, <2>2, <2>3
       DEF Recorded, Settled, A!Returned, T!Idle, A!NoCall
<1> QED
  BY <1>1, <1>13, <1>14, <1>19, <1>21, AuditStep

-----------------------------------------------------------------------------
(* The request is answered with what has been decided and recorded.        *)
LEMMA AnswerKeepsInv ==
  ASSUME Inv, NEW c \in Clients, answer(c)
  PROVE  Inv'
<1>1. /\ server[c].pc = "authorizing" /\ auditing[c].pc = "returned" /\ Client(c)
      /\ authorizing' = [authorizing EXCEPT ![c] = A!NoCall]
      /\ UNCHANGED <<now, trusted, revoked, verified, verifying, running, sink, auditing, built,
                     reported, process, received, revokedEver>>
  BY DEF answer, verifierVars, auditVars, Inv
<1>2. PICK pair \in {<<"thrown", "thrown">>, <<"denied", "deny">>, <<"ran", "allow">>} :
        auditing[c].outcome = pair[2] /\ server' = [server EXCEPT ![c] = Answered(pair[1])]
  BY DEF answer
<1>3. /\ server'[c] = Answered(pair[1]) /\ authorizing'[c] = A!NoCall /\ verifying'[c] = V!Idle
      /\ pair[1] \in Responses
      /\ \A d \in Clients \ {c} : Same(d)
  BY <1>1, <1>2 DEF Inv, PerClient, Same, Client, Verified, Responses
<1>4. Onward
  BY <1>1 DEF Inv, Shared, Onward, T!Events, OnRecord
<1>5. Shared' /\ PerClient'
  BY <1>1, <1>2 DEF Inv, Shared, PerClient, IsSequence
<1>6. Received(c)' /\ Verified(c)' /\ Decided(c)'
  BY <1>3, AnsweredClient
<1>7. Recorded(c)'
  <2>1. AuditedCall(c) => AuditedCall(c)'
    BY <1>1 DEF AuditedCall, Settled, OnRecord, T!Events
  <2>2. server'[c].pc = "answered" /\ \A response : server'[c] = Answered(response) => response = pair[1]
    <3>1. \A response : Answered(response).pc = "answered" /\ Answered(response).response = response
      BY DEF Answered
    <3> QED
      BY <1>3, <3>1
  <2>3. \A other \in {<<"ran", "allow">>, <<"denied", "deny">>} :
          server'[c] = Answered(other[1]) => auditing[c].outcome = other[2]
    BY <1>2, <2>2
  <2>4. auditing[c] # T!Idle /\ auditing[c].emitter = process
    BY <1>1 DEF Client, Recorded
  <2> QED
    BY <1>1, <2>1, <2>2, <2>3, <2>4 DEF Client, Recorded, T!Idle
<1> QED
  BY <1>3, <1>4, <1>5, <1>6, <1>7, ClientStep DEF Client

-----------------------------------------------------------------------------
(* Whether the event is being built or appended.                           *)
LEMMA RecordKeepsInv ==
  ASSUME Inv, NEW c \in Clients, record(c)
  PROVE  Inv'
BY AppendSettlesKeepsInv, ObserveKeepsInv DEF record

(* Nothing happens.                                                        *)
LEMMA StutterKeepsInv ==
  ASSUME Inv, UNCHANGED vars
  PROVE  Inv'
<1>1. UNCHANGED <<now, trusted, revoked, verified, verifying, authorizing, running, sink, auditing,
                  built, reported, process, server, received, revokedEver>>
  BY DEF vars, verifierVars, auditVars, serverVars
<1>2. Onward
  BY <1>1 DEF Inv, Shared, Onward, T!Events, OnRecord
<1>3. Shared'
  BY <1>1 DEF Inv, Shared, IsSequence
<1> QED
  BY <1>1, <1>2, <1>3, WorldStep

(* The invariant holds: what a request and the calls on its behalf have    *)
(* established so far stays true while the rest of the world goes on.      *)
THEOREM InvHolds == Spec => []Inv
<1>1. Inv /\ [Next]_vars => Inv'
  <2> SUFFICES ASSUME Inv, [Next]_vars
               PROVE  Inv'
    OBVIOUS
  <2>1. CASE UNCHANGED vars
    BY <2>1, StutterKeepsInv
  <2>2. CASE Tick
    BY <2>2, TickKeepsInv
  <2>3. CASE Crash
    BY <2>3, CrashKeepsInv
  <2>4. CASE Restart
    BY <2>4, RestartKeepsInv
  <2>5. ASSUME NEW pair \in Rotated, RotateKeys(pair[1], pair[2])
        PROVE  Inv'
    BY <2>5, RotateKeysKeepsInv
  <2>6. ASSUME NEW token \in DOMAIN Tokens, Revoke(token)
        PROVE  Inv'
    BY <2>6, RevokeKeepsInv
  <2>7. ASSUME NEW c \in Clients, NEW hops \in Presented, NEW asked \in AskedRequests,
               receive(c, hops, asked)
        PROVE  Inv'
    BY <2>7, ReceiveKeepsInv
  <2>8. ASSUME NEW c \in Clients, withAttent(c)
        PROVE  Inv'
    BY <2>8, ResolveKeepsInv, AuditedAuthorizeKeepsInv, AuthorizeKeepsInv, DecidedKeepsInv,
       RecordKeepsInv, AnswerKeepsInv DEF withAttent
  <2> QED
    BY <2>1, <2>2, <2>3, <2>4, <2>5, <2>6, <2>7, <2>8 DEF Next
<1> QED
  BY <1>1, InitHolds, PTL DEF Spec

(* The server's state is typed, and only what verifyChain() has verified   *)
(* is authorized: withAttent.ts hands authorize() nothing else.            *)
THEOREM TypeIsCorrect == Spec => []TypeOK
<1>1. Inv => TypeOK
  <2> SUFFICES ASSUME Inv
               PROVE  TypeOK
    OBVIOUS
  <2>1. ASSUME NEW c \in Clients
        PROVE  /\ verifying[c] # V!Idle =>
                    server[c].pc = "resolving" /\ verifying[c].hops = server[c].hops
               /\ authorizing[c] # A!NoCall =>
                    /\ server[c].pc = "authorizing" /\ server[c].hops \in verified
                    /\ authorizing[c].hops = Credential(server[c].hops)
                    /\ authorizing[c].hops \in Credentials
                    /\ authorizing[c].request = server[c].asked
               /\ server[c].pc = "authorizing" => auditing[c].emitter = process
    <3>1. Client(c)
      BY DEF Inv
    <3>2. verifying[c] # V!Idle => server[c].pc = "resolving" /\ verifying[c].hops = server[c].hops
      BY <3>1 DEF Client, Verified, VerifyingCall
    <3>3. ASSUME authorizing[c] # A!NoCall
          PROVE  /\ server[c].pc = "authorizing" /\ server[c].hops \in verified
                 /\ authorizing[c].hops = Credential(server[c].hops)
                 /\ authorizing[c].hops \in Credentials
                 /\ authorizing[c].request = server[c].asked
      <4>1. server[c].pc = "authorizing" /\ DecidingCall(c)
        BY <3>1, <3>3 DEF Client, Decided
      <4>2. server[c].hops \in verified /\ WellMade(server[c].hops) /\ server[c].hops \in Presented
        BY <3>1, <4>1, PendingOf DEF Client, Verified
      <4>3. authorizing[c].hops = Credential(server[c].hops) /\ authorizing[c].request = server[c].asked
        BY <4>1 DEF DecidingCall, Knows
      <4> QED
        BY <4>1, <4>2, <4>3 DEF Credentials
    <3> QED
      BY <3>1, <3>2, <3>3 DEF Client, Recorded
  <2> QED
    BY <2>1 DEF TypeOK, Inv, Shared
<1> QED
  BY <1>1, InvHolds, PTL

(* No request is answered off the record: withAttent.ts answers after      *)
(* auditedAuthorize() has stored the event or reported that it could not.  *)
THEOREM AnswersAreRecorded == Spec => []AnswersAreOnRecord
<1>1. Inv => AnswersAreOnRecord
  <2> SUFFICES ASSUME Inv, NEW c \in Clients,
                      NEW pair \in {<<"ran", "allow">>, <<"denied", "deny">>},
                      server[c] = Answered(pair[1])
               PROVE  \E event \in T!Events :
                        /\ event.id = auditing[c].id /\ event.id[1] = process
                        /\ event.content[2] = IF server[c] = Answered("ran") THEN "allow" ELSE "deny"
                        /\ event \in ToSet(sink) \/ event.id \in reported
    BY DEF AnswersAreOnRecord
  <2>1. /\ AuditedCall(c) /\ auditing[c].pc = "returned" /\ auditing[c].emitter = process
        /\ auditing[c].outcome = pair[2]
    BY DEF Inv, Client, Recorded
  <2>2. Settled(c) /\ auditing[c].result = pair[2]
    BY <2>1 DEF AuditedCall, Settled
  <2>3. PICK event \in T!Events : /\ event.id = auditing[c].id /\ event.id[1] = process
                                  /\ event.content[2] = pair[2] /\ OnRecord(event)
    BY <2>1, <2>2 DEF AuditedCall
  <2>4. pair[2] = IF server[c] = Answered("ran") THEN "allow" ELSE "deny"
    <3>1. \A response : Answered(response).response = response
      BY DEF Answered
    <3> QED
      BY <3>1
  <2> QED
    BY <2>3, <2>4 DEF OnRecord
<1> QED
  BY <1>1, InvHolds, PTL

-----------------------------------------------------------------------------
(* An answer is right by the decision, and the decision by the request.    *)
Failed(c) == authorizing[c] # A!NoCall /\ authorizing[c].failed

Justified(c) ==
  /\ server[c] \in Pendings /\ ~Failed(c)
  /\ WellMade(server[c].hops) /\ Vouched(server[c].hops, server[c].once)
  /\ WellFormed(server[c].asked)
  /\ Entitled(server[c].hops, server[c].asked, server[c].arrived)
  /\ server[c].revokedBefore \subseteq server[c].arrived.revoked

Unjustified(c) ==
  ~ /\ WellFormed(server[c].asked) /\ ~Failed(c)
    /\ Entitled(server[c].hops, server[c].asked, A!Moment)

(* An answer is the one that the decision, and so the request, calls for.  *)
LEMMA AnswerIsRight ==
  ASSUME Inv, NEW c \in Clients, answer(c)
  PROVE  \/ server' = [server EXCEPT ![c] = Answered("ran")] /\ Justified(c)
         \/ \E response \in {"denied", "thrown"} :
              server' = [server EXCEPT ![c] = Answered(response)] /\ Unjustified(c)
<1>1. server[c].pc = "authorizing" /\ auditing[c].pc = "returned" /\ Client(c)
  BY DEF answer, Inv
<1>2. AuditedCall(c) /\ auditing[c].outcome = auditing[c].result
  BY <1>1, AuditedShape DEF AuditedCall
<1>3. ASSUME auditing[c].outcome # "thrown"
      PROVE  /\ authorizing[c] # A!NoCall /\ authorizing[c].pc = "returned" /\ Knows(c, authorizing[c])
             /\ WellFormed(server[c].asked)
             /\ auditing[c].outcome = outcome(authorizing[c].decision)
  <2>1. authorizing[c] # A!NoCall /\ A!Returned(c) /\ auditing[c].result = outcome(authorizing[c].decision)
    BY <1>1, <1>3 DEF Client, Recorded, Settled
  <2> QED
    BY <1>1, <1>2, <2>1 DEF Client, Decided, DecidingCall, A!Returned
<1>4. CASE auditing[c].outcome = "allow" /\ server' = [server EXCEPT ![c] = Answered("ran")]
  <2>1. authorizing[c].decision = "allow"
    BY <1>3, <1>4 DEF outcome
  <2>2. ~authorizing[c].failed /\ Entitled(server[c].hops, server[c].asked, server[c].arrived)
    BY <1>3, <1>4, <2>1 DEF Knows
  <2> QED
    BY <1>1, <1>3, <1>4, <2>2, PendingOf DEF Client, Verified, Justified, Failed
<1>5. CASE auditing[c].outcome = "deny" /\ server' = [server EXCEPT ![c] = Answered("denied")]
  <2>1. authorizing[c].decision # "allow"
    BY <1>3, <1>5 DEF outcome
  <2>2. authorizing[c].failed \/ ~Entitled(server[c].hops, server[c].asked, A!Moment)
    BY <1>3, <1>5, <2>1 DEF Knows
  <2> QED
    BY <1>3, <1>5, <2>2 DEF Unjustified, Failed
<1>6. CASE auditing[c].outcome = "thrown" /\ server' = [server EXCEPT ![c] = Answered("thrown")]
  BY <1>1, <1>6 DEF Client, Recorded, Unjustified
<1> QED
  BY <1>4, <1>5, <1>6 DEF answer

(* The hops that are presented contain all that the last one descends from.*)
LEMMA LineageHoldsAncestors ==
  ASSUME NEW hops \in Presented, WholeLineage(hops)
  PROVE  ancestors(hops[Len(hops)]) \subseteq {hops[i] : i \in DOMAIN hops}
<1> DEFINE S == {hops[i] : i \in DOMAIN hops}
<1>1. Len(hops) \in DOMAIN hops /\ DOMAIN hops = 1 .. Len(hops) /\ Len(hops) \in Nat
  <2>1. hops # <<>> /\ hops \in Seq(DOMAIN Tokens)
    BY ToolRequestsAssumption DEF WholeLineage
  <2> QED
    BY <2>1
<1>2. S \in SUBSET DOMAIN Tokens /\ hops[Len(hops)] \in S
  BY <1>1, PresentedHops
<1>3. ASSUME NEW s \in S
      PROVE  claims(s).parentHopHash \in S \cup {NoParent}
  <2>1. PICK i \in DOMAIN hops : s = hops[i]
    OBVIOUS
  <2>2. i # 1 => i - 1 \in DOMAIN hops
    BY <1>1
  <2> QED
    BY <2>1, <2>2 DEF WholeLineage
<1> HIDE DEF S
<1>4. ancestors(hops[Len(hops)]) \subseteq S
  BY <1>2, <1>3 DEF ancestors
<1> QED
  BY <1>4 DEF S

(* Who can change a request that is being authorized.                      *)
LEMMA OnlyAnswersRun ==
  ASSUME Inv, [Next]_vars, NEW c \in Clients, runs(c)
  PROVE  answer(c)
<1>1. /\ server[c].pc = "authorizing" /\ server'[c] = Answered("ran") /\ server'[c].pc = "answered"
      /\ server[c] \in Pendings
  <2>1. server[c].pc = "authorizing" /\ server'[c] = Answered("ran")
    BY DEF runs
  <2> QED
    BY <2>1, PendingOf DEF Inv, Client, Answered
<1>2. server' # server
  BY <1>1
<1>3. ~(UNCHANGED vars) /\ ~Tick /\ ~Restart /\ \A token \in DOMAIN Tokens : ~Revoke(token)
  BY <1>2 DEF vars, serverVars, Tick, Restart, Revoke
<1>4. ~Crash
  BY <1>1 DEF Crash, Idle
<1>5. ASSUME NEW pair \in Rotated, RotateKeys(pair[1], pair[2])
      PROVE  FALSE
  <2>1. server'[c] = Noted(server[c], trusted')
    BY <1>1, <1>5, SeenNotes DEF RotateKeys
  <2> QED
    BY <1>1, <2>1 DEF Noted
<1>6. ASSUME NEW d \in Clients, NEW r, server' = [server EXCEPT ![d] = r], r.pc # "answered" \/ d # c
      PROVE  FALSE
  BY <1>1, <1>6 DEF Inv, PerClient
<1>7. ASSUME NEW d \in Clients, NEW hops \in Presented, NEW asked \in AskedRequests,
             receive(d, hops, asked)
      PROVE  FALSE
  BY <1>6, <1>7 DEF receive
<1>8. ASSUME NEW d \in Clients, withAttent(d)
      PROVE  answer(c)
  <2>1. CASE resolveCredential(d)
    <3>1. c # d
      BY <1>1, <2>1 DEF resolveCredential
    <3> QED
      BY <1>2, <1>6, <2>1, <3>1, ResolveCases DEF GoesOn, Resolves, Rejects
  <2>2. CASE auditedAuthorize(d)
    <3>1. c # d
      BY <1>1, <2>2 DEF auditedAuthorize
    <3> QED
      BY <1>6, <2>2, <3>1 DEF auditedAuthorize
  <2>3. CASE authorize(d) \/ decided(d) \/ record(d)
    BY <1>2, <2>3 DEF authorize, decided, record, serverVars
  <2>4. CASE answer(d)
    <3>1. CASE d # c
      BY <1>6, <2>4, <3>1 DEF answer
    <3> QED
      BY <2>4, <3>1
  <2> QED
    BY <1>8, <2>1, <2>2, <2>3, <2>4 DEF withAttent
<1> QED
  BY <1>3, <1>4, <1>5, <1>7, <1>8 DEF Next

(* Revocation reaches all that was delegated, whatever a request presents  *)
(* before its last hop: verifyChain() lets no ancestor be left out, and    *)
(* authorize() looks each of them up.  Over a database that holds of all   *)
(* that was ever revoked, restarts or not; with stores in memory only of   *)
(* what was revoked since the server last started, which is all that       *)
(* revokedBefore then remembers.                                           *)
THEOREM RevocationReachesDescendants == Spec => RevocationCascades
<1>1. ASSUME Inv, [Next]_vars, NEW c \in Clients, runs(c)
      PROVE  ancestors(server[c].hops[Len(server[c].hops)]) \cap server[c].revokedBefore = {}
  <2> DEFINE hops == server[c].hops
  <2>1. answer(c) /\ server'[c] = Answered("ran")
    BY <1>1, OnlyAnswersRun DEF runs
  <2>2. Justified(c)
    <3>1. \A response \in {"denied", "thrown"} : server' # [server EXCEPT ![c] = Answered(response)]
      <4>1. \A response : Answered(response).response = response
        BY DEF Answered
      <4>2. server'[c] # Answered("denied") /\ server'[c] # Answered("thrown")
        BY <2>1, <4>1
      <4> QED
        BY <1>1, <4>2 DEF Inv, PerClient
    <3> QED
      BY <1>1, <2>1, <3>1, AnswerIsRight
  <2>3. /\ hops \in Presented /\ WholeLineage(hops)
        /\ server[c].revokedBefore \subseteq server[c].arrived.revoked
        /\ \A i \in DOMAIN hops : hops[i] \notin server[c].arrived.revoked
    BY <2>2 DEF Justified, Pendings, WellMade, Entitled
  <2>4. ancestors(hops[Len(hops)]) \subseteq {hops[i] : i \in DOMAIN hops}
    BY <2>3, LineageHoldsAncestors
  <2> HIDE DEF hops
  <2>5. ancestors(hops[Len(hops)]) \cap server[c].revokedBefore = {}
    BY <2>3, <2>4
  <2> QED
    BY <2>5 DEF hops
<1>2. Inv /\ [Next]_vars =>
        [\A c \in Clients : runs(c) =>
           LET hops == server[c].hops
           IN  ancestors(hops[Len(hops)]) \cap server[c].revokedBefore = {}]_vars
  BY <1>1
<1> QED
  BY <1>2, InvHolds, PTL DEF Spec, RevocationCascades

-----------------------------------------------------------------------------
(* The abstract specification reads a request as the server does.          *)
LEMMA SameGuards ==
  ASSUME NEW hops, NEW keys, NEW request, NEW moment
  PROVE  /\ Guarded!WholeLineage(hops) <=> WholeLineage(hops)
         /\ Guarded!Vouched(hops, keys) <=> Vouched(hops, keys)
         /\ Guarded!WellMade(hops) <=> WellMade(hops)
         /\ Guarded!WellFormed(request) <=> WellFormed(request)
         /\ Guarded!Entitled(hops, request, moment) <=> Entitled(hops, request, moment)
<1>1. ASSUME NEW token
      PROVE  Guarded!claims(token) = claims(token)
  BY DEF Guarded!claims, claims
<1>2. ASSUME NEW p, NEW q
      PROVE  Guarded!patternIsSubsetOf(p, q) = patternIsSubsetOf(p, q)
  BY DEF Guarded!patternIsSubsetOf, patternIsSubsetOf, Guarded!parsePatternSegments,
         parsePatternSegments, Guarded!isPatternSegment, isPatternSegment
<1>3. ASSUME NEW p, NEW q
      PROVE  Guarded!constraintsCoverRequest(p, q) = constraintsCoverRequest(p, q)
  BY DEF Guarded!constraintsCoverRequest, constraintsCoverRequest, Guarded!RestatesKey, RestatesKey,
         Guarded!isFiniteNumber, isFiniteNumber
<1>4. ASSUME NEW p, NEW q
      PROVE  Guarded!capabilityCoversRequest(p, q) = capabilityCoversRequest(p, q)
  BY <1>2, <1>3 DEF Guarded!capabilityCoversRequest, capabilityCoversRequest
<1>5. ASSUME NEW parent, NEW child
      PROVE  Guarded!Covers(parent, child) = Covers(parent, child)
  BY <1>2, <1>4 DEF Guarded!Covers, Covers, Guarded!intersectCapabilities, intersectCapabilities,
                    Guarded!intersectAudience, intersectAudience
<1>6. ASSUME NEW pattern, NEW concrete
      PROVE  Guarded!matchPattern(pattern, concrete) = matchPattern(pattern, concrete)
  BY DEF Guarded!matchPattern, matchPattern, Guarded!parsePatternSegments, parsePatternSegments,
         Guarded!isPatternSegment, isPatternSegment
<1>7. ASSUME NEW cap, NEW context
      PROVE  Guarded!evaluate(cap, context) = evaluate(cap, context)
  BY DEF Guarded!evaluate, evaluate, Guarded!MeetsKey, MeetsKey, Guarded!isFiniteNumber, isFiniteNumber
<1>8. ASSUME NEW hop
      PROVE  Guarded!ClaimsAllow(hop, request) = ClaimsAllow(hop, request)
  BY <1>6, <1>7
     DEF Guarded!ClaimsAllow, ClaimsAllow, Guarded!matchAnyPattern, matchAnyPattern,
         Guarded!structuralMatches, structuralMatches
<1>9. Guarded!WholeLineage(hops) <=> WholeLineage(hops)
  BY <1>1 DEF Guarded!WholeLineage, WholeLineage, Guarded!NoParent, NoParent
<1>10. Guarded!Vouched(hops, keys) <=> Vouched(hops, keys)
  BY <1>1 DEF Guarded!Vouched, Vouched, Guarded!Holder, Holder
<1>11. Guarded!WellMade(hops) <=> WellMade(hops)
  BY <1>1, <1>5, <1>9 DEF Guarded!WellMade, WellMade
<1>12. Guarded!WellFormed(request) <=> WellFormed(request)
  BY DEF Guarded!WellFormed, WellFormed, Guarded!assertConcrete, assertConcrete,
         Guarded!isConcreteSegment, isConcreteSegment
<1>13. Guarded!Entitled(hops, request, moment) <=> Entitled(hops, request, moment)
  BY <1>1, <1>8 DEF Guarded!Entitled, Entitled
<1> QED
  BY <1>9, <1>10, <1>11, <1>12, <1>13

(* A request, as the abstract specification sees it.                       *)
Pending(s, failed) ==
  [state |-> "pending", hops |-> s.hops, asked |-> s.asked, arrived |-> s.arrived,
   once |-> s.once, always |-> s.always, failed |-> failed]

(* A request in flight is a pending one.                                   *)
LEMMA AbstractOf ==
  ASSUME NEW c \in Clients
  PROVE  /\ abstractRequests[c] = abstractRequest(c)
         /\ InFlight(c) => abstractRequest(c) = Pending(server[c], Failed(c))
         /\ Guarded!InFlight(c) <=> InFlight(c)
<1>1. abstractRequests[c] = abstractRequest(c)
  BY DEF abstractRequests
<1>2. InFlight(c) => abstractRequest(c) = Pending(server[c], Failed(c))
  BY DEF abstractRequest, Pending, Failed
<1>3. InFlight(c) => abstractRequest(c).state = "pending"
  BY <1>2 DEF Pending
<1>4. ~InFlight(c) => abstractRequest(c).state # "pending"
  BY DEF abstractRequest
<1> QED
  BY <1>1, <1>2, <1>3, <1>4 DEF Guarded!InFlight

(* What a step leaves to a client, it leaves to its abstract request.      *)
LEMMA AbstractKept ==
  ASSUME NEW d \in Clients, server'[d] = server[d], authorizing'[d] = authorizing[d]
  PROVE  abstractRequest(d)' = abstractRequest(d)
<1>1. (A!NoCall)' = A!NoCall
  BY DEF A!NoCall
<1> QED
  BY <1>1 DEF abstractRequest, InFlight, Answered

(* A step of one client changes one abstract request at most.              *)
LEMMA OneRequest ==
  ASSUME NEW c \in Clients, NEW r, abstractRequest(c)' = r,
         \A d \in Clients \ {c} : server'[d] = server[d] /\ authorizing'[d] = authorizing[d]
  PROVE  abstractRequests' = [abstractRequests EXCEPT ![c] = r]
<1>1. \A d \in Clients \ {c} : abstractRequest(d)' = abstractRequest(d)
  BY AbstractKept
<1> QED
  BY <1>1 DEF abstractRequests

(* And one that changes none leaves them as they are.                      *)
LEMMA NoRequest ==
  ASSUME \A d \in Clients : abstractRequest(d)' = abstractRequest(d)
  PROVE  abstractRequests' = abstractRequests
BY DEF abstractRequests

-----------------------------------------------------------------------------
(* The steps of the world around the clients are the abstract ones.        *)
LEMMA TickIsGuarded ==
  ASSUME Tick
  PROVE  Guarded!Tick
<1>1. abstractRequests' = abstractRequests
  BY AbstractKept, NoRequest DEF Tick, A!Tick, serverVars
<1>2. (process # Down)' = (process # Down)
  BY DEF Tick, serverVars
<1> QED
  BY <1>1, <1>2 DEF Tick, A!Tick, Guarded!Tick

(* A revocation is one.                                                    *)
LEMMA RevokeIsGuarded ==
  ASSUME NEW token \in DOMAIN Tokens, Revoke(token)
  PROVE  Guarded!Revoke(token)
<1>1. abstractRequests' = abstractRequests
  BY AbstractKept, NoRequest DEF Revoke, A!revoke
<1>2. /\ revoked' = revoked \cup {token} /\ now' = now /\ trusted' = trusted
      /\ (process # Down \/ Durable) /\ process' = process
  BY DEF Revoke, A!revoke
<1> QED
  BY <1>1, <1>2 DEF Guarded!Revoke

(* A crash forgets the requests and the keys.                              *)
LEMMA CrashIsGuarded ==
  ASSUME Crash
  PROVE  Guarded!Stop
<1>1. /\ process # Down /\ process' = Down
      /\ trusted' = {} /\ server' = [c \in Clients |-> Idle] /\ UNCHANGED <<now, revoked>>
  BY DEF Crash
<1>2. ASSUME NEW d \in Clients
      PROVE  abstractRequest(d)' = Guarded!NoRequest
  <2>1. server'[d].pc = "idle" /\ server'[d] # Answered("ran")
    BY <1>1 DEF Idle, Answered
  <2> QED
    BY <2>1 DEF abstractRequest, InFlight, Guarded!NoRequest
<1>3. (process # Down)' = FALSE
  BY <1>1
<1> QED
  BY <1>1, <1>2, <1>3 DEF Guarded!Stop, abstractRequests

(* Keys that come and go are noted by the requests in flight.              *)
LEMMA RotateKeysIsGuarded ==
  ASSUME Inv, NEW pair \in Rotated, RotateKeys(pair[1], pair[2])
  PROVE  \E keys \in SUBSET KeyPairs : Guarded!Trust(keys)
<1>1. /\ trusted' \subseteq KeyPairs /\ Seen(trusted')
      /\ process # Down /\ UNCHANGED <<now, revoked, authorizing, process>>
  <2>1. pair = <<pair[1], pair[2]>> /\ pair \in KeyPairs
    BY ToolServerAssumption, ToolRequestsAssumption
  <2>2. trusted \subseteq KeyPairs
    BY DEF Inv, Shared
  <2> QED
    BY <2>1, <2>2 DEF RotateKeys, V!addKey, V!removeKey
<1>2. PICK keys \in SUBSET KeyPairs : keys = trusted'
  BY <1>1
<1>3. ASSUME NEW d \in Clients, ~InFlight(d)
      PROVE  abstractRequest(d)' = abstractRequest(d)
  BY <1>1, <1>3, SeenNotes, AbstractKept
<1>4. ASSUME NEW d \in Clients, InFlight(d)
      PROVE  abstractRequest(d)' = [abstractRequest(d) EXCEPT !.once = @ \cup keys, !.always = @ \cap keys]
  <2>1. server[d] \in Pendings /\ server'[d] = Noted(server[d], keys)
    BY <1>1, <1>2, <1>4, PendingOf, SeenNotes DEF Inv, Client, InFlight
  <2>2. PICK failed : failed = Failed(d)
    OBVIOUS
  <2>3. Failed(d)' = Failed(d)
    BY <1>1 DEF Failed, A!NoCall
  <2>4. abstractRequest(d) = Pending(server[d], failed)
    BY <1>4, <2>2, AbstractOf
  <2>5. InFlight(d)'
    BY <1>4, <2>1 DEF InFlight, Noted
  <2>6. abstractRequest(d)' = Pending(server'[d], failed)
    BY <2>2, <2>3, <2>5 DEF abstractRequest, Pending, Failed
  <2>7. PICK s : s = server[d]
    OBVIOUS
  <2>8. Pending(Noted(s, keys), failed)
          = [Pending(s, failed) EXCEPT !.once = @ \cup keys, !.always = @ \cap keys]
    <3>1. PICK t : t = [Pending(s, failed) EXCEPT !.once = @ \cup keys]
      OBVIOUS
    <3>2. t = [state |-> "pending", hops |-> s.hops, asked |-> s.asked, arrived |-> s.arrived,
               once |-> s.once \cup keys, always |-> s.always, failed |-> failed]
      BY <3>1 DEF Pending
    <3>3. [t EXCEPT !.always = s.always \cap keys] = Pending(Noted(s, keys), failed)
      BY <3>2 DEF Pending, Noted
    <3>4. [Pending(s, failed) EXCEPT !.once = @ \cup keys].always = s.always
      BY DEF Pending
    <3> QED
      BY <3>1, <3>3, <3>4
  <2> QED
    BY <2>1, <2>4, <2>6, <2>7, <2>8
<1>5. Guarded!Trust(keys)
  <2>1. trusted' = keys /\ process # Down /\ UNCHANGED <<now, revoked, process>>
    BY <1>1, <1>2
  <2>2. \A d \in Clients : abstractRequest(d)' =
          IF Guarded!InFlight(d)
          THEN [abstractRequests[d] EXCEPT !.once = @ \cup keys, !.always = @ \cap keys]
          ELSE abstractRequests[d]
    BY <1>3, <1>4, AbstractOf
  <2> QED
    BY <2>1, <2>2 DEF Guarded!Trust, abstractRequests
<1> QED
  BY <1>5

(* A process that starts trusts the keys of its file, and has the          *)
(* revocations of a database or none.                                      *)
LEMMA RestartIsGuarded ==
  ASSUME Inv, Restart
  PROVE  Guarded!Start
<1>1. /\ process = Down /\ trusted' = keysFile /\ revoked' = (IF Durable THEN revoked ELSE {})
      /\ UNCHANGED <<now, authorizing, server>>
  BY DEF Restart, opened
<1>2. process' # Down
  BY ToolServerAssumption DEF Restart, Inv, Shared
<1>3. (process # Down)' = TRUE
  BY <1>2
<1>4. abstractRequests' = abstractRequests
  BY <1>1, AbstractKept, NoRequest
<1> QED
  BY <1>1, <1>3, <1>4 DEF Guarded!Start

-----------------------------------------------------------------------------
(* A request that arrives, arrives.                                        *)
LEMMA ReceiveIsGuarded ==
  ASSUME Inv, NEW c \in Clients, NEW hops \in Presented, NEW asked \in AskedRequests,
         receive(c, hops, asked)
  PROVE  Guarded!Arrive(c, hops, asked)
<1> DEFINE pending == [pc |-> "resolving", hops |-> hops, asked |-> asked,
                       arrived |-> A!Moment, once |-> trusted, always |-> trusted,
                       revokedBefore |-> revokedEver]
<1>1. /\ ~InFlight(c) /\ server' = [server EXCEPT ![c] = pending]
      /\ process # Down /\ UNCHANGED <<now, trusted, revoked, authorizing, process>>
  BY DEF receive, V!verifyChain, verifierVars
<1>2. /\ server'[c] = pending /\ authorizing'[c] = A!NoCall
      /\ \A d \in Clients \ {c} : server'[d] = server[d] /\ authorizing'[d] = authorizing[d]
  BY <1>1, NotInFlight DEF Inv, PerClient
<1>3. PICK failed : failed = FALSE
  OBVIOUS
<1>4. failed = Failed(c)'
  <2>1. FALSE = Failed(c)'
    BY <1>2 DEF Failed, A!NoCall
  <2> QED
    BY <1>3, <2>1, Zenon
<1>5. InFlight(c)'
  BY <1>2 DEF InFlight
<1>6. abstractRequest(c)' = Pending(server'[c], failed)
  BY <1>4, <1>5 DEF abstractRequest, Pending, Failed
<1>7. abstractRequest(c)' = [state |-> "pending", hops |-> hops, asked |-> asked, failed |-> failed,
                             arrived |-> [now |-> now, revoked |-> revoked],
                             once |-> trusted, always |-> trusted]
  BY <1>2, <1>6 DEF Pending, A!Moment
<1>8. abstractRequest(c)' = [state |-> "pending", hops |-> hops, asked |-> asked, failed |-> FALSE,
                             arrived |-> [now |-> now, revoked |-> revoked],
                             once |-> trusted, always |-> trusted]
  BY <1>3, <1>7, Zenon
<1>9. ~Guarded!InFlight(c)
  BY <1>1, AbstractOf
<1> QED
  BY <1>1, <1>2, <1>8, <1>9, OneRequest DEF Guarded!Arrive

(* A request that is answered has run the tool or has been refused.        *)
Answers(c, response) ==
  /\ InFlight(c) /\ server' = [server EXCEPT ![c] = Answered(response)]
  /\ \A d \in Clients \ {c} : authorizing'[d] = authorizing[d]
  /\ UNCHANGED <<now, trusted, revoked, process>>

(* The state of a request after its answer.                                *)
LEMMA AnsweredIs ==
  ASSUME Inv, NEW c \in Clients, NEW response \in Responses, Answers(c, response)
  PROVE  abstractRequests' =
           [abstractRequests EXCEPT ![c] = [state |-> IF response = "ran" THEN "ran" ELSE "refused"]]
<1>1. /\ server'[c] = Answered(response)
      /\ \A d \in Clients \ {c} : server'[d] = server[d] /\ authorizing'[d] = authorizing[d]
  BY DEF Answers, Inv, PerClient
<1>2. /\ server'[c].pc = "answered"
      /\ server'[c] = Answered("ran") <=> response = "ran"
  BY <1>1 DEF Answered
<1>3. ~InFlight(c)'
  BY <1>2 DEF InFlight
<1>4. abstractRequest(c)' = [state |-> IF response = "ran" THEN "ran" ELSE "refused"]
  BY <1>2, <1>3 DEF abstractRequest, Answered
<1> QED
  BY <1>1, <1>4, OneRequest

(* What the abstract request carries is what the request carries.          *)
LEMMA AbstractFields ==
  ASSUME NEW c \in Clients, InFlight(c)
  PROVE  /\ Guarded!InFlight(c)
         /\ abstractRequests[c].hops = server[c].hops /\ abstractRequests[c].asked = server[c].asked
         /\ abstractRequests[c].arrived = server[c].arrived
         /\ abstractRequests[c].once = server[c].once /\ abstractRequests[c].always = server[c].always
         /\ abstractRequests[c].failed <=> Failed(c)
<1>1. PICK failed : failed = Failed(c)
  OBVIOUS
<1>2. abstractRequests[c] = Pending(server[c], failed)
  BY <1>1, AbstractOf
<1> QED
  BY <1>1, <1>2, AbstractOf DEF Pending

(* A refusal needs a cause.                                                *)
LEMMA RefusalIsGuarded ==
  ASSUME Inv, NEW c \in Clients, NEW response \in Responses \ {"ran"}, Answers(c, response),
         ~ /\ WellMade(server[c].hops) /\ Vouched(server[c].hops, server[c].always)
           /\ WellFormed(server[c].asked) /\ ~Failed(c)
           /\ Entitled(server[c].hops, server[c].asked, A!Moment)
  PROVE  Guarded!Refuse(c)
<1>1. abstractRequests' = [abstractRequests EXCEPT ![c] = [state |-> "refused"]]
  BY AnsweredIs
<1>2. UNCHANGED <<now, trusted, revoked, process>> /\ Guarded!InFlight(c)
  BY AbstractFields DEF Answers
<1>3. ~ /\ Guarded!WellMade(abstractRequests[c].hops)
        /\ Guarded!Vouched(abstractRequests[c].hops, abstractRequests[c].always)
        /\ Guarded!WellFormed(abstractRequests[c].asked)
        /\ Guarded!Entitled(abstractRequests[c].hops, abstractRequests[c].asked,
                            [now |-> now, revoked |-> revoked])
        /\ ~abstractRequests[c].failed
  BY AbstractFields, SameGuards DEF Answers, A!Moment
<1> QED
  BY <1>1, <1>2, <1>3 DEF Guarded!Refuse

(* A run needs the entitlement.                                            *)
LEMMA RunIsGuarded ==
  ASSUME Inv, NEW c \in Clients, Answers(c, "ran"), Justified(c)
  PROVE  Guarded!Run(c)
<1>1. abstractRequests' = [abstractRequests EXCEPT ![c] = [state |-> "ran"]]
  BY AnsweredIs DEF Responses
<1>2. UNCHANGED <<now, trusted, revoked, process>> /\ Guarded!InFlight(c)
  BY AbstractFields DEF Answers
<1>3. /\ Guarded!WholeLineage(abstractRequests[c].hops)
      /\ Guarded!Vouched(abstractRequests[c].hops, abstractRequests[c].once)
      /\ Guarded!WellFormed(abstractRequests[c].asked)
      /\ Guarded!Entitled(abstractRequests[c].hops, abstractRequests[c].asked,
                          abstractRequests[c].arrived)
      /\ ~abstractRequests[c].failed
  BY AbstractFields, SameGuards DEF Answers, Justified, WellMade
<1> QED
  BY <1>1, <1>2, <1>3 DEF Guarded!Run

-----------------------------------------------------------------------------
(* What goes on inside a request does not show, until it is answered.      *)
Unseen == UNCHANGED <<now, trusted, revoked, abstractRequests, process>>

(* A step that changes no more than the stage of a request is unseen.      *)
LEMMA UnseenIf ==
  ASSUME Inv, UNCHANGED <<now, trusted, revoked, process>>, NEW c \in Clients,
         Failed(c)' <=> Failed(c),
         InFlight(c), server'[c] = [server[c] EXCEPT !.pc = server'[c].pc], InFlight(c)',
         \A d \in Clients \ {c} : server'[d] = server[d] /\ authorizing'[d] = authorizing[d]
  PROVE  Unseen
<1>1. PICK failed : failed = Failed(c)
  OBVIOUS
<1>2. failed = Failed(c)'
  <2>1. Failed(c)' = Failed(c)
    BY DEF Failed
  <2> QED
    BY <1>1, <2>1, Zenon
<1>3. abstractRequest(c) = Pending(server[c], failed)
  BY <1>1, AbstractOf
<1>4. abstractRequest(c)' = Pending(server'[c], failed)
  BY <1>2 DEF abstractRequest, Pending, Failed
<1>5. server[c] \in Pendings
  BY PendingOf DEF Inv, Client, InFlight
<1>6. Pending(server'[c], failed) = Pending(server[c], failed)
  BY <1>5 DEF Pendings, Pending
<1>7. abstractRequest(c)' = abstractRequest(c)
  BY <1>3, <1>4, <1>6
<1>8. \A d \in Clients : abstractRequest(d)' = abstractRequest(d)
  BY <1>7, AbstractKept
<1> QED
  BY <1>8, NoRequest DEF Unseen

(* verifyChain() shows when it throws.                                     *)
LEMMA ResolveIsGuarded ==
  ASSUME Inv, NEW c \in Clients, resolveCredential(c)
  PROVE  Unseen \/ Guarded!Refuse(c)
<1>1. /\ server[c].pc = "resolving" /\ InFlight(c) /\ server[c] \in Pendings
      /\ authorizing[c] = A!NoCall /\ server[c].arrived.now <= now
  BY PendingOf DEF resolveCredential, InFlight, Inv, Client, Decided
<1>2. CASE GoesOn(c)
  BY <1>2, AbstractKept, NoRequest DEF GoesOn, Quiet, Unseen
<1>3. CASE Resolves(c)
  <2>1. /\ server'[c] = [server[c] EXCEPT !.pc = "resolved"]
        /\ \A d \in Clients \ {c} : server'[d] = server[d] /\ authorizing'[d] = authorizing[d]
        /\ UNCHANGED <<now, trusted, revoked, process, authorizing>>
    BY <1>3 DEF Resolves, Quiet, Inv, PerClient
  <2>2. server'[c].pc = "resolved" /\ InFlight(c)'
    BY <1>1, <2>1 DEF Pendings, InFlight
  <2>3. Failed(c)' <=> Failed(c)
    BY <2>1 DEF Failed, A!NoCall
  <2> QED
    BY <1>1, <2>1, <2>2, <2>3, UnseenIf
<1>4. CASE Rejects(c)
  <2>1. Answers(c, "no_credential")
    BY <1>1, <1>4 DEF Rejects, Quiet, Answers, NO_CREDENTIAL
  <2>2. Entitled(server[c].hops, server[c].asked, A!Moment) =>
          \A i \in DOMAIN server[c].hops : now < claims(server[c].hops[i]).exp
    BY DEF Entitled, A!Moment
  <2> QED
    BY <1>4, <2>1, <2>2, RefusalIsGuarded DEF Rejects, Responses
<1> QED
  BY <1>2, <1>3, <1>4, ResolveCases

(* The call of authorize() does not show.                                  *)
LEMMA AuditedAuthorizeIsUnseen ==
  ASSUME Inv, NEW c \in Clients, auditedAuthorize(c)
  PROVE  Unseen
<1>1. /\ server[c].pc = "resolved" /\ server' = [server EXCEPT ![c].pc = "authorizing"]
      /\ UNCHANGED <<now, trusted, revoked, process>>
  BY DEF auditedAuthorize, A!authorize
<1>2. InFlight(c) /\ server[c] \in Pendings /\ authorizing[c] = A!NoCall
  BY <1>1, PendingOf DEF InFlight, Inv, Client, Decided
<1>3. /\ server'[c] = [server[c] EXCEPT !.pc = "authorizing"]
      /\ \A d \in Clients \ {c} : server'[d] = server[d]
  BY <1>1 DEF Inv, PerClient
<1>4. server'[c].pc = "authorizing" /\ InFlight(c)'
  BY <1>2, <1>3 DEF Pendings, InFlight
<1>5. /\ authorizing'[c] = A!NoCall \/ authorizing'[c].failed = FALSE
      /\ \A d \in Clients \ {c} : authorizing'[d] = authorizing[d]
  BY <1>2 DEF auditedAuthorize, A!authorize, Inv, PerClient
<1>6. Failed(c)' <=> Failed(c)
  BY <1>2, <1>5 DEF Failed, A!NoCall
<1> QED
  BY <1>1, <1>2, <1>3, <1>4, <1>5, <1>6, UnseenIf

(* authorize() shows when the store could not be reached.                  *)
LEMMA AuthorizeIsGuarded ==
  ASSUME Inv, NEW c \in Clients, authorize(c)
  PROVE  Unseen \/ Guarded!StoreFails(c)
<1> DEFINE a == authorizing[c]
<1>1. /\ a.pc \in {"isRevoked", "resume"} /\ UNCHANGED <<now, trusted, revoked, process, server>>
  BY DEF authorize, A!StoreAnswers, A!StoreFails, A!Resume, serverVars
<1>2. A!NoCall.pc = "idle"
  BY DEF A!NoCall
<1>3. /\ a # A!NoCall /\ server[c].pc = "authorizing" /\ InFlight(c)
      /\ a = [pc |-> a.pc, hops |-> a.hops, request |-> a.request, i |-> a.i, answer |-> a.answer,
              decision |-> a.decision, asked |-> a.asked, failed |-> a.failed]
      /\ a.failed \in BOOLEAN /\ server[c] \in Pendings
  <2>1. a # A!NoCall
    BY <1>1, <1>2
  <2>2. server[c].pc = "authorizing" /\ DecidingCall(c)
    BY <2>1 DEF Inv, Client, Decided
  <2>3. InFlight(c) /\ server[c] \in Pendings
    BY <2>2, PendingOf DEF InFlight, Inv, Client
  <2> QED
    BY <2>1, <2>2, <2>3 DEF DecidingCall, Knows
<1>4. \A d \in Clients \ {c} : server'[d] = server[d] /\ authorizing'[d] = authorizing[d]
  BY <1>1 DEF authorize, A!StoreAnswers, A!StoreFails, A!Resume, A!Return, A!NextHop, Inv, PerClient
<1>5. ASSUME authorizing'[c].pc # "idle", authorizing'[c].failed = a.failed
      PROVE  Unseen
  <2>1. Failed(c)' <=> Failed(c)
    BY <1>2, <1>3, <1>5 DEF Failed, A!NoCall
  <2>2. server'[c] = [server[c] EXCEPT !.pc = server'[c].pc] /\ InFlight(c)'
    BY <1>1, <1>3 DEF Pendings, InFlight
  <2> QED
    BY <1>1, <1>3, <1>4, <2>1, <2>2, UnseenIf
<1>6. CASE A!StoreAnswers(c)
  <2>1. PICK found : authorizing' = [authorizing EXCEPT ![c].pc = "resume", ![c].answer = found]
    BY <1>6 DEF A!StoreAnswers
  <2>2. authorizing'[c].pc = "resume" /\ authorizing'[c].failed = a.failed
    BY <1>3, <2>1 DEF Inv, PerClient
  <2> QED
    BY <1>5, <2>2
<1>7. CASE A!Resume(c)
  <2>1. authorizing'[c].pc # "idle" /\ authorizing'[c].failed = a.failed
    BY <1>3, <1>7 DEF A!Resume, A!Return, A!NextHop, Inv, PerClient
  <2> QED
    BY <1>5, <2>1
<1>8. CASE A!StoreFails(c)
  <2>1. authorizing' = [authorizing EXCEPT ![c].pc = "resume", ![c].answer = TRUE, ![c].failed = TRUE]
    BY <1>8 DEF A!StoreFails, A!whenStoreFails
  <2>2. authorizing'[c].pc = "resume" /\ authorizing'[c].failed
    BY <1>3, <2>1 DEF Inv, PerClient
  <2>3. PICK t : t = TRUE
    OBVIOUS
  <2>4. TRUE = Failed(c)'
    BY <1>2, <2>2 DEF Failed, A!NoCall
  <2>5. t = Failed(c)'
    BY <2>3, <2>4, Zenon
  <2>6. InFlight(c)'
    BY <1>1, <1>3 DEF InFlight
  <2>7. abstractRequest(c)' = Pending(server[c], t)
    BY <1>1, <2>5, <2>6 DEF abstractRequest, Pending, Failed
  <2>8. PICK failed : failed = Failed(c)
    OBVIOUS
  <2>9. abstractRequests[c] = Pending(server[c], failed)
    BY <1>3, <2>8, AbstractOf
  <2>10. Pending(server[c], t) = [abstractRequests[c] EXCEPT !.failed = t]
    BY <2>9 DEF Pending
  <2>11. abstractRequests' = [abstractRequests EXCEPT ![c] = Pending(server[c], t)]
    BY <1>4, <2>7, OneRequest
  <2>12. abstractRequests' = [abstractRequests EXCEPT ![c].failed = t]
    BY <2>10, <2>11 DEF abstractRequests
  <2>13. abstractRequests' = [abstractRequests EXCEPT ![c].failed = TRUE]
    BY <2>3, <2>12, Zenon
  <2> QED
    BY <1>1, <1>3, <2>13, AbstractOf DEF Guarded!StoreFails
<1> QED
  BY <1>6, <1>7, <1>8 DEF authorize

(* An answer runs the tool or refuses.                                     *)
LEMMA AnswerIsGuarded ==
  ASSUME Inv, NEW c \in Clients, answer(c)
  PROVE  Guarded!Run(c) \/ Guarded!Refuse(c)
<1>1. ASSUME NEW response, server' = [server EXCEPT ![c] = Answered(response)]
      PROVE  Answers(c, response)
  BY <1>1 DEF answer, Answers, InFlight, Inv, PerClient
<1>2. CASE server' = [server EXCEPT ![c] = Answered("ran")] /\ Justified(c)
  BY <1>1, <1>2, RunIsGuarded
<1>3. ASSUME NEW response \in {"denied", "thrown"},
             server' = [server EXCEPT ![c] = Answered(response)], Unjustified(c)
      PROVE  Guarded!Refuse(c)
  BY <1>1, <1>3, RefusalIsGuarded DEF Unjustified, Responses
<1> QED
  BY <1>2, <1>3, AnswerIsRight

(* The wrapper around authorize() does not show.                           *)
LEMMA RestIsUnseen ==
  ASSUME UNCHANGED <<now, trusted, revoked, process, authorizing, server>>
  PROVE  Unseen
BY AbstractKept, NoRequest DEF Unseen

(* The server implements a tool guarded in one step: however its requests  *)
(* are interleaved with each other and with the world around them, every   *)
(* run of the tool and every refusal is one that the abstract              *)
(* specification allows.  In both, what was revoked outlives the server    *)
(* only if the stores are durable.                                         *)
THEOREM ToolIsGuarded == Spec => ImplementsGuardedTool
<1>1. Init => Guarded!Init
  <2> SUFFICES ASSUME Init
               PROVE  Guarded!Init
    OBVIOUS
  <2>1. ASSUME NEW c \in Clients
        PROVE  abstractRequest(c) = Guarded!NoRequest
    <3>1. server[c].pc = "idle" /\ server[c] # Answered("ran")
      BY DEF Init, Idle, Answered
    <3> QED
      BY <3>1 DEF abstractRequest, InFlight, Guarded!NoRequest
  <2> QED
    BY <2>1, ToolServerAssumption DEF Init, Guarded!Init, abstractRequests
<1>2. Inv /\ [Next]_vars => [Guarded!Next]_Guarded!vars
  <2> SUFFICES ASSUME Inv, [Next]_vars
               PROVE  Guarded!Next \/ Unseen
    BY DEF Unseen, Guarded!vars
  <2>1. CASE UNCHANGED vars
    BY <2>1, RestIsUnseen DEF vars, serverVars
  <2>2. CASE Tick
    BY <2>2, TickIsGuarded DEF Guarded!Next
  <2>3. CASE Crash
    BY <2>3, CrashIsGuarded DEF Guarded!Next
  <2>4. CASE Restart
    BY <2>4, RestartIsGuarded DEF Guarded!Next
  <2>5. ASSUME NEW pair \in Rotated, RotateKeys(pair[1], pair[2])
        PROVE  Guarded!Next
    BY <2>5, RotateKeysIsGuarded DEF Guarded!Next
  <2>6. ASSUME NEW token \in DOMAIN Tokens, Revoke(token)
        PROVE  Guarded!Next
    BY <2>6, RevokeIsGuarded DEF Guarded!Next
  <2>7. ASSUME NEW c \in Clients, NEW hops \in Presented, NEW asked \in AskedRequests,
               receive(c, hops, asked)
        PROVE  Guarded!Next
    BY <2>7, ReceiveIsGuarded DEF Guarded!Next
  <2>8. ASSUME NEW c \in Clients, withAttent(c)
        PROVE  Guarded!Next \/ Unseen
    <3>1. CASE resolveCredential(c)
      BY <3>1, ResolveIsGuarded DEF Guarded!Next
    <3>2. CASE auditedAuthorize(c)
      BY <3>2, AuditedAuthorizeIsUnseen
    <3>3. CASE authorize(c)
      BY <3>3, AuthorizeIsGuarded DEF Guarded!Next
    <3>4. CASE decided(c) \/ record(c)
      BY <3>4, RestIsUnseen DEF decided, record, serverVars
    <3>5. CASE answer(c)
      BY <3>5, AnswerIsGuarded DEF Guarded!Next
    <3> QED
      BY <2>8, <3>1, <3>2, <3>3, <3>4, <3>5 DEF withAttent
  <2> QED
    BY <2>1, <2>2, <2>3, <2>4, <2>5, <2>6, <2>7, <2>8 DEF Next
<1> QED
  BY <1>1, <1>2, InvHolds, PTL DEF Spec, ImplementsGuardedTool, Guarded!Spec

(* What the server does to its audit trail is what AuditTrail describes,   *)
(* over a durable sink: no step of a request, of its keys, of the          *)
(* revocation store or of a restart touches emitters, audited calls or     *)
(* sink but by a step of that module.  The trail so has the properties     *)
(* proved there, if no process bears the name NoEmitter and there are      *)
(* finitely many.  A sink in memory starts anew with each process, which   *)
(* that module leaves out.                                                 *)
THEOREM AuditsAsATrail ==
  ASSUME Durable
  PROVE  Spec => T!Spec
<1>1. Init => T!Init
  <2> SUFFICES ASSUME Init
               PROVE  T!Init
    OBVIOUS
  <2>1. [l \in {} |-> {}] = <<>>
    OBVIOUS
  <2> QED
    BY <2>1, Zenon DEF Init, T!Init, T!NoHash
<1>2. Inv /\ [Next]_vars => [T!Next]_T!vars
  <2> SUFFICES ASSUME Inv, [Next]_vars
               PROVE  T!Next \/ UNCHANGED auditVars
    BY DEF T!vars, auditVars
  <2>1. ASSUME Crash
        PROVE  T!Next
    <3>1. process \in Processes /\ T!Crash(process)
      BY <2>1 DEF Crash, Inv, Shared
    <3> QED
      BY <3>1 DEF T!Next
  <2>2. ASSUME NEW c \in Clients, auditedAuthorize(c)
        PROVE  T!Next
    <3>1. T!audited(c, "authorization", process)
      BY <2>2 DEF auditedAuthorize
    <3>2. process \in Processes \cup {T!NoEmitter}
      BY <3>1 DEF T!audited, Inv, Shared
    <3> QED
      BY <3>1, <3>2 DEF T!Next
  <2>3. ASSUME NEW c \in Clients, decided(c)
        PROVE  T!Next
    <3>1. PICK result \in {"allow", "deny", "value", "thrown"} : T!WrappedSettles(c, result)
      BY <2>3, OutcomeIsOne DEF decided, Outcomes
    <3> QED
      BY <3>1 DEF T!Next
  <2>4. ASSUME NEW c \in Clients, record(c)
        PROVE  T!Next
    BY <2>4 DEF record, T!Next
  <2>5. CASE UNCHANGED vars
    BY <2>5 DEF vars
  <2>6. CASE Tick \/ Restart
    BY <2>6 DEF Tick, Restart, opened, auditVars
  <2>7. ASSUME NEW pair \in Rotated, RotateKeys(pair[1], pair[2])
        PROVE  UNCHANGED auditVars
    BY <2>7 DEF RotateKeys
  <2>8. ASSUME NEW token \in DOMAIN Tokens, Revoke(token)
        PROVE  UNCHANGED auditVars
    BY <2>8 DEF Revoke
  <2>9. ASSUME NEW c \in Clients, NEW hops \in Presented, NEW asked \in AskedRequests,
               receive(c, hops, asked)
        PROVE  UNCHANGED auditVars
    BY <2>9 DEF receive
  <2>10. ASSUME NEW c \in Clients, resolveCredential(c) \/ authorize(c) \/ answer(c)
         PROVE  UNCHANGED auditVars
    BY <2>10 DEF resolveCredential, authorize, answer
  <2> QED
    BY <2>1, <2>2, <2>3, <2>4, <2>5, <2>6, <2>7, <2>8, <2>9, <2>10 DEF Next, withAttent
<1> QED
  BY <1>1, <1>2, InvHolds, PTL DEF Spec, T!Spec
=============================================================================
