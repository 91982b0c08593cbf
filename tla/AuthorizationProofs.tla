------------------------ MODULE AuthorizationProofs ------------------------
(***************************************************************************)
(* authorize() for any number of callers, any set of verified chains of    *)
(* any length, and any interleaving of their awaits with revocations and   *)
(* the clock.                                                              *)
(***************************************************************************)
EXTENDS Authorization, NarrowingProofs

Busy(c) == call[c].pc \in {"isRevoked", "resume"}

(* The actions that a call in flight may take.                             *)
Steps(c) == StoreAnswers(c) \/ StoreFails(c) \/ Resume(c)

(* A call that is not idle has a typed state and an index into its hops.   *)
LEMMA CallIsTyped ==
  ASSUME TypeOK, NEW c \in Callers, call[c].pc # "idle"
  PROVE  /\ call[c] \in CallStates
         /\ call[c].i \in DOMAIN call[c].hops
         /\ WellFormed(call[c].request)
BY DEF TypeOK, NoCall

(* authorize() keeps the types of its state, which includes that the loop  *)
(* index never leaves the chain.                                           *)
THEOREM TypeCorrect == Spec => []TypeOK
<1>1. Init => TypeOK
  BY DEF Init, TypeOK, NoCall
<1>2. TypeOK /\ [Next]_vars => TypeOK'
  <2> SUFFICES ASSUME TypeOK, [Next]_vars
               PROVE  TypeOK'
    OBVIOUS
  <2>1. CASE UNCHANGED vars
    BY <2>1 DEF TypeOK, vars
  <2>2. CASE Tick
    BY <2>2 DEF TypeOK, Tick
  <2>3. ASSUME NEW hops \in Chains, NEW n \in 1 .. Len(hops), revoke(SubSeq(hops, 1, n))
        PROVE  TypeOK'
    <3>1. hops \in Seq(HopClaims) /\ Len(SubSeq(hops, 1, n)) = n /\ SubSeq(hops, 1, n)[n] = hops[n]
      BY ChainsAssumption
    <3>2. hops[n].jti \in Jtis
      <4>1. hops[n] \in HopClaims
        BY <3>1
      <4> QED
        BY <4>1 DEF HopClaims
    <3> QED
      BY <2>3, <3>1, <3>2 DEF TypeOK, revoke
  <2>4. ASSUME NEW c \in Callers, NEW hops \in Chains, NEW request \in AskedRequests,
               authorize(c, hops, request)
        PROVE  TypeOK'
    <3>1. 1 \in DOMAIN hops
      BY ChainsAssumption
    <3>2. Moment \in Moments
      BY DEF Moment, Moments, TypeOK
    <3>3. call'[c] \in CallStates /\ call'[c].i = 1 /\ call'[c].hops = hops
          /\ call'[c].request = request
      <4>1. call'[c] = [pc |-> "isRevoked", hops |-> hops, request |-> request, i |-> 1,
                        answer |-> FALSE, decision |-> "none", asked |-> Moment, failed |-> FALSE]
        BY <2>4 DEF authorize, TypeOK
      <4> QED
        BY <3>2, <4>1 DEF CallStates
    <3>4. \A d \in Callers \ {c} : call'[d] = call[d]
      BY <2>4 DEF authorize, TypeOK
    <3> QED
      BY <2>4, <3>1, <3>3, <3>4 DEF TypeOK, authorize
  <2>5. ASSUME NEW c \in Callers, Steps(c)
        PROVE  TypeOK'
    <3>1. call[c].pc # "idle"
      BY <2>5 DEF Steps, StoreAnswers, StoreFails, Resume, LastHop, NextHop
    <3>2. /\ call[c] \in CallStates /\ call[c].i \in DOMAIN call[c].hops
          /\ WellFormed(call[c].request)
      BY <3>1, CallIsTyped
    <3>3. /\ call'[c] \in CallStates
          /\ call'[c].hops = call[c].hops /\ call'[c].request = call[c].request
          /\ call'[c].i \in DOMAIN call[c].hops
      <4>1. CASE StoreAnswers(c)
        <5>1. isRevoked(call[c].hops[call[c].i].jti) \in BOOLEAN
          BY DEF isRevoked
        <5> QED
          BY <3>2, <4>1, <5>1 DEF StoreAnswers, CallStates, TypeOK
      <4>2. CASE StoreFails(c)
        BY <3>2, <4>2 DEF StoreFails, whenStoreFails, CallStates, TypeOK
      <4>3. CASE Resume(c)
        <5>1. decide(leaf(call[c].hops), call[c].request) \in Denials \cup {"allow"}
          BY DEF decide, Denials
        <5>2. call[c].i \in Nat /\ call[c].hops \in Seq(HopClaims)
          BY <3>2, ChainsAssumption DEF CallStates
        <5>3. DOMAIN call[c].hops = 1 .. Len(call[c].hops) /\ Len(call[c].hops) \in Nat
          BY <5>2
        <5>4. CASE call[c].answer /\ Return(c, "credential_revoked")
          BY <3>2, <5>4 DEF Return, CallStates, Denials, TypeOK
        <5>5. CASE call[c].i # Len(call[c].hops)
                   /\ call' = [call EXCEPT ![c].pc = "isRevoked", ![c].i = @ + 1]
          BY <3>2, <5>2, <5>3, <5>5 DEF CallStates, TypeOK
        <5>6. CASE Return(c, decide(leaf(call[c].hops), call[c].request))
          BY <3>2, <5>1, <5>6 DEF Return, CallStates, TypeOK
        <5> QED
          BY <4>3, <5>4, <5>5, <5>6 DEF Resume, LastHop, NextHop
      <4> QED
        BY <2>5, <4>1, <4>2, <4>3 DEF Steps
    <3>4. /\ UNCHANGED <<now, revoked>>
          /\ call' \in [Callers -> CallStates \cup {NoCall}]
          /\ \A d \in Callers \ {c} : call'[d] = call[d]
      BY <2>5, <3>3 DEF Steps, StoreAnswers, StoreFails, Resume, LastHop, NextHop, Return, TypeOK
    <3> QED
      BY <3>2, <3>3, <3>4 DEF TypeOK
  <2> QED
    BY <2>1, <2>2, <2>3, <2>4, <2>5 DEF Next, Steps
<1> QED
  BY <1>1, <1>2, PTL DEF Spec

-----------------------------------------------------------------------------
(* The strengthening: what a call has established so far.  While it is in  *)
(* flight, the hops already looked up were unrevoked when the call was     *)
(* made, because nothing is ever taken out of the store.  Once it has      *)
(* returned, AllowedWasEligible and DeniedForACause hold of it.            *)
Established(c) ==
  LET s == call[c] IN
  /\ s.asked.revoked \subseteq revoked /\ s.asked.now <= now
  /\ Busy(c) =>
       /\ \A k \in 1 .. s.i - 1 : s.hops[k].jti \notin s.asked.revoked
       /\ s.pc = "isRevoked" => ~s.failed
       /\ s.pc = "resume" /\ ~s.answer => ~s.failed /\ s.hops[s.i].jti \notin s.asked.revoked
       /\ s.pc = "resume" /\ s.answer => s.failed \/ s.hops[s.i].jti \in revoked
  /\ Returned(c) =>
       /\ s.decision \in Denials \cup {"allow"}
       /\ s.decision = "allow" => Eligible(s.hops, s.request, s.asked) /\ ~s.failed
       /\ s.decision \in Denials => s.failed \/ ~Eligible(s.hops, s.request, Moment)

Inv == \A c \in Callers : call[c].pc # "idle" => Established(c)

(* Reading the leaf alone is enough: in a chain verifyChain has accepted,  *)
(* what the leaf allows every hop allows, and no hop expires before it.    *)
LEMMA LeafSpeaksForAll ==
  ASSUME NEW hops \in Chains, NEW i \in DOMAIN hops
  PROVE  /\ hops[i] \in HopClaims
         /\ Len(hops) \in DOMAIN hops
         /\ leaf(hops) \in HopClaims
         /\ leaf(hops).exp <= hops[i].exp
         /\ \A request \in Requests :
              ClaimsAllow(leaf(hops), request) => ClaimsAllow(hops[i], request)
<1> DEFINE n == Len(hops)
           f == [k \in 1 .. n |-> hops[k].exp]
<1>1. /\ n \in Nat \ {0} /\ DOMAIN hops = 1 .. n
      /\ \A k \in 1 .. n : hops[k] \in HopClaims
  BY ChainsAssumption
<1>2. \A k \in 1 .. n : TypedAuthority(hops[k]) /\ hops[k].exp \in Int
  <2> SUFFICES ASSUME NEW k \in 1 .. n
               PROVE  TypedAuthority(hops[k]) /\ hops[k].exp \in Int
    OBVIOUS
  <2>1. hops[k] \in HopClaims
    BY <1>1
  <2> QED
    BY <2>1 DEF HopClaims, TypedAuthority
<1>3. \A k \in 2 .. n : Covers(hops[k - 1], hops[k]) /\ hops[k].exp <= hops[k - 1].exp
  BY ChainsAssumption
<1> HIDE DEF n
<1>4. \A k \in 1 .. n : f[k] = hops[k].exp
  OBVIOUS
<1>5. f[n] <= f[i]
  <2>1. (\A k \in 1 .. n : f[k] \in Int) /\ (\A k \in 2 .. n : f[k] <= f[k - 1])
    BY <1>1, <1>2, <1>3, <1>4
  <2> HIDE DEF f
  <2>2. \A j \in 1 .. n : \A k \in 1 .. j : f[j] <= f[k]
    BY <1>1, <2>1, AdjacentNonIncreasing
  <2> QED
    BY <1>1, <2>2
<1>6. \A j \in 1 .. n : \A k \in 1 .. j - 1 : Covers(hops[k], hops[j])
  BY <1>1, <1>2, <1>3, AdjacentCoversAll
<1>7. ASSUME NEW request \in Requests, ClaimsAllow(hops[n], request)
      PROVE  ClaimsAllow(hops[i], request)
  <2>1. CASE i = n
    BY <1>7, <2>1
  <2>2. CASE i # n
    <3>1. Covers(hops[i], hops[n])
      BY <1>1, <1>6, <2>2
    <3> QED
      BY <1>1, <1>2, <1>7, <3>1, NarrowingIsSound
  <2> QED
    BY <2>1, <2>2
<1> QED
  BY <1>1, <1>4, <1>5, <1>7 DEF leaf, n

(* decide() looks at the leaf as Eligible looks at a hop.                  *)
LEMMA DecideAllows ==
  ASSUME NEW hop, hop.exp \in Int, now \in Int, NEW request
  PROVE  decide(hop, request) = "allow" <=> now < hop.exp /\ ClaimsAllow(hop, request)
<1>1. Expired(hop) <=> ~(now < hop.exp)
  BY DEF Expired
<1>2. (\E cap \in structuralMatches(hop, request) : evaluate(cap, request.context))
        => structuralMatches(hop, request) # {}
  OBVIOUS
<1> QED
  BY <1>1, <1>2 DEF decide, PolicyAllows, ClaimsAllow

(* A request that assertConcrete lets through is one narrowing speaks of.  *)
LEMMA WellFormedIsRequest ==
  ASSUME NEW request \in AskedRequests, WellFormed(request)
  PROVE  request \in Requests
<1>1. request \in AskedFor
  BY AskedAssumption
<1> QED
  BY <1>1 DEF AskedFor, Requests, WellFormed

(* Time and revocations only take eligibility away.                        *)
LEMMA EligibilityShrinks ==
  ASSUME NEW hops \in Chains, NEW request, NEW m1, NEW m2,
         m1.now \in Int, m2.now \in Int, m1.now <= m2.now, m1.revoked \subseteq m2.revoked,
         Eligible(hops, request, m2)
  PROVE  Eligible(hops, request, m1)
<1> SUFFICES ASSUME NEW i \in DOMAIN hops
             PROVE  /\ hops[i].jti \notin m1.revoked
                    /\ m1.now < hops[i].exp
                    /\ ClaimsAllow(hops[i], request)
  BY DEF Eligible
<1>1. hops[i].exp \in Int
  BY LeafSpeaksForAll DEF HopClaims
<1> QED
  BY <1>1 DEF Eligible

(* What the last step of the loop concludes, from the lookups before it.   *)
LEMMA DecisionIsRight ==
  ASSUME TypeOK, NEW c \in Callers, call[c].pc = "resume", Established(c),
         ~call[c].answer, call[c].i = Len(call[c].hops),
         NEW d, d = decide(leaf(call[c].hops), call[c].request)
  PROVE  /\ d \in Denials \cup {"allow"}
         /\ d = "allow" => /\ Eligible(call[c].hops, call[c].request, call[c].asked)
                           /\ \A i \in DOMAIN call[c].hops : now < call[c].hops[i].exp
         /\ d \in Denials => ~Eligible(call[c].hops, call[c].request, Moment)
<1> DEFINE hops == call[c].hops
           request == call[c].request
<1>1. /\ call[c] \in CallStates /\ hops \in Chains /\ request \in Requests
      /\ now \in Nat /\ call[c].asked \in Moments
  BY CallIsTyped, WellFormedIsRequest DEF CallStates, TypeOK
<1>2. /\ Len(hops) \in DOMAIN hops /\ leaf(hops).exp \in Int
      /\ \A i \in DOMAIN hops : hops[i].exp \in Int
      /\ DOMAIN hops = 1 .. Len(hops) /\ Len(hops) \in Nat
  <2>1. Len(hops) \in DOMAIN hops /\ leaf(hops) \in HopClaims
    BY <1>1, ChainsAssumption DEF leaf
  <2>2. \A i \in DOMAIN hops : hops[i] \in HopClaims
    BY <1>1, LeafSpeaksForAll
  <2> QED
    BY <1>1, <2>1, <2>2, ChainsAssumption DEF HopClaims
<1>3. d = "allow" <=> now < leaf(hops).exp /\ ClaimsAllow(leaf(hops), request)
  BY <1>1, <1>2, DecideAllows
<1>4. d \in Denials \cup {"allow"} /\ (d \in Denials => d # "allow")
  BY DEF decide, Denials
<1>5. \A i \in DOMAIN hops : hops[i].jti \notin call[c].asked.revoked
  BY <1>2 DEF Established, Busy
<1>6. ASSUME d = "allow", NEW i \in DOMAIN hops
      PROVE  now < hops[i].exp /\ ClaimsAllow(hops[i], request)
  <2>1. leaf(hops).exp <= hops[i].exp
    BY <1>1, LeafSpeaksForAll
  <2> QED
    BY <1>1, <1>2, <1>3, <1>6, <2>1, LeafSpeaksForAll
<1>7. ASSUME d = "allow"
      PROVE  Eligible(hops, request, call[c].asked)
  <2>1. call[c].asked.now \in Int /\ call[c].asked.now <= now
    BY <1>1 DEF Established, Moments
  <2>2. ASSUME NEW i \in DOMAIN hops
        PROVE  call[c].asked.now < hops[i].exp
    BY <1>1, <1>2, <1>6, <1>7, <2>1
  <2> QED
    BY <1>5, <1>6, <1>7, <2>2 DEF Eligible
<1>8. ASSUME d \in Denials, Eligible(hops, request, Moment)
      PROVE  FALSE
  <2>1. Moment.now < hops[Len(hops)].exp /\ ClaimsAllow(hops[Len(hops)], request)
    BY <1>2, <1>8 DEF Eligible
  <2> QED
    BY <1>3, <1>4, <1>8, <2>1 DEF leaf, Moment
<1> QED
  BY <1>4, <1>6, <1>7, <1>8

-----------------------------------------------------------------------------
(* Steps that leave a call alone and only let time pass or revoke.         *)
LEMMA WaitingKeepsEstablished ==
  ASSUME TypeOK, TypeOK', NEW c \in Callers, call[c].pc # "idle", Established(c),
         call'[c] = call[c], revoked \subseteq revoked', now <= now'
  PROVE  Established(c)'
<1>1. /\ call[c] \in CallStates /\ call[c].hops \in Chains
      /\ now \in Nat /\ now' \in Nat /\ call[c].asked.now \in Nat
  BY CallIsTyped DEF CallStates, Moments, TypeOK
<1>2. Eligible(call[c].hops, call[c].request, Moment')
        => Eligible(call[c].hops, call[c].request, Moment)
  <2>1. /\ Moment.now = now /\ Moment.revoked = revoked
        /\ Moment'.now = now' /\ Moment'.revoked = revoked'
    BY DEF Moment
  <2> QED
    BY <1>1, <2>1, EligibilityShrinks
<1>3. call[c].asked.now <= now'
  BY <1>1 DEF Established
<1>4. Busy(c)' = Busy(c) /\ Returned(c)' = Returned(c)
  BY DEF Busy, Returned
<1> QED
  BY <1>2, <1>3, <1>4 DEF Established

(* A call begins with nothing established and nothing to establish.        *)
LEMMA AskingEstablishes ==
  ASSUME TypeOK, NEW c \in Callers, NEW hops, NEW request, authorize(c, hops, request)
  PROVE  Established(c)'
<1>1. /\ call'[c] = [pc |-> "isRevoked", hops |-> hops, request |-> request, i |-> 1,
                     answer |-> FALSE, decision |-> "none", asked |-> Moment, failed |-> FALSE]
      /\ UNCHANGED <<now, revoked>>
  BY DEF authorize, TypeOK
<1>2. now \in Nat /\ call'[c].asked.now = now /\ call'[c].asked.revoked = revoked
  BY <1>1 DEF Moment, TypeOK
<1> QED
  BY <1>1, <1>2 DEF Established, Busy, Returned

(* Each step of a call keeps what it has established: the answer about one *)
(* more hop, or the decision that rests on the answers about all of them.  *)
LEMMA StepEstablishes ==
  ASSUME TypeOK, NEW c \in Callers, Established(c), Steps(c)
  PROVE  Established(c)'
<1> DEFINE s == call[c]
           t == call'[c]
<1>1. s.pc # "idle"
  BY DEF Steps, StoreAnswers, StoreFails, Resume, LastHop, NextHop
<1>2. /\ s \in CallStates /\ s.i \in DOMAIN s.hops /\ s.i \in Nat
      /\ UNCHANGED <<now, revoked>>
  BY <1>1, CallIsTyped DEF CallStates, Steps, StoreAnswers, StoreFails, Resume, LastHop, NextHop
<1>3. CASE StoreAnswers(c)
  <2>1. t = [s EXCEPT !.pc = "resume", !.answer = isRevoked(s.hops[s.i].jti)]
    BY <1>3 DEF StoreAnswers, TypeOK
  <2>2. /\ t.pc = "resume" /\ t.hops = s.hops /\ t.i = s.i /\ t.asked = s.asked
        /\ t.failed = s.failed /\ t.answer = isRevoked(s.hops[s.i].jti)
    BY <1>2, <2>1 DEF CallStates
  <2>3. s.pc = "isRevoked" /\ ~s.failed
    BY <1>3 DEF StoreAnswers, Established, Busy
  <2>4. CASE isRevoked(s.hops[s.i].jti)
    BY <1>2, <2>2, <2>3, <2>4 DEF Established, Busy, Returned, isRevoked
  <2>5. CASE ~isRevoked(s.hops[s.i].jti)
    BY <1>2, <2>2, <2>3, <2>5 DEF Established, Busy, Returned, isRevoked
  <2> QED
    BY <2>4, <2>5
<1>4. CASE StoreFails(c)
  <2>1. t = [s EXCEPT !.pc = "resume", !.answer = TRUE, !.failed = TRUE]
    BY <1>4 DEF StoreFails, TypeOK, whenStoreFails
  <2>2. /\ t.pc = "resume" /\ t.hops = s.hops /\ t.i = s.i /\ t.asked = s.asked
        /\ t.failed /\ t.answer
    BY <1>2, <2>1 DEF CallStates
  <2>3. s.pc = "isRevoked"
    BY <1>4 DEF StoreFails
  <2> QED
    BY <1>2, <2>2, <2>3 DEF Established, Busy, Returned
<1>5. CASE Resume(c)
  <2>0. s.pc = "resume"
    BY <1>5 DEF Resume, LastHop, NextHop
  <2>1. CASE s.answer /\ Return(c, "credential_revoked")
    <3>1. t = [s EXCEPT !.pc = "returned", !.decision = "credential_revoked"]
      BY <2>1 DEF Return, TypeOK
    <3>2. /\ t.pc = "returned" /\ t.hops = s.hops /\ t.asked = s.asked /\ t.failed = s.failed
          /\ t.request = s.request /\ t.decision = "credential_revoked"
      BY <1>2, <3>1 DEF CallStates
    <3>3. s.failed \/ s.hops[s.i].jti \in revoked
      BY <2>0, <2>1 DEF Established, Busy
    <3>4. s.failed \/ ~Eligible(s.hops, s.request, Moment)
      BY <1>2, <3>3 DEF Eligible, Moment
    <3>5. Moment' = Moment
      BY <1>2 DEF Moment
    <3> QED
      BY <1>2, <3>2, <3>4, <3>5 DEF Established, Busy, Returned, Denials
  <2>2. CASE /\ ~s.answer /\ s.i # Len(s.hops)
             /\ call' = [call EXCEPT ![c].pc = "isRevoked", ![c].i = @ + 1]
    <3>1. t = [s EXCEPT !.pc = "isRevoked", !.i = @ + 1]
      BY <2>2 DEF TypeOK
    <3>2. /\ t.pc = "isRevoked" /\ t.hops = s.hops /\ t.asked = s.asked /\ t.failed = s.failed
          /\ t.i = s.i + 1
      BY <1>2, <3>1 DEF CallStates
    <3>3. ~s.failed /\ \A k \in 1 .. s.i : s.hops[k].jti \notin s.asked.revoked
      BY <1>2, <2>0, <2>2 DEF Established, Busy
    <3> QED
      BY <1>2, <3>2, <3>3 DEF Established, Busy, Returned
  <2>3. CASE /\ ~s.answer /\ s.i = Len(s.hops)
             /\ Return(c, decide(leaf(s.hops), s.request))
    <3> DEFINE d == decide(leaf(s.hops), s.request)
    <3>1. t = [s EXCEPT !.pc = "returned", !.decision = d]
      BY <2>3 DEF Return, TypeOK
    <3>2. /\ t.pc = "returned" /\ t.hops = s.hops /\ t.asked = s.asked /\ t.failed = s.failed
          /\ t.request = s.request /\ t.decision = d
      BY <1>2, <3>1 DEF CallStates
    <3>3. /\ d \in Denials \cup {"allow"}
          /\ d = "allow" => Eligible(s.hops, s.request, s.asked)
          /\ d \in Denials => ~Eligible(s.hops, s.request, Moment)
      BY <2>0, <2>3, DecisionIsRight
    <3>4. ~s.failed /\ Moment' = Moment
      BY <1>2, <2>0, <2>3 DEF Established, Busy, Moment
    <3> HIDE DEF d
    <3> QED
      BY <1>2, <3>2, <3>3, <3>4 DEF Established, Busy, Returned
  <2> QED
    BY <1>5, <2>1, <2>2, <2>3 DEF Resume, LastHop, NextHop
<1> QED
  BY <1>3, <1>4, <1>5 DEF Steps

-----------------------------------------------------------------------------
(* A step of one call touches neither the clock, the store, nor another    *)
(* call.                                                                   *)
LEMMA CallStateOfStep ==
  ASSUME TypeOK, NEW c \in Callers, Steps(c)
  PROVE  /\ call[c].pc # "idle" /\ call'[c].pc # "idle"
         /\ UNCHANGED <<now, revoked>>
         /\ \A d \in Callers \ {c} : call'[d] = call[d]
<1>1. call[c].pc # "idle" /\ UNCHANGED <<now, revoked>>
  BY DEF Steps, StoreAnswers, StoreFails, Resume, LastHop, NextHop
<1>2. call[c] \in CallStates
  BY <1>1, CallIsTyped
<1>3. call'[c].pc \in {"isRevoked", "resume", "returned"}
  BY <1>2 DEF Steps, StoreAnswers, StoreFails, Resume, LastHop, NextHop, Return, CallStates, TypeOK
<1>4. \A d \in Callers \ {c} : call'[d] = call[d]
  BY DEF Steps, StoreAnswers, StoreFails, Resume, LastHop, NextHop, Return, TypeOK
<1> QED
  BY <1>1, <1>3, <1>4

(* revoke() only adds to the store.                                        *)
LEMMA RevokesOnlyHops ==
  ASSUME NEW hops \in Chains, NEW n \in 1 .. Len(hops)
  PROVE  /\ SubSeq(hops, 1, n)[Len(SubSeq(hops, 1, n))] = hops[n]
         /\ hops[n].jti \in Jtis
<1>1. hops \in Seq(HopClaims)
  BY ChainsAssumption
<1>2. hops[n] \in HopClaims
  BY <1>1
<1>3. Len(SubSeq(hops, 1, n)) = n /\ SubSeq(hops, 1, n)[n] = hops[n]
  BY <1>1
<1> QED
  BY <1>2, <1>3 DEF HopClaims

(* Every step preserves the strengthened invariant.                        *)
LEMMA InvIsInductive == TypeOK /\ TypeOK' /\ Inv /\ [Next]_vars => Inv'
<1> SUFFICES ASSUME TypeOK, TypeOK', Inv, [Next]_vars, NEW d \in Callers,
                    call'[d].pc # "idle"
             PROVE  Established(d)'
  BY DEF Inv
<1>0. now \in Nat /\ (call[d].pc # "idle" => Established(d))
  BY DEF Inv, TypeOK
<1>1. CASE UNCHANGED vars
  BY <1>0, <1>1, WaitingKeepsEstablished DEF vars
<1>2. CASE Tick
  BY <1>0, <1>2, WaitingKeepsEstablished DEF Tick
<1>3. ASSUME NEW hops, revoke(hops)
      PROVE  Established(d)'
  BY <1>0, <1>3, WaitingKeepsEstablished DEF revoke
<1>4. ASSUME NEW c \in Callers, NEW hops, NEW request, authorize(c, hops, request)
      PROVE  Established(d)'
  <2>1. CASE c = d
    BY <1>4, <2>1, AskingEstablishes
  <2>2. CASE c # d
    <3>1. call'[d] = call[d] /\ UNCHANGED <<now, revoked>>
      BY <1>4, <2>2 DEF authorize, TypeOK
    <3> QED
      BY <1>0, <3>1, WaitingKeepsEstablished
  <2> QED
    BY <2>1, <2>2
<1>5. ASSUME NEW c \in Callers, Steps(c)
      PROVE  Established(d)'
  <2>1. CASE c = d
    BY <1>0, <1>5, <2>1, StepEstablishes, CallStateOfStep
  <2>2. CASE c # d
    <3>1. call'[d] = call[d] /\ UNCHANGED <<now, revoked>>
      BY <1>5, <2>2, CallStateOfStep
    <3> QED
      BY <1>0, <3>1, WaitingKeepsEstablished
  <2> QED
    BY <2>1, <2>2
<1> QED
  BY <1>1, <1>2, <1>3, <1>4, <1>5 DEF Next, Steps

(* What authorize() has established of every call in flight or returned,   *)
(* in every reachable state: the invariant the properties follow from.     *)
THEOREM InvHolds == Spec => []Inv
<1>1. Init => Inv
  BY DEF Init, Inv, NoCall
<1> QED
  BY <1>1, InvIsInductive, TypeCorrect, PTL DEF Spec

(* A revoked, expired or insufficient hop anywhere in a presented chain is *)
(* never missed: what authorize() allows was eligible when it was asked.   *)
THEOREM AllowedWasEligibleHolds == Spec => []AllowedWasEligible
<1>1. Inv => AllowedWasEligible
  BY DEF Inv, Established, AllowedWasEligible, Returned
<1> QED
  BY <1>1, InvHolds, PTL

(* No call is denied while its chain is eligible and the store answered.   *)
THEOREM DeniedForACauseHolds == Spec => []DeniedForACause
<1>1. Inv => DeniedForACause
  BY DEF Inv, Established, DeniedForACause, Returned
<1> QED
  BY <1>1, InvHolds, PTL

(* A call returns in two ways: a hop was revoked or its lookup failed, or  *)
(* all were looked up and the leaf decides.                                *)
LEMMA ReturnIsADecision ==
  ASSUME TypeOK, Inv, NEW c \in Callers, Steps(c), Returned(c)'
  PROVE  /\ call[c].pc = "resume"
         /\ \/ call[c].answer /\ Return(c, "credential_revoked")
            \/ /\ ~call[c].answer /\ call[c].i = Len(call[c].hops)
               /\ Return(c, decide(leaf(call[c].hops), call[c].request))
<1>1. call[c] \in CallStates
  BY CallStateOfStep, CallIsTyped
<1>2. ~StoreAnswers(c) /\ ~StoreFails(c)
  BY <1>1 DEF StoreAnswers, StoreFails, Returned, CallStates, TypeOK
<1>3. Resume(c)
  BY <1>2 DEF Steps
<1>4. ~(call' = [call EXCEPT ![c].pc = "isRevoked", ![c].i = @ + 1])
  BY <1>1 DEF Returned, CallStates, TypeOK
<1> QED
  BY <1>3, <1>4 DEF Resume, LastHop, NextHop

(* Whenever an allow is returned, every hop of the chain is still alive.   *)
THEOREM AllowedWhileEveryHopLivesHolds == Spec => AllowedWhileEveryHopLives
<1> DEFINE A == \A c \in Callers :
                  ~Returned(c) /\ Returned(c)' /\ call'[c].decision = "allow" =>
                    \A i \in DOMAIN call[c].hops : now' < call[c].hops[i].exp
<1>1. TypeOK /\ Inv /\ [Next]_vars => [A]_vars
  <2> SUFFICES ASSUME TypeOK, Inv, Next, NEW c \in Callers,
                      ~Returned(c), Returned(c)', call'[c].decision = "allow",
                      NEW i \in DOMAIN call[c].hops
               PROVE  now' < call[c].hops[i].exp
    BY DEF vars
  <2>1. Steps(c)
    <3>1. ~Tick /\ \A hops : ~revoke(hops)
      BY DEF Tick, revoke, Returned
    <3>2. ASSUME NEW e \in Callers, NEW hops, NEW request, authorize(e, hops, request)
          PROVE  FALSE
      BY <3>2 DEF authorize, Returned, TypeOK
    <3>3. ASSUME NEW e \in Callers, Steps(e), e # c
          PROVE  FALSE
      BY <3>3, CallStateOfStep DEF Returned
    <3> QED
      BY <3>1, <3>2, <3>3 DEF Next, Steps
  <2>2. call[c] \in CallStates /\ Established(c) /\ now' = now
    BY <2>1, CallStateOfStep, CallIsTyped DEF Inv
  <2>3. /\ call[c].pc = "resume"
        /\ \/ call[c].answer /\ Return(c, "credential_revoked")
           \/ /\ ~call[c].answer /\ call[c].i = Len(call[c].hops)
              /\ Return(c, decide(leaf(call[c].hops), call[c].request))
    BY <2>1, ReturnIsADecision
  <2>4. ~Return(c, "credential_revoked")
    BY <2>2 DEF Return, CallStates, TypeOK
  <2>5. decide(leaf(call[c].hops), call[c].request) = "allow"
    BY <2>2, <2>3, <2>4 DEF Return, CallStates, TypeOK
  <2> QED
    BY <2>2, <2>3, <2>4, <2>5, DecisionIsRight
<1> QED
  BY <1>1, TypeCorrect, InvHolds, PTL DEF Spec, AllowedWhileEveryHopLives

-----------------------------------------------------------------------------
(* The refinement: each step of a call is a step of the atomic decision or *)
(* changes nothing it can see.                                             *)
LEMMA AbstractOf ==
  ASSUME NEW c \in Callers
  PROVE  abstractCalls[c] = AbstractCall(c) /\ abstractCalls'[c] = AbstractCall(c)'
BY DEF abstractCalls

(* A step of one concrete call changes the abstract call of that caller    *)
(* only.                                                                   *)
LEMMA OthersUnchanged ==
  ASSUME NEW c \in Callers, NEW new, AbstractCall(c)' = new,
         \A d \in Callers \ {c} : call'[d] = call[d]
  PROVE  abstractCalls' = [abstractCalls EXCEPT ![c] = new]
<1>1. \A d \in Callers \ {c} : AbstractCall(d)' = AbstractCall(d)
  BY DEF AbstractCall, Returned
<1> QED
  BY <1>1 DEF abstractCalls

(* The abstract module reads claims through definitions of its own, which  *)
(* say the same.                                                           *)
LEMMA SameMatching ==
  ASSUME NEW pattern, NEW concrete
  PROVE  Atomic!matchPattern(pattern, concrete) = matchPattern(pattern, concrete)
BY DEF Atomic!matchPattern, matchPattern, Atomic!parsePatternSegments, parsePatternSegments,
       Atomic!isPatternSegment, isPatternSegment

(* The abstract specification's evaluate is the concrete one's.            *)
LEMMA SameEvaluation ==
  ASSUME NEW cap, NEW context
  PROVE  Atomic!evaluate(cap, context) = evaluate(cap, context)
BY DEF Atomic!evaluate, evaluate, Atomic!MeetsKey, MeetsKey, Atomic!isFiniteNumber, isFiniteNumber

(* The abstract specification's eligibility is the concrete one's.         *)
LEMMA SameEligibility ==
  ASSUME NEW hops, NEW request, NEW moment
  PROVE  /\ Atomic!Eligible(hops, request, moment) = Eligible(hops, request, moment)
         /\ Atomic!WellFormed(request) = WellFormed(request)
<1>1. ASSUME NEW hop
      PROVE  Atomic!ClaimsAllow(hop, request) = ClaimsAllow(hop, request)
  BY SameMatching, SameEvaluation
     DEF Atomic!ClaimsAllow, ClaimsAllow, Atomic!matchAnyPattern, matchAnyPattern,
         Atomic!structuralMatches, structuralMatches
<1>2. Atomic!WellFormed(request) = WellFormed(request)
  BY DEF Atomic!WellFormed, WellFormed, Atomic!assertConcrete, assertConcrete,
         Atomic!isConcreteSegment, isConcreteSegment
<1> QED
  BY <1>1, <1>2 DEF Atomic!Eligible, Eligible

(* Time and revocation leave the abstract calls as they are.               *)
LEMMA CallsUnseen ==
  ASSUME call' = call
  PROVE  abstractCalls' = abstractCalls
BY DEF abstractCalls, AbstractCall, Returned

(* A call in flight is an abstract call that has been asked.               *)
LEMMA AbstractBusy ==
  ASSUME TypeOK, NEW c \in Callers, Busy(c)
  PROVE  AbstractCall(c) = [ state |-> "asked", hops |-> call[c].hops,
                             request |-> call[c].request, asked |-> call[c].asked,
                             failed |-> call[c].failed ]
<1>1. ~Returned(c) /\ call[c].pc # "idle"
  BY DEF Busy, Returned
<1> QED
  BY <1>1 DEF AbstractCall

(* The start of a call is the abstract Ask.                                *)
LEMMA AskRefines ==
  ASSUME TypeOK, Inv, NEW c \in Callers, NEW hops \in Chains, NEW request \in AskedRequests,
         authorize(c, hops, request)
  PROVE  Atomic!Ask(c, hops, request)
<1>1. call'[c] = [pc |-> "isRevoked", hops |-> hops, request |-> request, i |-> 1,
                  answer |-> FALSE, decision |-> "none", asked |-> Moment, failed |-> FALSE]
  BY DEF authorize, TypeOK
<1>2. /\ \A d \in Callers \ {c} : call'[d] = call[d]
      /\ WellFormed(request) /\ UNCHANGED <<now, revoked>>
      /\ call[c].pc \in {"idle", "returned"}
  BY DEF authorize, TypeOK
<1>3. AbstractCall(c)' = [ state |-> "asked", hops |-> hops, request |-> request,
                           asked |-> Moment, failed |-> FALSE ]
  BY <1>1 DEF AbstractCall, Returned
<1>4. AbstractCall(c).state \in {"idle", "allowed", "denied"}
  BY <1>2 DEF AbstractCall, Returned
<1>5. abstractCalls' = [abstractCalls EXCEPT ![c] = AbstractCall(c)']
  BY <1>2, OthersUnchanged
<1>6. abstractCalls[c].state \in {"idle", "allowed", "denied"}
  BY <1>4, AbstractOf
<1>7. abstractCalls' = [abstractCalls EXCEPT
        ![c] = [ state |-> "asked", hops |-> hops, request |-> request,
                 asked |-> Atomic!Moment, failed |-> FALSE ]]
  BY <1>3, <1>5 DEF Atomic!Moment, Moment
<1> QED
  BY <1>2, <1>6, <1>7, SameEligibility DEF Atomic!Ask

(* A step of a call is an abstract failure, an abstract decision, or       *)
(* invisible.                                                              *)
LEMMA StepRefines ==
  ASSUME TypeOK, Inv, NEW c \in Callers, Steps(c)
  PROVE  \/ Atomic!StoreFails(c) \/ Atomic!Allow(c) \/ Atomic!Deny(c)
         \/ UNCHANGED Atomic!vars
<1> DEFINE s == call[c]
           t == call'[c]
<1>1. /\ s \in CallStates /\ Established(c) /\ UNCHANGED <<now, revoked>>
      /\ \A d \in Callers \ {c} : call'[d] = call[d]
  BY CallStateOfStep, CallIsTyped DEF Inv
<1>2. abstractCalls' = [abstractCalls EXCEPT ![c] = AbstractCall(c)']
  BY <1>1, OthersUnchanged
<1>3. Busy(c)
  BY DEF Steps, StoreAnswers, StoreFails, Resume, LastHop, NextHop, Busy
<1>4. /\ abstractCalls[c] = [ state |-> "asked", hops |-> s.hops, request |-> s.request,
                              asked |-> s.asked, failed |-> s.failed ]
      /\ DOMAIN abstractCalls = Callers
  BY <1>3, AbstractBusy, AbstractOf DEF abstractCalls
<1>5. ASSUME t.pc \in {"isRevoked", "resume"}, t.hops = s.hops, t.request = s.request,
             t.asked = s.asked, t.failed = s.failed
      PROVE  UNCHANGED Atomic!vars
  <2>1. AbstractCall(c)' = abstractCalls[c]
    BY <1>4, <1>5 DEF AbstractCall, Returned
  <2> QED
    BY <1>1, <1>2, <1>4, <2>1 DEF Atomic!vars, abstractCalls
<1>6. CASE StoreAnswers(c)
  <2>1. t = [s EXCEPT !.pc = "resume", !.answer = isRevoked(s.hops[s.i].jti)]
    BY <1>6 DEF StoreAnswers, TypeOK
  <2> QED
    BY <1>1, <1>5, <2>1 DEF CallStates
<1>7. CASE StoreFails(c)
  <2>1. t = [s EXCEPT !.pc = "resume", !.answer = TRUE, !.failed = TRUE]
    BY <1>7 DEF StoreFails, TypeOK, whenStoreFails
  <2>2. /\ t.pc = "resume" /\ t.hops = s.hops /\ t.request = s.request
        /\ t.asked = s.asked /\ t.failed = TRUE
    BY <1>1, <2>1 DEF CallStates
  <2>3. AbstractCall(c)' = [ state |-> "asked", hops |-> s.hops, request |-> s.request,
                             asked |-> s.asked, failed |-> TRUE ]
    BY <2>2 DEF AbstractCall, Returned
  <2>4. abstractCalls' = [abstractCalls EXCEPT ![c].failed = TRUE]
    <3>1. \A x : [abstractCalls[c] EXCEPT !.failed = x] =
                   [ state |-> "asked", hops |-> s.hops, request |-> s.request,
                     asked |-> s.asked, failed |-> x ]
      BY <1>4
    <3>2. [abstractCalls[c] EXCEPT !.failed = TRUE] = AbstractCall(c)'
      BY <2>3, <3>1, Zenon
    <3> QED
      BY <1>2, <3>2
  <2> QED
    BY <1>1, <1>4, <2>4 DEF Atomic!StoreFails
<1>8. CASE Resume(c) /\ ~Returned(c)'
  <2>1. call' = [call EXCEPT ![c].pc = "isRevoked", ![c].i = @ + 1]
    BY <1>1, <1>8 DEF Resume, LastHop, NextHop, Return, Returned, CallStates, TypeOK
  <2>2. t = [s EXCEPT !.pc = "isRevoked", !.i = @ + 1]
    BY <2>1 DEF TypeOK
  <2> QED
    BY <1>1, <1>5, <2>2 DEF CallStates
<1>9. CASE Returned(c)'
  <2> DEFINE d == decide(leaf(s.hops), s.request)
  <2>1. /\ s.pc = "resume"
        /\ \/ s.answer /\ Return(c, "credential_revoked")
           \/ ~s.answer /\ s.i = Len(s.hops) /\ Return(c, d)
    BY <1>9, ReturnIsADecision
  <2>2. CASE s.answer /\ Return(c, "credential_revoked")
    <3>1. t = [s EXCEPT !.pc = "returned", !.decision = "credential_revoked"]
      BY <2>2 DEF Return, TypeOK
    <3>2. /\ t.pc = "returned" /\ t.decision = "credential_revoked" /\ t.hops = s.hops
          /\ t.request = s.request /\ t.asked = s.asked /\ t.failed = s.failed
      BY <1>1, <3>1 DEF CallStates
    <3>4. AbstractCall(c)' = [ state |-> "denied", hops |-> s.hops, request |-> s.request,
                               asked |-> s.asked, failed |-> s.failed ]
      BY <3>2 DEF AbstractCall, Returned
    <3>5. abstractCalls' = [abstractCalls EXCEPT ![c].state = "denied"]
      <4>1. [abstractCalls[c] EXCEPT !.state = "denied"] = AbstractCall(c)'
        BY <1>4, <3>4
      <4> QED
        BY <1>2, <4>1
    <3>3. s.failed \/ ~Eligible(s.hops, s.request, Moment)
      <4>1. s.failed \/ s.hops[s.i].jti \in revoked
        BY <1>1, <1>3, <2>1, <2>2 DEF Established
      <4>2. s.i \in DOMAIN s.hops
        BY <2>1, CallIsTyped
      <4> QED
        BY <4>1, <4>2 DEF Eligible, Moment
    <3> QED
      BY <1>1, <1>4, <3>3, <3>5, SameEligibility DEF Atomic!Deny, Atomic!Moment, Moment
  <2>3. CASE ~s.answer /\ s.i = Len(s.hops) /\ Return(c, d)
    <3>1. t = [s EXCEPT !.pc = "returned", !.decision = d]
      BY <2>3 DEF Return, TypeOK
    <3>2. /\ t.pc = "returned" /\ t.decision = d /\ t.hops = s.hops
          /\ t.request = s.request /\ t.asked = s.asked /\ t.failed = s.failed
      BY <1>1, <3>1 DEF CallStates
    <3>3. ~s.failed
      BY <1>1, <1>3, <2>1, <2>3 DEF Established
    <3>4. /\ d \in Denials \cup {"allow"}
          /\ d = "allow" => /\ Eligible(s.hops, s.request, s.asked)
                            /\ \A i \in DOMAIN s.hops : now < s.hops[i].exp
          /\ d \in Denials => ~Eligible(s.hops, s.request, Moment)
      BY <1>1, <2>1, <2>3, DecisionIsRight
    <3> HIDE DEF d
    <3>5. CASE d = "allow"
      <4>1. AbstractCall(c)' = [ state |-> "allowed", hops |-> s.hops, request |-> s.request,
                                 asked |-> s.asked, failed |-> s.failed ]
        BY <3>2, <3>5 DEF AbstractCall, Returned, Denials
      <4>2. abstractCalls' = [abstractCalls EXCEPT ![c].state = "allowed"]
        <5>1. [abstractCalls[c] EXCEPT !.state = "allowed"] = AbstractCall(c)'
          BY <1>4, <4>1
        <5> QED
          BY <1>2, <5>1
      <4> QED
        BY <1>1, <1>4, <3>3, <3>4, <3>5, <4>2, SameEligibility DEF Atomic!Allow
    <3>6. CASE d \in Denials
      <4>1. AbstractCall(c)' = [ state |-> "denied", hops |-> s.hops, request |-> s.request,
                                 asked |-> s.asked, failed |-> s.failed ]
        BY <3>2, <3>6 DEF AbstractCall, Returned, Denials
      <4>2. abstractCalls' = [abstractCalls EXCEPT ![c].state = "denied"]
        <5>1. [abstractCalls[c] EXCEPT !.state = "denied"] = AbstractCall(c)'
          BY <1>4, <4>1
        <5> QED
          BY <1>2, <5>1
      <4> QED
        BY <1>1, <1>4, <3>4, <3>6, <4>2, SameEligibility DEF Atomic!Deny, Atomic!Moment, Moment
    <3> QED
      BY <3>4, <3>5, <3>6
  <2> QED
    BY <2>1, <2>2, <2>3
<1> QED
  BY <1>6, <1>7, <1>8, <1>9 DEF Steps, StoreAnswers, StoreFails

(* authorize() with all its awaits implements the decision that takes no   *)
(* time.                                                                   *)
THEOREM Refinement == Spec => ImplementsAtomic
<1>1. Init => Atomic!Init
  BY DEF Init, Atomic!Init, abstractCalls, AbstractCall, NoCall, Atomic!NoCall
<1>2. TypeOK /\ Inv /\ [Next]_vars => [Atomic!Next]_(Atomic!vars)
  <2> SUFFICES ASSUME TypeOK, Inv, [Next]_vars
               PROVE  Atomic!Next \/ UNCHANGED Atomic!vars
    OBVIOUS
  <2>1. CASE UNCHANGED vars
    BY <2>1, CallsUnseen DEF vars, Atomic!vars
  <2>2. CASE Tick
    BY <2>2, CallsUnseen DEF Tick, Atomic!Tick, Atomic!Next
  <2>3. ASSUME NEW hops \in Chains, NEW n \in 1 .. Len(hops), revoke(SubSeq(hops, 1, n))
        PROVE  Atomic!Next
    <3>1. Atomic!Revoke(hops[n].jti) /\ hops[n].jti \in Jtis
      BY <2>3, RevokesOnlyHops, CallsUnseen DEF revoke, Atomic!Revoke
    <3> QED
      BY <3>1 DEF Atomic!Next
  <2>4. ASSUME NEW c \in Callers, NEW hops \in Chains, NEW request \in AskedRequests,
               authorize(c, hops, request)
        PROVE  Atomic!Next
    BY <2>4, AskRefines DEF Atomic!Next
  <2>5. ASSUME NEW c \in Callers, Steps(c)
        PROVE  Atomic!Next \/ UNCHANGED Atomic!vars
    BY <2>5, StepRefines DEF Atomic!Next
  <2> QED
    BY <2>1, <2>2, <2>3, <2>4, <2>5 DEF Next, Steps
<1> QED
  BY <1>1, <1>2, TypeCorrect, InvHolds, PTL DEF Spec, ImplementsAtomic, Atomic!Spec
=============================================================================
