----------------------------- MODULE Delegation -----------------------------
(***************************************************************************)
(* Minting and verifying delegation chains: issueCredential() and          *)
(* delegate() sign hops, anyone may present any sequence of signed hops,   *)
(* and verifyChain() walks it while the clock runs and keys come and go    *)
(* in the trusted key store.                                               *)
(*                                                                         *)
(* A token is a compact JWS: the key that signed it and the claims it      *)
(* carries.  Tokens are named by the order in which they were signed, and  *)
(* the name stands for everything that identifies one: the JWS itself, its *)
(* sha256 and the jti, a fresh uuid.  Signatures are taken to be           *)
(* unforgeable and hashes free of collisions, so a presented string that   *)
(* no key signed, which jwtVerify rejects, is not modelled.  The claim iat *)
(* is written and never read, and is left out.                             *)
(***************************************************************************)
EXTENDS Narrowing, FiniteSets

CONSTANTS
  Identities, Kids,
  KeyPairs,                   \* the <<issuer, kid>> that may come to be trusted
  Grants, Auds, Ttls,         \* what callers may ask to issue or delegate
  Handmade,                   \* claims signed with KeyProvider.sign directly
  MAX_TTL_SECONDS, MAX_CAPABILITIES_PER_HOP, MAX_AUD_ENTRIES, maxDelegationDepth,
  AskedRequests,              \* the requests the properties are about
  Verifiers,                  \* concurrent verifyChain() calls
  MaxTokens, MaxNow           \* bounds on the tokens signed and on the clock

ASSUME DelegationAssumption ==
  /\ KeyPairs \subseteq Identities \X Kids
  /\ Grants \subseteq SUBSET CapabilityGrants
  /\ Auds \subseteq SUBSET Patterns
  /\ Ttls \subseteq Int
  /\ AskedRequests \subseteq Requests
  /\ MAX_TTL_SECONDS \in Nat /\ maxDelegationDepth \in Nat
  /\ MaxTokens \in Nat /\ MaxNow \in Nat

NoParent == 0               \* a parentHopHash that is absent

HandmadeClaims == [iss : Identities, sub : Identities, capabilities : SUBSET CapabilityGrants,
                   aud : SUBSET Patterns, exp : Int]
ASSUME HandmadeAssumption == Handmade \subseteq HandmadeClaims

VARIABLES
  now,        \* seconds of the Clock every call reads
  trusted,    \* TrustedKeyStore: the pairs <<issuer, kid>> it holds a key for
  signed,     \* the tokens signed so far, in order
  chains,     \* the CredentialChains returned by issueCredential and delegate
  verified,   \* the VerifiedCredentialChains returned by verifyChain
  calls       \* the verifyChain call each verifier is in
vars == <<now, trusted, signed, chains, verified, calls>>

HopClaims == [iss : Identities, sub : Identities, capabilities : SUBSET CapabilityGrants,
              aud : SUBSET Patterns, exp : Int, parentHopHash : 0 .. Len(signed)]
Hops == Seq(1 .. Len(signed)) \ {<<>>}

claims(token) == signed[token].claims
signer(token) == <<claims(token).iss, signed[token].kid>>
leaf(hops) == hops[Len(hops)]

Idle == [pc |-> "idle", hops |-> <<>>, i |-> 0, checkedAt |-> 0, trustedSince |-> {}]

Init ==
  /\ now = 0
  /\ trusted = {}
  /\ signed = <<>>
  /\ chains = {} /\ verified = {}
  /\ calls = [v \in Verifiers |-> Idle]

-----------------------------------------------------------------------------
(* The clock, and the trusted key store.  `trustedSince` is history: the   *)
(* keys that were trusted at some moment of the call so far.               *)
Tick ==
  /\ now < MaxNow
  /\ now' = now + 1
  /\ UNCHANGED <<trusted, signed, chains, verified, calls>>

addKey(issuer, kid) ==
  /\ <<issuer, kid>> \notin trusted
  /\ trusted' = trusted \cup {<<issuer, kid>>}
  /\ calls' = [v \in Verifiers |->
                 IF calls[v].pc = "idle" THEN calls[v]
                 ELSE [calls[v] EXCEPT !.trustedSince = @ \cup {<<issuer, kid>>}]]
  /\ UNCHANGED <<now, signed, chains, verified>>

removeKey(issuer, kid) ==
  /\ <<issuer, kid>> \in trusted
  /\ trusted' = trusted \ {<<issuer, kid>>}
  /\ UNCHANGED <<now, signed, chains, verified, calls>>

-----------------------------------------------------------------------------
(* KeyProvider.sign: the token for the claims.                             *)
Signed(kid, hopClaims) ==
  /\ Len(signed) < MaxTokens
  /\ signed' = Append(signed, [kid |-> kid, claims |-> hopClaims])

newToken == Len(signed) + 1

(* A hop made without issueCredential or delegate: verifyChain has to      *)
(* judge any signed claims, whoever wrote them.                            *)
sign(kid, hopClaims, parentHopHash) ==
  /\ parentHopHash \in 0 .. Len(signed)
  /\ Signed(kid, [iss |-> hopClaims.iss, sub |-> hopClaims.sub,
                  capabilities |-> hopClaims.capabilities, aud |-> hopClaims.aud,
                  exp |-> hopClaims.exp, parentHopHash |-> parentHopHash])
  /\ UNCHANGED <<now, trusted, chains, verified, calls>>

(* assertValidCapabilities, and the same of the audience's entries: no     *)
(* string is empty.                                                        *)
assertValidCapabilities(capabilities) ==
  \A cap \in capabilities : cap.action # <<>> /\ cap.resource # <<>>

ValidTtl(ttlSeconds) == ttlSeconds > 0 /\ ttlSeconds <= MAX_TTL_SECONDS

issueCredential(issuer, subject, kid, capabilities, aud, ttlSeconds) ==
  /\ ValidTtl(ttlSeconds)
  /\ Cardinality(capabilities) <= MAX_CAPABILITIES_PER_HOP
  /\ assertValidCapabilities(capabilities)
  /\ Cardinality(aud) \in 1 .. MAX_AUD_ENTRIES /\ <<>> \notin aud
  /\ Signed(kid, [iss |-> issuer, sub |-> subject, capabilities |-> capabilities, aud |-> aud,
                  exp |-> now + ttlSeconds, parentHopHash |-> NoParent])
  /\ chains' = chains \cup {<<newToken>>}
  /\ UNCHANGED <<now, trusted, verified, calls>>

(* delegate() finds nothing exceeded: the same comparison verifyChain      *)
(* makes between adjacent hops.  The slip leaves the expiry out.           *)
WithinAuthority(parent, child) == Covers(parent, child) /\ child.exp <= parent.exp

SlipOutlives(from, child) == Covers(claims(leaf(from)), child)
WithinLeaf(from, child) == WithinAuthority(claims(leaf(from)), child)

(* `from` is a CredentialChain by its type only.  delegate() looks at its  *)
(* length and at its leaf: the hops may be part of a chain, spliced from   *)
(* several, or written by hand.  Each comes with the claims its token      *)
(* carries; an object whose claims are not those of its jws is left out.   *)
delegate(from, to, kid, grant, aud, ttlSeconds) ==
  LET hop == [iss |-> claims(leaf(from)).sub, sub |-> to, capabilities |-> grant, aud |-> aud,
              exp |-> now + ttlSeconds, parentHopHash |-> leaf(from)]
  IN  /\ Len(from) < maxDelegationDepth
      /\ ValidTtl(ttlSeconds)
      /\ grant # {}
      /\ Signed(kid, hop)
      /\ WithinLeaf(from, hop)
      /\ chains' = chains \cup {Append(from, newToken)}
      /\ UNCHANGED <<now, trusted, verified, calls>>

-----------------------------------------------------------------------------
(* verifyChain(): each hop in turn is verified by verifyCredential(),      *)
(* which awaits the key store, imports the key, reads the clock and awaits *)
(* jwtVerify(), which judges the expiry at the moment read.  The walk over *)
(* adjacent hops follows the last hop's check without giving up control.   *)
verifyChain(v, hops) ==
  /\ calls[v].pc = "idle"
  /\ Len(hops) \in 1 .. maxDelegationDepth
  /\ calls' = [calls EXCEPT ![v] =
                 [pc |-> "getKey", hops |-> hops, i |-> 1, checkedAt |-> 0,
                  trustedSince |-> trusted]]
  /\ UNCHANGED <<now, trusted, signed, chains, verified>>

Hop(v) == calls[v].hops[calls[v].i]

(* A slip: the kid is looked up whoever it belongs to.                     *)
SlipKeyOfAnyone(token) == \E issuer \in Identities : <<issuer, signed[token].kid>> \in trusted
getKey(token) == signer(token) \in trusted

GetKey(v) ==
  /\ calls[v].pc = "getKey"
  /\ calls' = [calls EXCEPT ![v] = IF getKey(Hop(v)) THEN [@ EXCEPT !.pc = "importKey"] ELSE Idle]
  /\ UNCHANGED <<now, trusted, signed, chains, verified>>

(* The key has been imported, which every key of the store can be.  The    *)
(* clock is read here, for an answer that comes later.                     *)
ImportKey(v) ==
  /\ calls[v].pc = "importKey"
  /\ calls' = [calls EXCEPT ![v].pc = "jwtVerify", ![v].checkedAt = now]
  /\ UNCHANGED <<now, trusted, signed, chains, verified>>

(* jwtVerify finds the token unexpired at the moment it was given, and its *)
(* payload has the shape of HopClaims: of typed claims, some audience and  *)
(* no empty string.                                                        *)
assertShapeOfHopClaims(token) ==
  /\ claims(token).aud # {} /\ <<>> \notin claims(token).aud
  /\ assertValidCapabilities(claims(token).capabilities)
Unexpired(token, moment) == moment < claims(token).exp

(* Slips in the walk over adjacent hops: no comparison of hashes, none of  *)
(* expiries, none of authority.                                            *)
SlipNoHash(parent, child) ==
  claims(parent).sub = claims(child).iss /\ WithinAuthority(claims(parent), claims(child))
SlipNoExpiry(parent, child) ==
  /\ claims(parent).sub = claims(child).iss
  /\ claims(child).parentHopHash = parent
  /\ Covers(claims(parent), claims(child))
SlipNoAudience(parent, child) ==
  /\ claims(parent).sub = claims(child).iss
  /\ claims(child).parentHopHash = parent
  /\ intersectCapabilities(claims(parent).capabilities, claims(child).capabilities)
  /\ claims(child).exp <= claims(parent).exp

AdjacentOk(parent, child) ==
  /\ claims(parent).sub = claims(child).iss
  /\ claims(child).parentHopHash = parent
  /\ WithinAuthority(claims(parent), claims(child))

WalkAccepts(hops) ==
  /\ claims(hops[1]).parentHopHash = NoParent
  /\ \A i \in 2 .. Len(hops) : AdjacentOk(hops[i - 1], hops[i])

HopOk(v) == Unexpired(Hop(v), calls[v].checkedAt) /\ assertShapeOfHopClaims(Hop(v))

(* A slip: the loop over the hops runs one past the end.                   *)
SlipPastEnd(v) == calls[v].i > Len(calls[v].hops)
LastHop(v) == calls[v].i = Len(calls[v].hops)
Accepts(v) == calls[v].pc = "jwtVerify" /\ HopOk(v) /\ LastHop(v) /\ WalkAccepts(calls[v].hops)

(* A slip: the call goes back to the hop it has just verified.             *)
SlipSameHop(call) == [call EXCEPT !.pc = "getKey"]
nextHop(call) == [call EXCEPT !.pc = "getKey", !.i = @ + 1, !.checkedAt = 0]

JwtVerify(v) ==
  /\ calls[v].pc = "jwtVerify"
  /\ calls' = [calls EXCEPT ![v] = IF HopOk(v) /\ ~LastHop(v) THEN nextHop(@) ELSE Idle]
  /\ verified' = IF Accepts(v) THEN verified \cup {calls[v].hops} ELSE verified
  /\ UNCHANGED <<now, trusted, signed, chains>>

-----------------------------------------------------------------------------
PresentedHops == UNION {[1 .. n -> 1 .. Len(signed)] : n \in 1 .. maxDelegationDepth}

Mint ==
  \/ \E kid \in Kids, c \in Handmade, p \in 0 .. Len(signed) : sign(kid, c, p)
  \/ \E issuer, subject \in Identities, kid \in Kids, g \in Grants, aud \in Auds, t \in Ttls :
       issueCredential(issuer, subject, kid, g, aud, t)
  \/ \E from \in PresentedHops, to \in Identities, kid \in Kids, g \in Grants, t \in Ttls :
       \E aud \in Auds \cup {claims(leaf(from)).aud} : delegate(from, to, kid, g, aud, t)

Next ==
  \/ Tick
  \/ \E pair \in KeyPairs : addKey(pair[1], pair[2]) \/ removeKey(pair[1], pair[2])
  \/ Mint
  \/ \E v \in Verifiers, hops \in PresentedHops : verifyChain(v, hops)
  \/ \E v \in Verifiers : GetKey(v) \/ ImportKey(v) \/ JwtVerify(v)

Spec == Init /\ [][Next]_vars

(* The key store answers and the runtime resumes a call whose await is     *)
(* over; nobody has to call anything.                                      *)
Fairness ==
  \A v \in Verifiers : WF_vars(GetKey(v)) /\ WF_vars(ImportKey(v)) /\ WF_vars(JwtVerify(v))
FairSpec == Spec /\ Fairness

-----------------------------------------------------------------------------
Calls == [pc : {"idle", "getKey", "importKey", "jwtVerify"}, hops : Hops \cup {<<>>}, i : Nat,
          checkedAt : Nat, trustedSince : SUBSET KeyPairs]

TypeOK ==
  /\ now \in Nat
  /\ trusted \subseteq KeyPairs
  /\ signed \in Seq([kid : Kids, claims : HopClaims])
  /\ chains \subseteq Hops /\ verified \subseteq Hops
  /\ calls \in [Verifiers -> Calls]
  /\ \A v \in Verifiers : calls[v].pc # "idle" => calls[v].i \in DOMAIN calls[v].hops

(* verifyChain narrows end to end: in a chain it returned, no hop allows a *)
(* request or outlives a moment that some hop before it does not, though   *)
(* the walk compared adjacent hops only and delegate() may have had no     *)
(* part in making them.                                                    *)
VerifiedNarrows ==
  \A hops \in verified : \A j \in DOMAIN hops : \A i \in 1 .. j :
    /\ claims(hops[j]).exp <= claims(hops[i]).exp
    /\ \A request \in AskedRequests :
         ClaimsAllow(claims(hops[j]), request) => ClaimsAllow(claims(hops[i]), request)

(* A hop has one lineage: two verified chains that share a hop share all   *)
(* that comes before it, so a hop cannot be spliced onto another parent,   *)
(* and revoking an ancestor reaches every chain the hop can appear in.     *)
OneLineage ==
  \A g, h \in verified : \A i \in DOMAIN g, j \in DOMAIN h :
    g[i] = h[j] => i = j /\ \A k \in 1 .. i : g[k] = h[k]

(* delegate() and verifyChain() agree on what narrower means.  Whatever    *)
(* signed hops the delegation started from, a chain or not, the sequence   *)
(* returned passes the structural walk exactly if they do: delegate() adds *)
(* nothing the walk would reject, and mends nothing it rejects.  A chain   *)
(* that issueCredential returned starts from nothing and passes.  Said of  *)
(* hops that come with the claims their token carries, and of constraints  *)
(* that are primitive values: module ConstraintValues has the others.      *)
DelegationKeepsTheWalk ==
  \A hops \in chains :
    LET from == SubSeq(hops, 1, Len(hops) - 1)
    IN  WalkAccepts(hops) <=> from = <<>> \/ WalkAccepts(from)

(* A key vouches for a hop only while it is trusted for the right holder:  *)
(* when verifyChain accepts, each hop was signed under a key that was, at  *)
(* some moment of this very call, trusted for the subject of the hop       *)
(* before it.  A key removed before the call started convinces nobody.     *)
AcceptedUnderTrustedKeys ==
  [][ \A v \in Verifiers : Accepts(v) =>
        LET hops == calls[v].hops
        IN  \A i \in DOMAIN hops :
              LET holder == IF i = 1 THEN claims(hops[1]).iss ELSE claims(hops[i - 1]).sub
              IN  <<holder, signed[hops[i]].kid>> \in calls[v].trustedSince ]_vars

(* The hops of an accepted chain were all alive at one moment, although    *)
(* each was judged at a clock read of its own and time passed between      *)
(* them: at the last of these reads, the leaf's, none had expired.  The    *)
(* chain may expire between that read and the answer, and no property says *)
(* otherwise: authorize() reads the clock again.                           *)
AcceptedHopsLivedTogether ==
  [][ \A v \in Verifiers : Accepts(v) =>
        \A i \in DOMAIN calls[v].hops :
          calls[v].checkedAt < claims(calls[v].hops[i]).exp ]_vars

(* Every verifyChain call comes to an end, also while keys are removed and *)
(* chains signed under it.                                                 *)
CallsEnd == \A v \in Verifiers : calls[v].pc # "idle" ~> calls[v].pc = "idle"

-----------------------------------------------------------------------------
(* src/src/delegation/types.ts: an element of a chain is "the same shape   *)
(* `issueCredential`/`verifyCredential` from `credentials/` already        *)
(* produce", and src/README.md: "Capability/audience list lengths [...]    *)
(* are all bounded".  Stated of the chains that issueCredential and        *)
(* delegate return: each hop is one that issueCredential would issue.      *)
ReturnedHopsAreIssuable ==
  \A hops \in chains : \A i \in DOMAIN hops :
    /\ Cardinality(claims(hops[i]).capabilities) <= MAX_CAPABILITIES_PER_HOP
    /\ Cardinality(claims(hops[i]).aud) \in 1 .. MAX_AUD_ENTRIES
=============================================================================
