-------------------------- MODULE DelegationProofs --------------------------
(***************************************************************************)
(* What verifyChain() guarantees for every key store, any set of claims,   *)
(* chains of any depth and any number of concurrent calls.  The invariant  *)
(* says that whatever was signed stays signed, that every verified chain   *)
(* has passed the structural walk, that the last hop of one that was made  *)
(* fits what it was made from, and that a call has seen the keys of the    *)
(* hops behind it trusted since it started.                                *)
(***************************************************************************)
EXTENDS Delegation, NarrowingProofs

(* Every verified chain has passed the structural walk.                    *)
ChainsPass == \A hops \in verified : WalkAccepts(hops)

(* The last hop of a chain that issueCredential or delegate made is a root *)
(* on its own, or fits the hop before it; what comes before that may be    *)
(* anything.                                                               *)
LastHopFits(hops) ==
  \/ Len(hops) = 1 /\ claims(hops[1]).parentHopHash = NoParent
  \/ Len(hops) > 1 /\ AdjacentOk(hops[Len(hops) - 1], hops[Len(hops)])
ChainsFit == \A hops \in chains : LastHopFits(hops)

(* A call has seen, since it started, every key now trusted, and the key   *)
(* of every hop it has looked up.                                          *)
KeyFound == {"importKey", "jwtVerify"}
KeysSeen ==
  \A v \in Verifiers : calls[v].pc # "idle" =>
    /\ trusted \subseteq calls[v].trustedSince
    /\ \A k \in 1 .. calls[v].i :
         k < calls[v].i \/ calls[v].pc \in KeyFound =>
           signer(calls[v].hops[k]) \in calls[v].trustedSince

Inv == TypeOK /\ ChainsPass /\ ChainsFit /\ KeysSeen

-----------------------------------------------------------------------------
(* Nothing that was signed changes: minting appends, the rest leaves the   *)
(* tokens alone.                                                           *)
SignedGrows ==
  /\ Len(signed) \in Nat /\ Len(signed)' \in Nat
  /\ Len(signed) <= Len(signed)'
  /\ \A token \in 1 .. Len(signed) : signed'[token] = signed[token]

(* A chain is a non-empty sequence of tokens that were signed.             *)
LEMMA ChainPositions ==
  ASSUME NEW hops \in Hops
  PROVE  /\ Len(hops) \in Nat \ {0}
         /\ DOMAIN hops = 1 .. Len(hops)
         /\ \A i \in 1 .. Len(hops) : hops[i] \in 1 .. Len(signed)
         /\ leaf(hops) \in 1 .. Len(signed)
BY DEF Hops, leaf

(* A signed token carries well-typed claims.                               *)
LEMMA TokenTypes ==
  ASSUME TypeOK, NEW token \in 1 .. Len(signed)
  PROVE  /\ Len(signed) \in Nat
         /\ signed[token].kid \in Kids
         /\ claims(token) \in HopClaims
         /\ TypedAuthority(claims(token))
         /\ claims(token).exp \in Int
         /\ claims(token).parentHopHash \in 0 .. Len(signed)
<1> DEFINE T == [kid : Kids, claims : HopClaims]
<1>0. signed \in Seq(T)
  BY DEF TypeOK
<1>1. Len(signed) \in Nat /\ signed[token] \in T
  <2> HIDE DEF T
  <2> QED
    BY <1>0
<1>2. signed[token].kid \in Kids /\ claims(token) \in HopClaims
  BY <1>1 DEF claims
<1> QED
  BY <1>1, <1>2 DEF HopClaims, TypedAuthority

(* A chain that passes the walk passes it for good.                        *)
LEMMA WalkPersists ==
  ASSUME NEW hops \in Hops, SignedGrows, WalkAccepts(hops)
  PROVE  WalkAccepts(hops)'
<1>1. \A i \in 1 .. Len(hops) : claims(hops[i])' = claims(hops[i])
  BY ChainPositions DEF SignedGrows, claims
<1>2. claims(hops[1])'.parentHopHash = NoParent
  BY <1>1, ChainPositions DEF WalkAccepts
<1>3. ASSUME NEW i \in 2 .. Len(hops)
      PROVE  AdjacentOk(hops[i - 1], hops[i])'
  <2>1. i \in 1 .. Len(hops) /\ i - 1 \in 1 .. Len(hops)
    BY ChainPositions
  <2>2. claims(hops[i])' = claims(hops[i]) /\ claims(hops[i - 1])' = claims(hops[i - 1])
    BY <1>1, <2>1
  <2>3. AdjacentOk(hops[i - 1], hops[i])
    BY DEF WalkAccepts
  <2> QED
    BY <2>2, <2>3 DEF AdjacentOk
<1> QED
  BY <1>2, <1>3 DEF WalkAccepts

(* What was made from a hop it fits, fits it for good.                     *)
LEMMA FitPersists ==
  ASSUME NEW hops \in Hops, SignedGrows, LastHopFits(hops)
  PROVE  LastHopFits(hops)'
<1>1. \A i \in 1 .. Len(hops) : claims(hops[i])' = claims(hops[i])
  BY ChainPositions DEF SignedGrows, claims
<1>2. CASE Len(hops) = 1
  <2>1. claims(hops[1])' = claims(hops[1])
    BY <1>1, <1>2
  <2> QED
    BY <1>2, <2>1 DEF LastHopFits
<1>3. CASE Len(hops) > 1
  <2>1. Len(hops) \in 1 .. Len(hops) /\ Len(hops) - 1 \in 1 .. Len(hops)
    BY <1>3, ChainPositions
  <2>2. /\ claims(hops[Len(hops)])' = claims(hops[Len(hops)])
        /\ claims(hops[Len(hops) - 1])' = claims(hops[Len(hops) - 1])
    BY <1>1, <2>1
  <2>3. AdjacentOk(hops[Len(hops) - 1], hops[Len(hops)])
    BY <1>3 DEF LastHopFits
  <2> QED
    BY <1>3, <2>2, <2>3 DEF LastHopFits, AdjacentOk
<1> QED
  BY <1>2, <1>3 DEF LastHopFits

(* What was a chain, or claims that name a parent, still is after a step.  *)
LEMMA HopsGrow ==
  ASSUME SignedGrows
  PROVE  Hops \subseteq Hops' /\ HopClaims \subseteq HopClaims'
<1>1. 0 .. Len(signed) \subseteq 0 .. Len(signed)'
  BY DEF SignedGrows
<1>2. 1 .. Len(signed) \subseteq 1 .. Len(signed)'
  BY DEF SignedGrows
<1>3. Seq(1 .. Len(signed)) \subseteq Seq(1 .. Len(signed)')
  <2> DEFINE A == 1 .. Len(signed)
             B == 1 .. Len(signed)'
  <2>1. A \subseteq B
    BY <1>2
  <2> HIDE DEF A, B
  <2>2. Seq(A) \subseteq Seq(B)
    BY <2>1
  <2> QED
    BY <2>2 DEF A, B
<1>4. HopClaims \subseteq HopClaims'
  BY <1>1 DEF HopClaims
<1> QED
  BY <1>3, <1>4 DEF Hops

-----------------------------------------------------------------------------
(* What may be presented, to verifyChain or to delegate, is a sequence of  *)
(* signed hops.                                                            *)
LEMMA PresentedAreHops ==
  ASSUME NEW hops \in PresentedHops
  PROVE  hops \in Hops /\ 1 \in DOMAIN hops
<1>1. PICK n \in 1 .. maxDelegationDepth : hops \in [1 .. n -> 1 .. Len(signed)]
  BY DEF PresentedHops
<1>2. n \in Nat \ {0}
  BY <1>1, DelegationAssumption
<1>3. hops \in Seq(1 .. Len(signed)) /\ 1 \in DOMAIN hops /\ hops # <<>>
  BY <1>1, <1>2
<1> QED
  BY <1>3 DEF Hops

(* What a signed token does to the state, whoever minted it.               *)
LEMMA MintedToken ==
  ASSUME TypeOK, NEW kid \in Kids, NEW hopClaims \in HopClaims, Signed(kid, hopClaims)
  PROVE  /\ SignedGrows
         /\ Len(signed)' = newToken /\ newToken \in Nat \ {0}
         /\ signed'[newToken] = [kid |-> kid, claims |-> hopClaims]
         /\ signed' \in Seq([kid : Kids, claims : HopClaims'])
<1> DEFINE T == [kid : Kids, claims : HopClaims]
           token == [kid |-> kid, claims |-> hopClaims]
<1>1. signed \in Seq(T) /\ token \in T /\ signed' = Append(signed, token)
  BY DEF TypeOK, Signed
<1>2. SignedGrows /\ Len(signed)' = newToken /\ newToken \in Nat \ {0} /\ signed'[newToken] = token
  <2> HIDE DEF T, token
  <2> QED
    BY <1>1 DEF SignedGrows, newToken
<1>3. signed' \in Seq(T)
  <2> HIDE DEF T, token
  <2> QED
    BY <1>1
<1>4. T \subseteq [kid : Kids, claims : HopClaims']
  BY <1>2, HopsGrow
<1>5. signed' \in Seq([kid : Kids, claims : HopClaims'])
  <2> DEFINE U == [kid : Kids, claims : HopClaims']
  <2>1. T \subseteq U
    BY <1>4
  <2> HIDE DEF T, U
  <2>2. signed' \in Seq(U)
    BY <1>3, <2>1
  <2> QED
    BY <2>2 DEF U
<1> QED
  BY <1>2, <1>5

(* The chains a step adds are chains whose last hop fits.                  *)
NewChainsFit ==
  \A hops \in chains' \ chains : hops \in Hops' /\ LastHopFits(hops)'

(* The invariant is kept when they do.                                     *)
LEMMA MintKeepsInv ==
  ASSUME Inv, NEW kid \in Kids, NEW hopClaims \in HopClaims, Signed(kid, hopClaims),
         UNCHANGED <<now, trusted, verified, calls>>, NewChainsFit
  PROVE  Inv'
<1> USE DEF Inv
<1>1. SignedGrows /\ Hops \subseteq Hops' /\ signed' \in Seq([kid : Kids, claims : HopClaims'])
  BY MintedToken, HopsGrow
<1>2. TypeOK'
  <2>1. now' \in Nat /\ trusted' \subseteq KeyPairs
    BY DEF TypeOK
  <2>2. chains' \subseteq Hops' /\ verified' \subseteq Hops'
    BY <1>1 DEF TypeOK, NewChainsFit
  <2>3. Calls \subseteq Calls'
    BY <1>1 DEF Calls
  <2>4. calls' \in [Verifiers -> Calls']
    BY <2>3 DEF TypeOK
  <2>5. \A v \in Verifiers : calls'[v].pc # "idle" => calls'[v].i \in DOMAIN calls'[v].hops
    BY DEF TypeOK
  <2> QED
    BY <1>1, <2>1, <2>2, <2>4, <2>5 DEF TypeOK
<1>3. ChainsPass' /\ ChainsFit'
  <2>1. \A hops \in verified : WalkAccepts(hops)'
    BY <1>1, WalkPersists DEF TypeOK, ChainsPass
  <2>2. \A hops \in chains : LastHopFits(hops)'
    BY <1>1, FitPersists DEF TypeOK, ChainsFit
  <2> QED
    BY <2>1, <2>2 DEF ChainsPass, ChainsFit, NewChainsFit
<1>4. KeysSeen'
  <2> SUFFICES ASSUME NEW v \in Verifiers, calls[v].pc # "idle"
               PROVE  /\ trusted \subseteq calls[v].trustedSince
                      /\ \A k \in 1 .. calls[v].i :
                           k < calls[v].i \/ calls[v].pc \in KeyFound =>
                             signer(calls[v].hops[k])' \in calls[v].trustedSince
    BY DEF KeysSeen, signer, claims
  <2>1. calls[v].hops \in Hops /\ calls[v].i \in 1 .. Len(calls[v].hops)
    <3>1. calls[v] \in Calls /\ calls[v].i \in DOMAIN calls[v].hops
      BY DEF TypeOK
    <3>2. calls[v].hops \in Hops
      BY <3>1 DEF Calls
    <3> QED
      BY <3>1, <3>2, ChainPositions
  <2>2. \A k \in 1 .. calls[v].i : calls[v].hops[k] \in 1 .. Len(signed)
    BY <2>1, ChainPositions
  <2>3. \A k \in 1 .. calls[v].i : signer(calls[v].hops[k])' = signer(calls[v].hops[k])
    BY <1>1, <2>2 DEF SignedGrows, signer, claims
  <2> QED
    BY <2>3 DEF KeysSeen
<1> QED
  BY <1>2, <1>3, <1>4

(* The claims of a hop written by hand have the type of claims.            *)
LEMMA SignKeepsInv ==
  ASSUME Inv, NEW kid \in Kids, NEW c \in Handmade, NEW p \in 0 .. Len(signed), sign(kid, c, p)
  PROVE  Inv'
<1> DEFINE hopClaims == [iss |-> c.iss, sub |-> c.sub, capabilities |-> c.capabilities,
                         aud |-> c.aud, exp |-> c.exp, parentHopHash |-> p]
<1>1. c \in HandmadeClaims
  BY HandmadeAssumption
<1>2. hopClaims \in HopClaims
  BY <1>1 DEF HandmadeClaims, HopClaims
<1>3. Signed(kid, hopClaims) /\ UNCHANGED <<now, trusted, chains, verified, calls>>
  BY DEF sign
<1>4. NewChainsFit
  BY <1>3 DEF NewChainsFit
<1> HIDE DEF hopClaims
<1> QED
  BY <1>2, <1>3, <1>4, MintKeepsInv

(* A hop that is issued is a root.                                         *)
LEMMA IssueKeepsInv ==
  ASSUME Inv, NEW issuer \in Identities, NEW subject \in Identities, NEW kid \in Kids,
         NEW g \in Grants, NEW aud \in Auds, NEW t \in Ttls,
         issueCredential(issuer, subject, kid, g, aud, t)
  PROVE  Inv'
<1> DEFINE hopClaims == [iss |-> issuer, sub |-> subject, capabilities |-> g, aud |-> aud,
                         exp |-> now + t, parentHopHash |-> NoParent]
<1>1. hopClaims \in HopClaims
  <2>1. now + t \in Int /\ Len(signed) \in Nat
    BY DelegationAssumption DEF Inv, TypeOK
  <2>2. g \in SUBSET CapabilityGrants /\ aud \in SUBSET Patterns /\ NoParent \in 0 .. Len(signed)
    BY <2>1, DelegationAssumption DEF NoParent
  <2> QED
    BY <2>1, <2>2 DEF HopClaims
<1>2. PICK n : n = newToken
  OBVIOUS
<1>3. /\ Signed(kid, hopClaims) /\ chains' = chains \cup {<<n>>}
      /\ UNCHANGED <<now, trusted, verified, calls>>
  BY <1>2 DEF issueCredential
<1>4. /\ Len(signed)' = n /\ n \in Nat \ {0}
      /\ signed'[n] = [kid |-> kid, claims |-> hopClaims]
  <2> HIDE DEF hopClaims
  <2> QED
    BY <1>1, <1>2, <1>3, MintedToken DEF Inv
<1>5. <<n>> \in Hops'
  BY <1>4 DEF Hops
<1>6. LastHopFits(<<n>>)'
  <2>1. signed'[n].claims.parentHopHash = NoParent
    BY <1>4
  <2> QED
    BY <2>1 DEF LastHopFits, claims
<1>7. NewChainsFit
  BY <1>3, <1>5, <1>6 DEF NewChainsFit
<1> HIDE DEF hopClaims
<1> QED
  BY <1>1, <1>3, <1>7, MintKeepsInv

(* delegate() compares the new hop with the leaf, and the walk compares it *)
(* with the same hop, whatever comes before that.                          *)
LEMMA DelegateKeepsInv ==
  ASSUME Inv, NEW from \in PresentedHops, NEW to \in Identities, NEW kid \in Kids,
         NEW g \in Grants, NEW aud \in Auds \cup {claims(leaf(from)).aud}, NEW t \in Ttls,
         delegate(from, to, kid, g, aud, t)
  PROVE  Inv'
<1> DEFINE hopClaims == [iss |-> claims(leaf(from)).sub, sub |-> to, capabilities |-> g,
                         aud |-> aud, exp |-> now + t, parentHopHash |-> leaf(from)]
<1>0. from \in Hops
  BY PresentedAreHops
<1>1. hopClaims \in HopClaims
  <2>1. leaf(from) \in 1 .. Len(signed)
    BY <1>0, ChainPositions
  <2>2. /\ claims(leaf(from)) \in HopClaims /\ Len(signed) \in Nat
    BY <2>1, TokenTypes DEF Inv
  <2>3. claims(leaf(from)).sub \in Identities /\ claims(leaf(from)).aud \in SUBSET Patterns
    BY <2>2 DEF HopClaims
  <2>4. g \in SUBSET CapabilityGrants /\ aud \in SUBSET Patterns /\ now + t \in Int
    BY <2>3, DelegationAssumption DEF Inv, TypeOK
  <2>5. leaf(from) \in 0 .. Len(signed)
    BY <2>1, <2>2
  <2> QED
    BY <2>3, <2>4, <2>5 DEF HopClaims
<1>2. PICK n : n = newToken
  OBVIOUS
<1>3. /\ Signed(kid, hopClaims) /\ chains' = chains \cup {Append(from, n)}
      /\ UNCHANGED <<now, trusted, verified, calls>>
      /\ WithinLeaf(from, hopClaims)
  BY <1>2 DEF delegate
<1>4. /\ Len(signed)' = n /\ n \in Nat \ {0}
      /\ signed'[n] = [kid |-> kid, claims |-> hopClaims]
      /\ SignedGrows /\ Hops \subseteq Hops'
  <2> HIDE DEF hopClaims
  <2> QED
    BY <1>1, <1>2, <1>3, MintedToken, HopsGrow DEF Inv
<1>5. PICK hops : hops = Append(from, n)
  OBVIOUS
<1>6. /\ Len(from) \in Nat \ {0} /\ Len(hops) = Len(from) + 1
      /\ \A i \in 1 .. Len(from) : hops[i] = from[i]
      /\ hops[Len(hops)] = n
      /\ hops \in Hops'
  <2> DEFINE S == 1 .. Len(signed)'
  <2>1. from \in Seq(S) /\ from # <<>> /\ n \in S
    BY <1>0, <1>4 DEF Hops
  <2>2. hops \in Seq(S) \ {<<>>}
    <3> HIDE DEF S
    <3> QED
      BY <1>5, <2>1
  <2>3. /\ Len(from) \in Nat \ {0} /\ Len(hops) = Len(from) + 1
        /\ \A i \in 1 .. Len(from) : hops[i] = from[i]
        /\ hops[Len(hops)] = n
    <3> HIDE DEF S
    <3> QED
      BY <1>5, <2>1
  <2> QED
    BY <2>2, <2>3 DEF Hops
<1>7. AdjacentOk(hops[Len(hops) - 1], hops[Len(hops)])'
  <2>1. /\ hops[Len(hops)] = n /\ hops[Len(hops) - 1] = leaf(from)
        /\ leaf(from) \in 1 .. Len(signed)
    BY <1>0, <1>6, ChainPositions DEF leaf
  <2>2. signed'[n].claims = hopClaims /\ signed'[leaf(from)] = signed[leaf(from)]
    BY <1>4, <2>1 DEF SignedGrows
  <2>3. WithinAuthority(claims(leaf(from)), hopClaims)
    BY <1>3 DEF WithinLeaf
  <2>4. /\ hopClaims.iss = claims(leaf(from)).sub
        /\ hopClaims.parentHopHash = leaf(from)
    OBVIOUS
  <2> HIDE DEF hopClaims
  <2> QED
    BY <2>1, <2>2, <2>3, <2>4 DEF AdjacentOk, claims
<1>8. LastHopFits(hops)'
  BY <1>6, <1>7 DEF LastHopFits
<1>9. NewChainsFit
  BY <1>3, <1>5, <1>6, <1>8 DEF NewChainsFit
<1> HIDE DEF hopClaims
<1> QED
  BY <1>1, <1>3, <1>9, MintKeepsInv

-----------------------------------------------------------------------------
(* A step that signs nothing leaves what is said of tokens as it was.      *)
LEMMA SameTokens ==
  ASSUME UNCHANGED signed
  PROVE  /\ Hops' = Hops /\ HopClaims' = HopClaims /\ Calls' = Calls
         /\ \A hops : WalkAccepts(hops)' <=> WalkAccepts(hops)
         /\ \A token : signer(token)' = signer(token)
<1>1. Hops' = Hops /\ HopClaims' = HopClaims
  BY DEF Hops, HopClaims
<1>2. Calls' = Calls
  BY <1>1 DEF Calls
<1>3. \A hops : WalkAccepts(hops)' <=> WalkAccepts(hops)
  BY DEF WalkAccepts, AdjacentOk, claims
<1>4. \A token : signer(token)' = signer(token)
  BY DEF signer, claims
<1> QED
  BY <1>1, <1>2, <1>3, <1>4

(* Nor does it change what fits.                                           *)
LEMMA SameFit ==
  ASSUME UNCHANGED signed
  PROVE  \A hops : LastHopFits(hops)' <=> LastHopFits(hops)
BY DEF LastHopFits, AdjacentOk, claims

(* The chain of a call in flight, and where the call stands in it.         *)
LEMMA CallTypes ==
  ASSUME TypeOK, NEW v \in Verifiers, calls[v].pc # "idle"
  PROVE  /\ calls[v] \in Calls /\ calls[v].pc \in {"getKey"} \cup KeyFound
         /\ calls[v].hops \in Hops
         /\ calls[v].i \in 1 .. Len(calls[v].hops)
         /\ \A k \in 1 .. Len(calls[v].hops) : calls[v].hops[k] \in 1 .. Len(signed)
         /\ Len(calls[v].hops) \in Nat \ {0}
<1>1. calls[v] \in Calls /\ calls[v].i \in DOMAIN calls[v].hops
  BY DEF TypeOK
<1>2. calls[v].hops \in Hops /\ calls[v].pc \in {"getKey"} \cup KeyFound
  BY <1>1 DEF Calls, KeyFound
<1> QED
  BY <1>1, <1>2, ChainPositions

(* A call may be replaced by one of the right type that has seen its keys. *)
LEMMA CallStepKeepsInv ==
  ASSUME Inv, NEW v \in Verifiers, NEW call \in Calls,
         UNCHANGED <<now, trusted, signed, chains>>,
         calls' = [calls EXCEPT ![v] = call],
         \A hops \in verified' \ verified : hops \in Hops /\ WalkAccepts(hops),
         call.pc # "idle" =>
           /\ call.i \in DOMAIN call.hops
           /\ trusted \subseteq call.trustedSince
           /\ \A k \in 1 .. call.i : k < call.i \/ call.pc \in KeyFound =>
                signer(call.hops[k]) \in call.trustedSince
  PROVE  Inv'
<1>1. /\ Hops' = Hops /\ HopClaims' = HopClaims /\ Calls' = Calls
      /\ \A hops : WalkAccepts(hops)' <=> WalkAccepts(hops)
      /\ \A token : signer(token)' = signer(token)
  BY SameTokens
<1>2. /\ calls' \in [Verifiers -> Calls]
      /\ \A w \in Verifiers : calls'[w] = IF w = v THEN call ELSE calls[w]
  BY DEF Inv, TypeOK
<1>3. TypeOK'
  <2>1. \A w \in Verifiers : calls'[w].pc # "idle" => calls'[w].i \in DOMAIN calls'[w].hops
    BY <1>2 DEF Inv, TypeOK
  <2>2. verified' \subseteq Hops
    BY DEF Inv, TypeOK
  <2> QED
    BY <1>1, <1>2, <2>1, <2>2 DEF Inv, TypeOK
<1>4. ChainsPass' /\ ChainsFit'
  BY <1>1, SameFit DEF Inv, ChainsPass, ChainsFit
<1>5. KeysSeen'
  <2> SUFFICES ASSUME NEW w \in Verifiers, calls'[w].pc # "idle"
               PROVE  /\ trusted' \subseteq calls'[w].trustedSince
                      /\ \A k \in 1 .. calls'[w].i :
                           k < calls'[w].i \/ calls'[w].pc \in KeyFound =>
                             signer(calls[w].hops[k])' \in calls'[w].trustedSince
    BY DEF KeysSeen
  <2>1. CASE w = v
    BY <1>1, <1>2, <2>1
  <2>2. CASE w # v
    BY <1>1, <1>2, <2>2 DEF Inv, KeysSeen
  <2> QED
    BY <2>1, <2>2
<1> QED
  BY <1>3, <1>4, <1>5 DEF Inv

(* A verifier with nothing to do is in no call.                            *)
LEMMA IdleIsACall == Idle \in Calls /\ Idle.pc = "idle"
BY DEF Idle, Calls

-----------------------------------------------------------------------------
(* One lemma per step of verifyChain().                                    *)
LEMMA VerifyChainKeepsInv ==
  ASSUME Inv, NEW v \in Verifiers, NEW hops \in PresentedHops, verifyChain(v, hops)
  PROVE  Inv'
<1> DEFINE call == [pc |-> "getKey", hops |-> hops, i |-> 1, checkedAt |-> 0,
                    trustedSince |-> trusted]
<1>1. hops \in Hops /\ 1 \in DOMAIN hops
  BY PresentedAreHops
<1>2. call \in Calls
  BY <1>1 DEF Calls, Inv, TypeOK
<1>3. /\ UNCHANGED <<now, trusted, signed, chains>> /\ verified' = verified
      /\ calls' = [calls EXCEPT ![v] = call]
  BY DEF verifyChain
<1>4. /\ call.i \in DOMAIN call.hops /\ trusted \subseteq call.trustedSince
      /\ \A k \in 1 .. call.i : ~(k < call.i \/ call.pc \in KeyFound)
  BY <1>1 DEF KeyFound
<1> HIDE DEF call
<1> QED
  BY <1>2, <1>3, <1>4, CallStepKeepsInv

(* A key that getKey() finds is trusted at this moment of the call.        *)
LEMMA GetKeyKeepsInv ==
  ASSUME Inv, NEW v \in Verifiers, GetKey(v)
  PROVE  Inv'
<1> DEFINE call == [calls[v] EXCEPT !.pc = "importKey"]
<1>1. calls[v].pc = "getKey" /\ calls[v].pc # "idle"
  BY DEF GetKey
<1>2. /\ calls[v] \in Calls /\ calls[v].hops \in Hops
      /\ calls[v].i \in 1 .. Len(calls[v].hops)
      /\ DOMAIN calls[v].hops = 1 .. Len(calls[v].hops)
  BY <1>1, CallTypes, ChainPositions DEF Inv
<1>3. /\ trusted \subseteq calls[v].trustedSince
      /\ \A k \in 1 .. calls[v].i : k < calls[v].i =>
           signer(calls[v].hops[k]) \in calls[v].trustedSince
  BY <1>1 DEF Inv, KeysSeen
<1>4. UNCHANGED <<now, trusted, signed, chains>> /\ verified' = verified
  BY DEF GetKey
<1>5. CASE ~getKey(Hop(v))
  <2>1. calls' = [calls EXCEPT ![v] = Idle]
    BY <1>5 DEF GetKey
  <2> QED
    BY <1>4, <2>1, IdleIsACall, CallStepKeepsInv
<1>6. CASE getKey(Hop(v))
  <2>1. calls' = [calls EXCEPT ![v] = call]
    BY <1>6 DEF GetKey
  <2>2. /\ call.pc = "importKey" /\ call.hops = calls[v].hops /\ call.i = calls[v].i
        /\ call.trustedSince = calls[v].trustedSince
        /\ call \in Calls
    BY <1>2 DEF Calls
  <2>3. signer(calls[v].hops[calls[v].i]) \in calls[v].trustedSince
    BY <1>3, <1>6 DEF getKey, Hop
  <2>4. \A k \in 1 .. calls[v].i : signer(calls[v].hops[k]) \in calls[v].trustedSince
    <3> SUFFICES ASSUME NEW k \in 1 .. calls[v].i
                 PROVE  k < calls[v].i \/ k = calls[v].i
      BY <1>3, <2>3
    <3> QED
      BY <1>2
  <2> HIDE DEF call
  <2> QED
    BY <1>2, <1>3, <1>4, <2>1, <2>2, <2>4, CallStepKeepsInv
<1> QED
  BY <1>5, <1>6

(* The moment the clock is read is one the call carries on with.           *)
LEMMA ImportKeyKeepsInv ==
  ASSUME Inv, NEW v \in Verifiers, ImportKey(v)
  PROVE  Inv'
<1> DEFINE call == [calls[v] EXCEPT !.pc = "jwtVerify", !.checkedAt = now]
<1>1. calls[v].pc = "importKey" /\ calls[v].pc # "idle"
  BY DEF ImportKey
<1>2. /\ calls[v] \in Calls /\ calls[v].i \in DOMAIN calls[v].hops
      /\ trusted \subseteq calls[v].trustedSince
      /\ \A k \in 1 .. calls[v].i : signer(calls[v].hops[k]) \in calls[v].trustedSince
  BY <1>1 DEF Inv, TypeOK, KeysSeen, KeyFound
<1>3. /\ UNCHANGED <<now, trusted, signed, chains>> /\ verified' = verified
      /\ calls' = [calls EXCEPT ![v] = call]
  BY DEF ImportKey
<1>4. /\ call.hops = calls[v].hops /\ call.i = calls[v].i
      /\ call.trustedSince = calls[v].trustedSince /\ call \in Calls
  BY <1>2 DEF Calls, Inv, TypeOK
<1> HIDE DEF call
<1> QED
  BY <1>2, <1>3, <1>4, CallStepKeepsInv

(* The call goes on with its next hop, or returns a chain that has passed  *)
(* the walk.                                                               *)
LEMMA JwtVerifyKeepsInv ==
  ASSUME Inv, NEW v \in Verifiers, JwtVerify(v)
  PROVE  Inv'
<1> DEFINE call == [calls[v] EXCEPT !.pc = "getKey", !.i = @ + 1, !.checkedAt = 0]
<1>1. calls[v].pc = "jwtVerify" /\ calls[v].pc # "idle"
  BY DEF JwtVerify
<1>2. /\ calls[v] \in Calls /\ calls[v].hops \in Hops
      /\ calls[v].i \in 1 .. Len(calls[v].hops)
      /\ Len(calls[v].hops) \in Nat
      /\ DOMAIN calls[v].hops = 1 .. Len(calls[v].hops)
  BY <1>1, CallTypes, ChainPositions DEF Inv
<1>3. /\ trusted \subseteq calls[v].trustedSince
      /\ \A k \in 1 .. calls[v].i : signer(calls[v].hops[k]) \in calls[v].trustedSince
  BY <1>1 DEF Inv, KeysSeen, KeyFound
<1>4. UNCHANGED <<now, trusted, signed, chains>>
  BY DEF JwtVerify
<1>5. \A hops \in verified' \ verified : hops \in Hops /\ WalkAccepts(hops)
  BY <1>2 DEF JwtVerify, Accepts
<1>6. CASE ~(HopOk(v) /\ ~LastHop(v))
  <2>1. calls' = [calls EXCEPT ![v] = Idle]
    BY <1>6 DEF JwtVerify
  <2> QED
    BY <1>4, <1>5, <2>1, IdleIsACall, CallStepKeepsInv
<1>7. CASE HopOk(v) /\ ~LastHop(v)
  <2>1. calls' = [calls EXCEPT ![v] = call]
    BY <1>7 DEF JwtVerify, nextHop
  <2>2. /\ call.pc = "getKey" /\ call.hops = calls[v].hops /\ call.i = calls[v].i + 1
        /\ call.trustedSince = calls[v].trustedSince
        /\ call \in Calls
    <3>1. PICK next : next = calls[v].i + 1
      OBVIOUS
    <3>2. call = [calls[v] EXCEPT !.pc = "getKey", !.i = next, !.checkedAt = 0]
      BY <3>1
    <3>3. next \in Nat
      BY <1>2, <3>1
    <3> HIDE DEF call
    <3>4. call.pc = "getKey" /\ call.hops = calls[v].hops /\ call.i = next
          /\ call.trustedSince = calls[v].trustedSince /\ call \in Calls
      BY <1>2, <3>2, <3>3 DEF Calls
    <3> QED
      BY <3>1, <3>4
  <2>3. calls[v].i + 1 \in 1 .. Len(calls[v].hops)
    BY <1>2, <1>7 DEF LastHop
  <2>4. \A k \in 1 .. calls[v].i + 1 : k < calls[v].i + 1 => k \in 1 .. calls[v].i
    BY <1>2
  <2> HIDE DEF call
  <2>5. call.i \in DOMAIN call.hops
    BY <1>2, <2>2, <2>3
  <2>6. \A k \in 1 .. call.i : k < call.i \/ call.pc \in KeyFound =>
          signer(call.hops[k]) \in call.trustedSince
    BY <1>3, <2>2, <2>4 DEF KeyFound
  <2> QED
    BY <1>3, <1>4, <1>5, <2>1, <2>2, <2>5, <2>6, CallStepKeepsInv
<1> QED
  BY <1>6, <1>7

(* A key that comes to be trusted is seen by every call in flight.         *)
LEMMA AddKeyKeepsInv ==
  ASSUME Inv, NEW pair \in KeyPairs, addKey(pair[1], pair[2])
  PROVE  Inv'
<1>0. pair = <<pair[1], pair[2]>>
  BY DelegationAssumption
<1>1. /\ Hops' = Hops /\ HopClaims' = HopClaims /\ Calls' = Calls
      /\ \A hops : WalkAccepts(hops)' <=> WalkAccepts(hops)
      /\ \A token : signer(token)' = signer(token)
  BY SameTokens DEF addKey
<1>2. ASSUME NEW v \in Verifiers
      PROVE  /\ calls'[v] \in Calls
             /\ calls'[v].pc = calls[v].pc /\ calls'[v].hops = calls[v].hops
             /\ calls'[v].i = calls[v].i
             /\ calls'[v].pc # "idle" =>
                  calls'[v].trustedSince = calls[v].trustedSince \cup {pair}
  <2>1. calls[v] \in Calls
    BY DEF Inv, TypeOK
  <2>2. calls'[v] = IF calls[v].pc = "idle" THEN calls[v]
                    ELSE [calls[v] EXCEPT !.trustedSince = @ \cup {pair}]
    BY <1>0 DEF addKey
  <2>3. CASE calls[v].pc = "idle"
    BY <2>1, <2>2, <2>3
  <2>4. CASE calls[v].pc # "idle"
    <3>1. calls'[v] = [calls[v] EXCEPT !.trustedSince = @ \cup {pair}]
      BY <2>2, <2>4
    <3> QED
      BY <2>1, <3>1 DEF Calls
  <2> QED
    BY <2>3, <2>4
<1>3. TypeOK'
  <2>1. calls' \in [Verifiers -> Calls]
    BY <1>2 DEF addKey
  <2>2. \A v \in Verifiers : calls'[v].pc # "idle" => calls'[v].i \in DOMAIN calls'[v].hops
    BY <1>2 DEF Inv, TypeOK
  <2>3. trusted' \subseteq KeyPairs
    BY <1>0 DEF addKey, Inv, TypeOK
  <2> QED
    BY <1>1, <2>1, <2>2, <2>3 DEF addKey, Inv, TypeOK
<1>4. ChainsPass' /\ ChainsFit'
  BY <1>1, SameFit DEF addKey, Inv, ChainsPass, ChainsFit
<1>5. KeysSeen'
  <2>1. trusted' = trusted \cup {pair}
    BY <1>0 DEF addKey
  <2> QED
    BY <1>1, <1>2, <2>1 DEF Inv, KeysSeen
<1> QED
  BY <1>3, <1>4, <1>5 DEF Inv

(* The clock and the removal of keys take nothing from the invariant.      *)
LEMMA RestKeepsInv ==
  ASSUME Inv, UNCHANGED <<signed, chains, verified, calls>>,
         now' \in Nat, trusted' \subseteq trusted
  PROVE  Inv'
<1>1. /\ Hops' = Hops /\ HopClaims' = HopClaims /\ Calls' = Calls
      /\ \A hops : WalkAccepts(hops)' <=> WalkAccepts(hops)
      /\ \A token : signer(token)' = signer(token)
  BY SameTokens
<1>2. TypeOK'
  BY <1>1 DEF Inv, TypeOK
<1>3. ChainsPass' /\ ChainsFit'
  BY <1>1, SameFit DEF Inv, ChainsPass, ChainsFit
<1>4. KeysSeen'
  BY <1>1 DEF Inv, KeysSeen
<1> QED
  BY <1>2, <1>3, <1>4 DEF Inv

-----------------------------------------------------------------------------
(* The initial state satisfies the invariant,                              *)
LEMMA InitInv == Init => Inv
<1> SUFFICES ASSUME Init
             PROVE  Inv
  OBVIOUS
<1>1. signed = <<>> /\ calls = [v \in Verifiers |-> Idle]
  BY DEF Init
<1>2. signed \in Seq([kid : Kids, claims : HopClaims])
  BY <1>1
<1>3. calls \in [Verifiers -> Calls] /\ \A v \in Verifiers : calls[v].pc = "idle"
  BY <1>1, IdleIsACall
<1>4. TypeOK
  BY <1>2, <1>3 DEF Init, TypeOK
<1>5. ChainsPass /\ ChainsFit /\ KeysSeen
  BY <1>3 DEF Init, ChainsPass, ChainsFit, KeysSeen
<1> QED
  BY <1>4, <1>5 DEF Inv

(* and every step keeps it.                                                *)
LEMMA NextInv == Inv /\ [Next]_vars => Inv'
<1> SUFFICES ASSUME Inv, [Next]_vars
             PROVE  Inv'
  OBVIOUS
<1>0. now \in Nat
  BY DEF Inv, TypeOK
<1>1. CASE Tick
  BY <1>0, <1>1, RestKeepsInv DEF Tick
<1>2. ASSUME NEW pair \in KeyPairs, addKey(pair[1], pair[2])
      PROVE  Inv'
  BY <1>2, AddKeyKeepsInv
<1>3. ASSUME NEW pair \in KeyPairs, removeKey(pair[1], pair[2])
      PROVE  Inv'
  BY <1>0, <1>3, RestKeepsInv DEF removeKey
<1>4. CASE Mint
  <2>1. ASSUME NEW kid \in Kids, NEW c \in Handmade, NEW p \in 0 .. Len(signed), sign(kid, c, p)
        PROVE  Inv'
    BY <2>1, SignKeepsInv
  <2>2. ASSUME NEW issuer \in Identities, NEW subject \in Identities, NEW kid \in Kids,
               NEW g \in Grants, NEW aud \in Auds, NEW t \in Ttls,
               issueCredential(issuer, subject, kid, g, aud, t)
        PROVE  Inv'
    BY <2>2, IssueKeepsInv
  <2>3. ASSUME NEW from \in PresentedHops, NEW to \in Identities, NEW kid \in Kids,
               NEW g \in Grants, NEW t \in Ttls,
               NEW aud \in Auds \cup {claims(leaf(from)).aud},
               delegate(from, to, kid, g, aud, t)
        PROVE  Inv'
    BY <2>3, DelegateKeepsInv
  <2> QED
    BY <1>4, <2>1, <2>2, <2>3 DEF Mint
<1>5. ASSUME NEW v \in Verifiers, NEW hops \in PresentedHops, verifyChain(v, hops)
      PROVE  Inv'
  BY <1>5, VerifyChainKeepsInv
<1>6. ASSUME NEW v \in Verifiers, GetKey(v)
      PROVE  Inv'
  BY <1>6, GetKeyKeepsInv
<1>7. ASSUME NEW v \in Verifiers, ImportKey(v)
      PROVE  Inv'
  BY <1>7, ImportKeyKeepsInv
<1>8. ASSUME NEW v \in Verifiers, JwtVerify(v)
      PROVE  Inv'
  BY <1>8, JwtVerifyKeepsInv
<1>9. CASE UNCHANGED vars
  BY <1>0, <1>9, RestKeepsInv DEF vars
<1> QED
  BY <1>1, <1>2, <1>3, <1>4, <1>5, <1>6, <1>7, <1>8, <1>9 DEF Next

(* The invariant holds throughout.                                         *)
LEMMA Invariance == Spec => []Inv
BY InitInv, NextInv, PTL DEF Spec

(* Type correctness: claims, chains and calls are what their types say,    *)
(* whoever signed the claims.                                              *)
THEOREM TypeCorrect == Spec => []TypeOK
<1>1. Inv => TypeOK
  BY DEF Inv
<1> QED
  BY <1>1, Invariance, PTL

-----------------------------------------------------------------------------
(* What the walk guarantees of one chain.                                  *)
LEMMA WalkNarrows ==
  ASSUME TypeOK, NEW hops \in Hops, WalkAccepts(hops)
  PROVE  \A j \in 1 .. Len(hops) : \A i \in 1 .. j :
           /\ claims(hops[j]).exp <= claims(hops[i]).exp
           /\ i # j => Covers(claims(hops[i]), claims(hops[j]))
<1> DEFINE n == Len(hops)
           c(i) == claims(hops[i])
           cs == [i \in 1 .. n |-> c(i)]
           es == [i \in 1 .. n |-> c(i).exp]
<1>1. n \in Nat /\ \A i \in 1 .. n : TypedAuthority(c(i)) /\ c(i).exp \in Int
  BY ChainPositions, TokenTypes
<1>2. \A i \in 2 .. n : Covers(c(i - 1), c(i)) /\ c(i).exp <= c(i - 1).exp
  BY DEF WalkAccepts, AdjacentOk, WithinAuthority
<1>3. \A i \in 2 .. n : i \in 1 .. n /\ i - 1 \in 1 .. n
  BY <1>1
<1>4. \A j \in 1 .. n : \A i \in 1 .. j - 1 : Covers(cs[i], cs[j])
  <2>1. /\ \A i \in 1 .. n : TypedAuthority(cs[i])
        /\ \A i \in 2 .. n : Covers(cs[i - 1], cs[i])
    BY <1>1, <1>2, <1>3
  <2> HIDE DEF cs, c, n
  <2> QED
    BY <1>1, <2>1, AdjacentCoversAll
<1>5. \A j \in 1 .. n : \A i \in 1 .. j : es[j] <= es[i]
  <2>1. /\ \A i \in 1 .. n : es[i] \in Int
        /\ \A i \in 2 .. n : es[i] <= es[i - 1]
    BY <1>1, <1>2, <1>3
  <2> HIDE DEF es, c, n
  <2> QED
    BY <1>1, <2>1, AdjacentNonIncreasing
<1> HIDE DEF c, n
<1>6. \A j \in 1 .. n : \A i \in 1 .. j : i \in 1 .. n /\ (i # j => i \in 1 .. j - 1)
  BY <1>1
<1>7. \A j \in 1 .. n : \A i \in 1 .. j :
        c(j).exp <= c(i).exp /\ (i # j => Covers(c(i), c(j)))
  BY <1>4, <1>5, <1>6
<1> QED
  BY <1>7 DEF c, n

(* A verified chain narrows end to end, for every request and every depth. *)
THEOREM VerifiedNarrowsHolds == Spec => []VerifiedNarrows
<1>1. Inv => VerifiedNarrows
  <2> SUFFICES ASSUME Inv, NEW hops \in verified, NEW j \in DOMAIN hops, NEW i \in 1 .. j
               PROVE  /\ claims(hops[j]).exp <= claims(hops[i]).exp
                      /\ \A request \in AskedRequests :
                           ClaimsAllow(claims(hops[j]), request) =>
                             ClaimsAllow(claims(hops[i]), request)
    BY DEF VerifiedNarrows
  <2>1. TypeOK /\ hops \in Hops /\ WalkAccepts(hops)
    BY DEF Inv, TypeOK, ChainsPass
  <2>2. j \in 1 .. Len(hops) /\ i \in 1 .. Len(hops)
    BY <2>1, ChainPositions
  <2>3. TypedAuthority(claims(hops[i])) /\ TypedAuthority(claims(hops[j]))
    BY <2>1, <2>2, ChainPositions, TokenTypes
  <2>4. /\ claims(hops[j]).exp <= claims(hops[i]).exp
        /\ i # j => Covers(claims(hops[i]), claims(hops[j]))
    BY <2>1, <2>2, WalkNarrows
  <2>5. ASSUME NEW request \in AskedRequests, ClaimsAllow(claims(hops[j]), request)
        PROVE  ClaimsAllow(claims(hops[i]), request)
    BY <2>3, <2>4, <2>5, NarrowingIsSound, DelegationAssumption
  <2> QED
    BY <2>4, <2>5
<1> QED
  BY <1>1, Invariance, PTL

(* Whatever signed hops delegation starts from, what it returns passes the *)
(* walk exactly if they do.                                                *)
THEOREM DelegationKeepsTheWalkHolds == Spec => []DelegationKeepsTheWalk
<1>1. Inv => DelegationKeepsTheWalk
  <2> SUFFICES ASSUME Inv, NEW hops \in chains
               PROVE  LET from == SubSeq(hops, 1, Len(hops) - 1)
                      IN  WalkAccepts(hops) <=> from = <<>> \/ WalkAccepts(from)
    BY DEF DelegationKeepsTheWalk
  <2>1. /\ hops \in Hops /\ hops \in Seq(1 .. Len(signed)) /\ LastHopFits(hops)
        /\ Len(hops) \in Nat \ {0}
    BY ChainPositions DEF Inv, TypeOK, ChainsFit, Hops
  <2>2. PICK from : from = SubSeq(hops, 1, Len(hops) - 1)
    OBVIOUS
  <2>3. /\ Len(from) = Len(hops) - 1
        /\ \A i \in 1 .. Len(hops) - 1 : from[i] = hops[i]
        /\ from = <<>> <=> Len(hops) = 1
    <3> DEFINE S == 1 .. Len(signed)
    <3>1. PICK m : m = Len(hops) - 1
      OBVIOUS
    <3>2. hops \in Seq(S) /\ m \in Nat /\ m <= Len(hops)
      BY <2>1, <3>1
    <3> HIDE DEF S
    <3>3. from = SubSeq(hops, 1, m)
      BY <2>2, <3>1
    <3>4. /\ from \in Seq(S) /\ Len(from) = m
          /\ \A i \in 1 .. m : from[i] = hops[i]
      BY <3>2, <3>3
    <3>5. from = <<>> <=> m = 0
      BY <3>4
    <3> QED
      BY <2>1, <3>1, <3>4, <3>5
  <2>4. CASE Len(hops) = 1
    <3>1. WalkAccepts(hops)
      BY <2>4, <2>1 DEF LastHopFits, WalkAccepts
    <3> QED
      BY <2>2, <2>3, <2>4, <3>1
  <2>5. CASE Len(hops) # 1
    <3>1. /\ AdjacentOk(hops[Len(hops) - 1], hops[Len(hops)])
          /\ from # <<>> /\ from[1] = hops[1]
      BY <2>1, <2>3, <2>5 DEF LastHopFits
    <3>2. \A i \in 2 .. Len(hops) - 1 : from[i] = hops[i] /\ from[i - 1] = hops[i - 1]
      <4>1. \A i \in 2 .. Len(hops) - 1 : i \in 1 .. Len(hops) - 1 /\ i - 1 \in 1 .. Len(hops) - 1
        BY <2>1
      <4> QED
        BY <2>3, <4>1
    <3>3. \A i \in 2 .. Len(hops) : i = Len(hops) \/ i \in 2 .. Len(hops) - 1
      BY <2>1
    <3>4. \A i \in 2 .. Len(hops) - 1 : i \in 2 .. Len(hops)
      BY <2>1
    <3>5. WalkAccepts(hops) <=> WalkAccepts(from)
      BY <2>3, <3>1, <3>2, <3>3, <3>4 DEF WalkAccepts
    <3> QED
      BY <2>2, <3>1, <3>5
  <2> QED
    BY <2>4, <2>5
<1> QED
  BY <1>1, Invariance, PTL

(* Two chains that pass the walk and meet in a hop are the same up to it:  *)
(* the first place where they would not be has a predecessor, which the    *)
(* hop names by its hash, or is the root of both.                          *)
LEMMA WalkDeterminesLineage ==
  ASSUME TypeOK, NEW g \in Hops, NEW h \in Hops, WalkAccepts(g), WalkAccepts(h)
  PROVE  \A i \in 1 .. Len(g) : \A j \in 1 .. Len(h) :
           g[i] = h[j] => i = j /\ \A k \in 1 .. i : g[k] = h[k]
<1> DEFINE Same(i, j) == i = j /\ \A k \in 1 .. i : g[k] = h[k]
           T == {i \in 1 .. Len(g) : \E j \in 1 .. Len(h) : g[i] = h[j] /\ ~Same(i, j)}
<1>0. /\ Len(g) \in Nat /\ Len(h) \in Nat
      /\ \A i \in 1 .. Len(g) : g[i] \in 1 .. Len(signed)
      /\ \A i \in 1 .. Len(h) : h[i] \in 1 .. Len(signed)
  BY ChainPositions
<1> SUFFICES ASSUME T # {}
             PROVE  FALSE
  OBVIOUS
<1>1. PICK i \in T : \A m \in T : i <= m
  <2>1. T \in SUBSET Nat
    BY <1>0
  <2> HIDE DEF T
  <2> QED
    BY <2>1, LeastElement
<1>2. PICK j \in 1 .. Len(h) : g[i] = h[j] /\ ~Same(i, j)
  BY <1>1
<1>3. i \in 1 .. Len(g)
  BY <1>1
<1>4. /\ claims(g[1]).parentHopHash = 0 /\ claims(h[1]).parentHopHash = 0
      /\ \A k \in 2 .. Len(g) : claims(g[k]).parentHopHash = g[k - 1]
      /\ \A k \in 2 .. Len(h) : claims(h[k]).parentHopHash = h[k - 1]
  BY DEF WalkAccepts, AdjacentOk, NoParent
<1>5. CASE i = 1
  <2>1. claims(h[j]).parentHopHash = 0
    BY <1>2, <1>4, <1>5
  <2>2. j = 1
    <3>1. ASSUME j \in 2 .. Len(h)
          PROVE  h[j - 1] # 0
      <4>1. j - 1 \in 1 .. Len(h)
        BY <1>0, <3>1
      <4>2. h[j - 1] \in 1 .. Len(signed)
        BY <1>0, <4>1
      <4> QED
        BY <4>2
    <3> QED
      BY <1>0, <1>4, <2>1, <3>1
  <2>3. \A k \in 1 .. i : k = 1
    BY <1>5
  <2> QED
    BY <1>2, <1>5, <2>2, <2>3
<1>6. CASE i # 1
  <2>1. i \in 2 .. Len(g) /\ i - 1 \in 1 .. Len(g)
    BY <1>0, <1>3, <1>6
  <2>2. claims(g[i]).parentHopHash = g[i - 1] /\ g[i - 1] # 0
    BY <1>0, <1>4, <2>1
  <2>3. j \in 2 .. Len(h) /\ j - 1 \in 1 .. Len(h)
    <3>1. j # 1
      BY <1>2, <1>4, <2>2
    <3> QED
      BY <1>0, <3>1
  <2>4. g[i - 1] = h[j - 1]
    BY <1>2, <1>4, <2>2, <2>3
  <2>5. i - 1 \notin T
    BY <1>0, <1>1, <1>3, <2>1
  <2>6. Same(i - 1, j - 1)
    BY <2>1, <2>3, <2>4, <2>5
  <2>7. i = j
    BY <1>0, <2>1, <2>3, <2>6
  <2>8. \A k \in 1 .. i : k \in 1 .. i - 1 \/ k = i
    BY <2>1, <1>0
  <2>9. \A k \in 1 .. i : g[k] = h[k]
    BY <1>2, <2>6, <2>7, <2>8
  <2> QED
    BY <1>2, <2>7, <2>9
<1> QED
  BY <1>5, <1>6

(* A hop has one lineage, among any number of verified chains.             *)
THEOREM OneLineageHolds == Spec => []OneLineage
<1>1. Inv => OneLineage
  <2> SUFFICES ASSUME Inv, NEW g \in verified, NEW h \in verified,
                      NEW i \in DOMAIN g, NEW j \in DOMAIN h, g[i] = h[j]
               PROVE  i = j /\ \A k \in 1 .. i : g[k] = h[k]
    BY DEF OneLineage
  <2>1. /\ TypeOK /\ g \in Hops /\ h \in Hops
        /\ WalkAccepts(g) /\ WalkAccepts(h)
    BY DEF Inv, TypeOK, ChainsPass
  <2>2. i \in 1 .. Len(g) /\ j \in 1 .. Len(h)
    BY <2>1, ChainPositions
  <2> QED
    BY <2>1, <2>2, WalkDeterminesLineage
<1> QED
  BY <1>1, Invariance, PTL

-----------------------------------------------------------------------------
(* What a call that accepts has at hand.                                   *)
LEMMA AcceptingCall ==
  ASSUME Inv, NEW v \in Verifiers, Accepts(v)
  PROVE  /\ calls[v].hops \in Hops
         /\ WalkAccepts(calls[v].hops)
         /\ calls[v].i = Len(calls[v].hops)
         /\ \A k \in 1 .. Len(calls[v].hops) :
              signer(calls[v].hops[k]) \in calls[v].trustedSince
<1>1. calls[v].pc = "jwtVerify" /\ calls[v].pc # "idle"
  BY DEF Accepts
<1>2. WalkAccepts(calls[v].hops) /\ calls[v].i = Len(calls[v].hops)
  BY DEF Accepts, LastHop
<1>3. calls[v].hops \in Hops
  BY <1>1, CallTypes DEF Inv
<1>4. \A k \in 1 .. calls[v].i : signer(calls[v].hops[k]) \in calls[v].trustedSince
  BY <1>1 DEF Inv, KeysSeen, KeyFound
<1> QED
  BY <1>2, <1>3, <1>4

(* A hop counts only under a key that its holder was trusted to sign with  *)
(* at some moment of the call.                                             *)
THEOREM AcceptedUnderTrustedKeysHolds == Spec => AcceptedUnderTrustedKeys
<1> DEFINE Holder(hops, i) == IF i = 1 THEN claims(hops[1]).iss ELSE claims(hops[i - 1]).sub
           Vouched == \A v \in Verifiers : Accepts(v) =>
                        LET hops == calls[v].hops
                        IN  \A i \in DOMAIN hops :
                              LET holder == IF i = 1 THEN claims(hops[1]).iss
                                            ELSE claims(hops[i - 1]).sub
                              IN  <<holder, signed[hops[i]].kid>> \in calls[v].trustedSince
<1>1. Inv => Vouched
  <2> SUFFICES ASSUME Inv, NEW v \in Verifiers, Accepts(v), NEW i \in DOMAIN calls[v].hops
               PROVE  <<Holder(calls[v].hops, i), signed[calls[v].hops[i]].kid>>
                        \in calls[v].trustedSince
    OBVIOUS
  <2> DEFINE hops == calls[v].hops
  <2>1. /\ hops \in Hops /\ WalkAccepts(hops) /\ DOMAIN hops = 1 .. Len(hops)
        /\ Len(hops) \in Nat
        /\ signer(hops[i]) \in calls[v].trustedSince
    BY AcceptingCall, ChainPositions
  <2>2. Holder(hops, i) = claims(hops[i]).iss
    <3>1. i # 1 => i \in 2 .. Len(hops)
      BY <2>1
    <3> QED
      BY <2>1, <3>1 DEF WalkAccepts, AdjacentOk
  <2> QED
    BY <2>1, <2>2 DEF signer
<1>2. Inv => [Vouched]_vars
  BY <1>1
<1>3. [][Vouched]_vars => AcceptedUnderTrustedKeys
  BY DEF AcceptedUnderTrustedKeys
<1> HIDE DEF Vouched
<1> QED
  BY <1>2, <1>3, Invariance, PTL

(* The hops of an accepted chain were all alive when the clock was read    *)
(* for the leaf, the first of them to expire.                              *)
THEOREM AcceptedHopsLivedTogetherHolds == Spec => AcceptedHopsLivedTogether
<1> DEFINE Alive == \A v \in Verifiers : Accepts(v) =>
                      \A i \in DOMAIN calls[v].hops :
                        calls[v].checkedAt < claims(calls[v].hops[i]).exp
<1>1. Inv => Alive
  <2> SUFFICES ASSUME Inv, NEW v \in Verifiers, Accepts(v), NEW i \in DOMAIN calls[v].hops
               PROVE  calls[v].checkedAt < claims(calls[v].hops[i]).exp
    OBVIOUS
  <2> DEFINE hops == calls[v].hops
             moment == calls[v].checkedAt
  <2>1. /\ hops \in Hops /\ WalkAccepts(hops) /\ DOMAIN hops = 1 .. Len(hops)
        /\ Len(hops) \in Nat \ {0} /\ TypeOK
    BY AcceptingCall, ChainPositions DEF Inv
  <2>2. moment < claims(hops[Len(hops)]).exp
    BY AcceptingCall DEF Accepts, HopOk, Unexpired, Hop
  <2>3. /\ i \in 1 .. Len(hops) /\ Len(hops) \in 1 .. Len(hops)
    BY <2>1
  <2>4. claims(hops[Len(hops)]).exp <= claims(hops[i]).exp
    BY <2>1, <2>3, WalkNarrows
  <2>5. moment \in Int
    <3>1. calls[v] \in Calls
      BY <2>1 DEF TypeOK
    <3> QED
      BY <3>1 DEF Calls
  <2>6. claims(hops[Len(hops)]).exp \in Int /\ claims(hops[i]).exp \in Int
    BY <2>1, <2>3, ChainPositions, TokenTypes
  <2> HIDE DEF hops, moment
  <2>7. moment < claims(hops[i]).exp
    BY <2>2, <2>4, <2>5, <2>6
  <2> QED
    BY <2>7 DEF hops, moment
<1>2. Inv => [Alive]_vars
  BY <1>1
<1>3. [][Alive]_vars => AcceptedHopsLivedTogether
  BY DEF AcceptedHopsLivedTogether
<1> HIDE DEF Alive
<1> QED
  BY <1>2, <1>3, Invariance, PTL
=============================================================================
