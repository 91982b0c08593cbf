--------------------------- MODULE Authorization ---------------------------
(***************************************************************************)
(* authorize() of src/src/authorization/authorize.ts against a revocation  *)
(* store that others write to while calls are in flight.  A call awaits    *)
(* the store once for every hop of its chain; the store reads at a moment  *)
(* of its own and the call resumes later, so revocations, other calls and  *)
(* time fall between any two steps.  What follows the last await runs to   *)
(* the end without giving up control.                                      *)
(***************************************************************************)
EXTENDS Eligibility

VARIABLES
  now,        \* seconds of the Clock
  revoked,    \* RevocationStore: the hop ids revoked so far, never removed
  call        \* the authorize() call of each caller
vars == <<now, revoked, call>>

Moment == [now |-> now, revoked |-> revoked]

Denials == {"credential_revoked", "credential_expired", "audience_mismatch",
            "no_matching_capability", "policy_rejected"}
NoCall == [pc |-> "idle"]

Init == /\ now = 0
        /\ revoked = {}
        /\ call = [c \in Callers |-> NoCall]

Tick == now < MaxNow /\ now' = now + 1 /\ UNCHANGED <<revoked, call>>

(* revoke(): the leaf of the chain it is given, which may be a truncation  *)
(* of one that is in use.                                                  *)
revoke(hops) ==
  /\ revoked' = revoked \cup {hops[Len(hops)].jti}
  /\ UNCHANGED <<now, call>>

(* A request that assertConcrete rejects throws before the first await.    *)
(* `asked` and `failed` are history: the moment the call was made, and     *)
(* whether the store failed during it.                                     *)
authorize(c, hops, request) ==
  /\ call[c].pc \in {"idle", "returned"}
  /\ WellFormed(request)
  /\ call' = [call EXCEPT ![c] = [pc |-> "isRevoked", hops |-> hops, request |-> request, i |-> 1,
                                  answer |-> FALSE, decision |-> "none",
                                  asked |-> Moment, failed |-> FALSE]]
  /\ UNCHANGED <<now, revoked>>

isRevoked(jti) == jti \in revoked

StoreAnswers(c) ==
  /\ call[c].pc = "isRevoked"
  /\ call' = [call EXCEPT ![c].pc = "resume",
                          ![c].answer = isRevoked(call[c].hops[call[c].i].jti)]
  /\ UNCHANGED <<now, revoked>>

(* The store rejects: the catch takes the hop for revoked.  The slip takes *)
(* it for unrevoked.                                                       *)
SlipFailsOpen == FALSE
whenStoreFails == TRUE

StoreFails(c) ==
  /\ call[c].pc = "isRevoked"
  /\ call' = [call EXCEPT ![c].pc = "resume", ![c].answer = whenStoreFails, ![c].failed = TRUE]
  /\ UNCHANGED <<now, revoked>>

(* After the last hop: the leaf's expiry, audience, capabilities, and the  *)
(* policy on every capability that matched, each the first to fail.  The   *)
(* slips: the root is read in place of the leaf, a hop lives through its   *)
(* last second, the policy must accept every capability that matched.      *)
SlipRoot(hops) == hops[1]
leaf(hops) == hops[Len(hops)]

SlipOffByOne(claims) == now > claims.exp
Expired(claims) == now >= claims.exp

SlipEveryMatch(claims, request) ==
  \A cap \in structuralMatches(claims, request) : evaluate(cap, request.context)
PolicyAllows(claims, request) ==
  \E cap \in structuralMatches(claims, request) : evaluate(cap, request.context)

decide(claims, request) ==
  IF Expired(claims) THEN "credential_expired"
  ELSE IF ~matchAnyPattern(claims.aud, request.resource) THEN "audience_mismatch"
  ELSE IF structuralMatches(claims, request) = {} THEN "no_matching_capability"
  ELSE IF PolicyAllows(claims, request) THEN "allow" ELSE "policy_rejected"

Return(c, decision) == call' = [call EXCEPT ![c].pc = "returned", ![c].decision = decision]

(* The loop over the hops.  The slips: it runs one hop past the end; it    *)
(* asks about the same hop again.                                          *)
SlipPastEnd(c) == call[c].i > Len(call[c].hops)
LastHop(c) == call[c].i = Len(call[c].hops)
SlipSameHop(c) == call' = [call EXCEPT ![c].pc = "isRevoked"]
NextHop(c) == call' = [call EXCEPT ![c].pc = "isRevoked", ![c].i = @ + 1]

Resume(c) ==
  /\ call[c].pc = "resume"
  /\ \/ call[c].answer /\ Return(c, "credential_revoked")
     \/ ~call[c].answer /\ ~LastHop(c) /\ NextHop(c)
     \/ /\ ~call[c].answer /\ LastHop(c)
        /\ Return(c, decide(leaf(call[c].hops), call[c].request))
  /\ UNCHANGED <<now, revoked>>

Next ==
  \/ Tick
  \/ \E hops \in Chains : \E n \in 1 .. Len(hops) : revoke(SubSeq(hops, 1, n))
  \/ \E c \in Callers, hops \in Chains, request \in AskedRequests : authorize(c, hops, request)
  \/ \E c \in Callers : StoreAnswers(c) \/ StoreFails(c) \/ Resume(c)

Spec == Init /\ [][Next]_vars

(* isRevoked() settles one way or the other, and the runtime resumes a     *)
(* call whose await is over.                                               *)
Fairness == \A c \in Callers : /\ WF_vars(StoreAnswers(c) \/ StoreFails(c))
                               /\ WF_vars(Resume(c))
FairSpec == Spec /\ Fairness

-----------------------------------------------------------------------------
Moments == [now : Nat, revoked : SUBSET Jtis]
CallStates == [pc : {"isRevoked", "resume", "returned"}, hops : Chains, request : AskedRequests,
               i : Nat, answer : BOOLEAN, decision : Denials \cup {"none", "allow"},
               asked : Moments, failed : BOOLEAN]

TypeOK ==
  /\ now \in Nat
  /\ revoked \subseteq Jtis
  /\ call \in [Callers -> CallStates \cup {NoCall}]
  /\ \A c \in Callers : call[c] # NoCall => /\ call[c].i \in DOMAIN call[c].hops
                                            /\ WellFormed(call[c].request)

Returned(c) == call[c].pc = "returned"

(* An allow was right when the call was made: every hop, not only the leaf *)
(* whose claims were read, was then unrevoked, unexpired and sufficient,   *)
(* although each hop was looked up at a different moment.  A hop revoked   *)
(* before a chain is presented is therefore always noticed, wherever in    *)
(* the chain it is, and a store that fails never leads to an allow.        *)
AllowedWasEligible ==
  \A c \in Callers : Returned(c) /\ call[c].decision = "allow" =>
    Eligible(call[c].hops, call[c].request, call[c].asked) /\ ~call[c].failed

(* A denial is right when it is returned: unless the store failed, the     *)
(* chain is then no longer eligible, so no holder is refused on account of *)
(* someone else's hop, another call's answer, or an expiry yet to come.    *)
DeniedForACause ==
  \A c \in Callers : Returned(c) /\ call[c].decision \in Denials =>
    call[c].failed \/ ~Eligible(call[c].hops, call[c].request, Moment)

(* No hop has expired at the moment an allow is returned, however long the *)
(* store took: the clock is read after the last await, and only for the    *)
(* leaf.                                                                   *)
AllowedWhileEveryHopLives ==
  [][ \A c \in Callers :
        ~Returned(c) /\ Returned(c)' /\ call'[c].decision = "allow" =>
          \A i \in DOMAIN call[c].hops : now' < call[c].hops[i].exp ]_vars

(* Every call returns a decision, also when the store fails on the way.    *)
CallsReturn == \A c \in Callers : call[c].pc \in {"isRevoked", "resume"} ~> Returned(c)

-----------------------------------------------------------------------------
(* authorize(), with its awaits, implements the decision that takes no     *)
(* time: the abstract call forgets the loop over the hops and the reason   *)
(* of a denial.                                                            *)
AbstractCall(c) ==
  IF call[c].pc = "idle" THEN [state |-> "idle"]
  ELSE [ state |-> CASE ~Returned(c) -> "asked"
                     [] Returned(c) /\ call[c].decision = "allow" -> "allowed"
                     [] OTHER -> "denied",
         hops |-> call[c].hops, request |-> call[c].request,
         asked |-> call[c].asked, failed |-> call[c].failed ]

abstractCalls == [c \in Callers |-> AbstractCall(c)]

Atomic == INSTANCE AtomicAuthorization WITH call <- abstractCalls
ImplementsAtomic == Atomic!Spec
=============================================================================
