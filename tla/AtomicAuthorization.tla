------------------------ MODULE AtomicAuthorization ------------------------
(***************************************************************************)
(* What authorize() promises, as if a decision took no time at all: a call *)
(* may be allowed only if the chain was eligible when the call was made    *)
(* and its leaf is still alive when it returns, and may be denied only if  *)
(* the chain is not eligible when it returns or the revocation store       *)
(* failed to answer.  How many awaits lie in between is not said.          *)
(***************************************************************************)
EXTENDS Eligibility

VARIABLES now, revoked, call
vars == <<now, revoked, call>>

Moment == [now |-> now, revoked |-> revoked]
NoCall == [state |-> "idle"]

Init == /\ now = 0
        /\ revoked = {}
        /\ call = [c \in Callers |-> NoCall]

Tick == now < MaxNow /\ now' = now + 1 /\ UNCHANGED <<revoked, call>>

Revoke(jti) == revoked' = revoked \cup {jti} /\ UNCHANGED <<now, call>>

Ask(c, hops, request) ==
  /\ call[c].state \in {"idle", "allowed", "denied"}
  /\ WellFormed(request)
  /\ call' = [call EXCEPT ![c] = [state |-> "asked", hops |-> hops, request |-> request,
                                  asked |-> Moment, failed |-> FALSE]]
  /\ UNCHANGED <<now, revoked>>

StoreFails(c) ==
  /\ call[c].state = "asked"
  /\ call' = [call EXCEPT ![c].failed = TRUE]
  /\ UNCHANGED <<now, revoked>>

Allow(c) ==
  /\ call[c].state = "asked" /\ ~call[c].failed
  /\ Eligible(call[c].hops, call[c].request, call[c].asked)
  /\ \A i \in DOMAIN call[c].hops : now < call[c].hops[i].exp
  /\ call' = [call EXCEPT ![c].state = "allowed"]
  /\ UNCHANGED <<now, revoked>>

Deny(c) ==
  /\ call[c].state = "asked"
  /\ call[c].failed \/ ~Eligible(call[c].hops, call[c].request, Moment)
  /\ call' = [call EXCEPT ![c].state = "denied"]
  /\ UNCHANGED <<now, revoked>>

Next ==
  \/ Tick
  \/ \E jti \in Jtis : Revoke(jti)
  \/ \E c \in Callers, hops \in Chains, request \in AskedRequests : Ask(c, hops, request)
  \/ \E c \in Callers : StoreFails(c) \/ Allow(c) \/ Deny(c)

Spec == Init /\ [][Next]_vars
=============================================================================
