---------------------------- MODULE GuardedTool ----------------------------
(***************************************************************************)
(* What the MCP middleware promises, as if verifying, authorizing and      *)
(* recording took no time: a request runs the tool only if the hops it     *)
(* carries entitled it when it arrived, and is refused only for a cause.   *)
(* The server may stop at any moment, forgetting its requests and what it  *)
(* learnt about keys.  When it starts again, what was revoked is still     *)
(* revoked if revocations are durable, and forgotten if they are not.      *)
(***************************************************************************)
EXTENDS ToolRequests

CONSTANTS
  KeysAtStart,              \* the keys trusted by a server that starts
  Durable                   \* whether revocations outlive the server

VARIABLES now, trusted, revoked, request, up
vars == <<now, trusted, revoked, request, up>>

NoRequest == [state |-> "none"]
InFlight(c) == request[c].state = "pending"

Init ==
  /\ now = 0
  /\ trusted = KeysAtStart
  /\ revoked = {}
  /\ request = [c \in Clients |-> NoRequest]
  /\ up = TRUE

Tick == now < MaxNow /\ now' = now + 1 /\ UNCHANGED <<trusted, revoked, request, up>>

(* `once` and `always`: the keys that were trusted at some moment since    *)
(* the request arrived, and throughout.                                    *)
Trust(keys) ==
  /\ up
  /\ trusted' = keys
  /\ request' = [c \in Clients |->
                   IF InFlight(c) THEN [request[c] EXCEPT !.once = @ \cup keys, !.always = @ \cap keys]
                   ELSE request[c]]
  /\ UNCHANGED <<now, revoked, up>>

(* Without a server there is nobody to tell, unless it is a database.      *)
Revoke(token) ==
  /\ up \/ Durable
  /\ revoked' = revoked \cup {token}
  /\ UNCHANGED <<now, trusted, request, up>>

Arrive(c, hops, asked) ==
  /\ up /\ ~InFlight(c)
  /\ request' = [request EXCEPT ![c] =
                   [state |-> "pending", hops |-> hops, asked |-> asked, failed |-> FALSE,
                    arrived |-> [now |-> now, revoked |-> revoked],
                    once |-> trusted, always |-> trusted]]
  /\ UNCHANGED <<now, trusted, revoked, up>>

(* The revocation store could not be reached on behalf of the request.     *)
StoreFails(c) ==
  /\ InFlight(c)
  /\ request' = [request EXCEPT ![c].failed = TRUE]
  /\ UNCHANGED <<now, trusted, revoked, up>>

Run(c) ==
  /\ InFlight(c) /\ ~request[c].failed
  /\ WholeLineage(request[c].hops)
  /\ Vouched(request[c].hops, request[c].once)
  /\ WellFormed(request[c].asked)
  /\ Entitled(request[c].hops, request[c].asked, request[c].arrived)
  /\ request' = [request EXCEPT ![c] = [state |-> "ran"]]
  /\ UNCHANGED <<now, trusted, revoked, up>>

Refuse(c) ==
  /\ InFlight(c)
  /\ ~ /\ WellMade(request[c].hops)
       /\ Vouched(request[c].hops, request[c].always)
       /\ WellFormed(request[c].asked)
       /\ Entitled(request[c].hops, request[c].asked, [now |-> now, revoked |-> revoked])
       /\ ~request[c].failed
  /\ request' = [request EXCEPT ![c] = [state |-> "refused"]]
  /\ UNCHANGED <<now, trusted, revoked, up>>

Stop ==
  /\ up /\ up' = FALSE
  /\ trusted' = {}
  /\ request' = [c \in Clients |-> NoRequest]
  /\ UNCHANGED <<now, revoked>>

Start ==
  /\ ~up /\ up' = TRUE
  /\ trusted' = KeysAtStart
  /\ revoked' = IF Durable THEN revoked ELSE {}
  /\ UNCHANGED <<now, request>>

Next ==
  \/ Tick \/ Stop \/ Start
  \/ \E keys \in SUBSET KeyPairs : Trust(keys)
  \/ \E token \in DOMAIN Tokens : Revoke(token)
  \/ \E c \in Clients : \/ \E hops \in Presented, asked \in AskedRequests : Arrive(c, hops, asked)
                        \/ StoreFails(c) \/ Run(c) \/ Refuse(c)

Spec == Init /\ [][Next]_vars
=============================================================================
