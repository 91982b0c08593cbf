------------------------------- MODULE Stores -------------------------------
(***************************************************************************)
(* What the three stores promise, taken from the in-memory ones: an        *)
(* operation takes effect and is answered in one step, or it throws and    *)
(* has no effect.  Stated for several processes that share stores which    *)
(* never forget, since that is what durable ones are for.                  *)
(*                                                                         *)
(* The order of what query() returns is not promised.  An answer is a      *)
(* record whose one field names its kind.                                  *)
(***************************************************************************)
EXTENDS FiniteSets, SequencesExt

CONSTANT Processes    \* the programs that have the stores open

VARIABLES
  identities,         \* the identities stored, by id
  revoked,            \* the hop ids revoked
  events,             \* the audit events appended
  call                \* the operation each process is in
vars == <<identities, revoked, events, call>>

Operations == {"put", "get", "revoke", "isRevoked", "append", "query"}
NoCall == [op |-> "none", done |-> TRUE]
Result(string) == [result |-> string]
Pending == Result("pending")

Does(p, op) == call[p].op = op /\ ~call[p].done
Answer(p, answer) == call' = [call EXCEPT ![p].done = TRUE, ![p].answer = answer]

(* An event meets a filter if it does on each field the filter has.        *)
matches(event, filter) == \A field \in DOMAIN filter : event[field] = filter[field]

Init ==
  /\ identities = <<>>
  /\ revoked = {} /\ events = {}
  /\ call = [p \in Processes |-> NoCall]

(* A call with any argument.                                               *)
Call(p) ==
  /\ call[p].done
  /\ LET called == call'[p]
     IN  /\ ~called.done /\ called.answer = Pending /\ called.op \in Operations
         /\ call' = [call EXCEPT ![p] = called]
  /\ UNCHANGED <<identities, revoked, events>>

(* An identity that is there is never overwritten.                         *)
put(p) ==
  LET identity == call[p].arg
  IN  /\ Does(p, "put")
      /\ \/ /\ identity.id \in DOMAIN identities
            /\ Answer(p, Result("DuplicateIdentityError")) /\ UNCHANGED identities
         \/ /\ identity.id \notin DOMAIN identities
            /\ Answer(p, Result("stored"))
            /\ identities' = [id \in DOMAIN identities \cup {identity.id} |->
                                IF id = identity.id THEN identity ELSE identities[id]]
      /\ UNCHANGED <<revoked, events>>

get(p) ==
  /\ Does(p, "get")
  /\ Answer(p, IF call[p].arg \in DOMAIN identities THEN [identity |-> identities[call[p].arg]]
               ELSE Result("null"))
  /\ UNCHANGED <<identities, revoked, events>>

revoke(p) ==
  /\ Does(p, "revoke") /\ Answer(p, Result("done"))
  /\ revoked' = revoked \cup {call[p].arg}
  /\ UNCHANGED <<identities, events>>

isRevoked(p) ==
  /\ Does(p, "isRevoked") /\ Answer(p, [revoked |-> call[p].arg \in revoked])
  /\ UNCHANGED <<identities, revoked, events>>

append(p) ==
  /\ Does(p, "append") /\ Answer(p, Result("done"))
  /\ events' = events \cup {call[p].arg}
  /\ UNCHANGED <<identities, revoked>>

query(p) ==
  /\ Does(p, "query")
  /\ Answer(p, [events |-> {event \in events : matches(event, call[p].arg)}])
  /\ UNCHANGED <<identities, revoked, events>>

Throw(p) ==
  /\ ~call[p].done /\ Answer(p, Result("thrown"))
  /\ UNCHANGED <<identities, revoked, events>>

(* A process that stops leaves its call and nothing else behind.           *)
Stop(p) ==
  /\ call'[p] = NoCall /\ call' = [call EXCEPT ![p] = NoCall]
  /\ UNCHANGED <<identities, revoked, events>>

Next ==
  \E p \in Processes :
    \/ Call(p)
    \/ Stop(p)
    \/ /\ ~call[p].done
       /\ \/ put(p) \/ get(p) \/ revoke(p) \/ isRevoked(p) \/ append(p) \/ query(p)
          \/ Throw(p)

Spec == Init /\ [][Next]_vars
=============================================================================
