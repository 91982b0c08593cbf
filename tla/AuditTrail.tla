----------------------------- MODULE AuditTrail -----------------------------
(***************************************************************************)
(* The audit wrappers of src/src/audit: audited*() calls the operation it  *)
(* wraps, unmodified, then builds an event from the result and hands it to *)
(* an emitter, which chains it to its last event, notifies the listeners   *)
(* and appends it to a sink.  Several calls share an emitter, and several  *)
(* emitters, of processes that come and go, may share a durable sink.      *)
(*                                                                         *)
(* An event's id is a fresh uuid, here its emitter and a count.  The hash  *)
(* of an event stands for all of its content, so it is the event itself,   *)
(* as a sequence of one; an absent hash is the empty sequence.             *)
(* Sinks are those the repository ships: append() inserts, or throws,      *)
(* before it returns its promise.                                          *)
(***************************************************************************)
EXTENDS SequencesExt, Trails

CONSTANTS
  Callers,            \* concurrent audited*() calls
  Emitters,           \* AuditEmitter instances over one sink
  HashChaining,       \* those created with hashChain: true
  Listeners,          \* what may subscribe to them
  Throwing,           \* the listeners that throw when they are notified
  Types,              \* which of the audited*() functions are called
  MaxEvents           \* bound on the events the emitters build

NoEmitter == "none"   \* options.emitter left out
AuditEventTypes == {"authorization", "delegation", "revocation", "credential_issued"}

ASSUME AuditAssumption ==
  /\ HashChaining \subseteq Emitters /\ NoEmitter \notin Emitters
  /\ Throwing \subseteq Listeners
  /\ Types \subseteq AuditEventTypes
  /\ MaxEvents \in Nat

VARIABLES
  running,        \* the emitters whose process has not stopped
  listeners,      \* the listeners subscribed to each, in order
  lastHash,       \* hash of the last event each has built
  sink,           \* the events in the sink
  calls,          \* the audited*() call of each caller
  built,          \* history: the events each emitter has built, in order
  heard,          \* history: the ids of the events each listener was given
  reported        \* history: the ids onSinkError was called for
vars == <<running, listeners, lastHash, sink, calls, built, heard, reported>>

Idle == [pc |-> "idle"]
NoHash == <<>>

Init ==
  /\ running = Emitters
  /\ listeners = [e \in Emitters |-> <<>>]
  /\ lastHash = [e \in Emitters |-> NoHash]
  /\ sink = <<>>
  /\ calls = [c \in Callers |-> Idle]
  /\ built = [e \in Emitters |-> <<>>]
  /\ heard = [l \in Listeners |-> {}]
  /\ reported = {}

-----------------------------------------------------------------------------
onAuditEvent(e, listener) ==
  /\ e \in running /\ ~Contains(listeners[e], listener)
  /\ listeners' = [listeners EXCEPT ![e] = Append(@, listener)]
  /\ UNCHANGED <<running, lastHash, sink, calls, built, heard, reported>>

unsubscribe(e, listener) ==
  /\ e \in running
  /\ \E i \in DOMAIN listeners[e] :
       listeners[e][i] = listener /\ listeners' = [listeners EXCEPT ![e] = RemoveAt(@, i)]
  /\ UNCHANGED <<running, lastHash, sink, calls, built, heard, reported>>

(* The process of an emitter stops: its calls and its memory are gone, the *)
(* sink's contents are not.                                                *)
Crash(e) ==
  /\ e \in running
  /\ running' = running \ {e}
  /\ calls' = [c \in Callers |-> IF calls[c].pc # "idle" /\ calls[c].emitter = e
                                 THEN Idle ELSE calls[c]]
  /\ UNCHANGED <<listeners, lastHash, sink, built, heard, reported>>

-----------------------------------------------------------------------------
audited(c, type, emitter) ==
  /\ calls[c].pc \in {"idle", "returned"}
  /\ emitter \in running \cup {NoEmitter}
  /\ calls' = [calls EXCEPT ![c] = [pc |-> "wrapped", type |-> type, emitter |-> emitter,
                                    result |-> "none", outcome |-> "none", id |-> <<>>]]
  /\ UNCHANGED <<running, listeners, lastHash, sink, built, heard, reported>>

(* `outcome` is what the caller gets, `result` what the wrapped operation  *)
(* settled with: authorize() with a decision, the others with a value, and *)
(* any of them may throw, which passes through.                            *)
Values(type) == IF type = "authorization" THEN {"allow", "deny"} ELSE {"value"}

Return(c, outcome) == [calls[c] EXCEPT !.pc = "returned", !.outcome = outcome]

WrappedSettles(c, result) ==
  /\ calls[c].pc = "wrapped"
  /\ result \in Values(calls[c].type) \cup {"thrown"}
  /\ calls' = [calls EXCEPT ![c] = IF result = "thrown" THEN [Return(c, result) EXCEPT !.result = result]
                                   ELSE [@ EXCEPT !.pc = "observe", !.result = result]]
  /\ UNCHANGED <<running, listeners, lastHash, sink, built, heard, reported>>

(* A slip: a denial is not worth an event.                                 *)
SlipAllowsOnly(call) == call.emitter # NoEmitter /\ call.result # "deny"
observed(call) == call.emitter # NoEmitter

Unobserved(c) ==
  /\ calls[c].pc = "observe" /\ ~observed(calls[c])
  /\ calls' = [calls EXCEPT ![c] = Return(c, calls[c].result)]
  /\ UNCHANGED <<running, listeners, lastHash, sink, built, heard, reported>>

hashAuditEvent(event) == <<event>>

newEvent(e, call) ==
  [id |-> <<e, Len(built[e]) + 1>>, content |-> <<call.type, call.result>>,
   prevEventHash |-> IF e \in HashChaining THEN lastHash[e] ELSE NoHash]

(* The chain moves on when an event is built, whatever becomes of it.  The *)
(* slips: only when it was stored; with a hash that leaves the link out.   *)
SlipHashOfStored(e, event, stored) ==
  IF e \in HashChaining /\ stored THEN hashAuditEvent(event) ELSE lastHash[e]
SlipHashOfInput(e, event, stored) ==
  IF e \in HashChaining THEN hashAuditEvent([event EXCEPT !.prevEventHash = NoHash])
  ELSE lastHash[e]
hashAfter(e, event, stored) ==
  IF e \in HashChaining THEN hashAuditEvent(event) ELSE lastHash[e]

(* The listeners are called in turn until one throws.                      *)
throwers(e) == {i \in DOMAIN listeners[e] : listeners[e][i] \in Throwing}
Notified(e) ==
  {listeners[e][i] : i \in {j \in DOMAIN listeners[e] : \A t \in throwers(e) : j <= t}}

(* The catch around append().  A slip: it drops the error.                 *)
SlipSwallows(event) == {}
onSinkError(event) == {event.id}

(* emit(), from its call to its first await: `stored` tells how append()   *)
(* ends if the listeners let it be reached.                                *)
emit(c, stored) ==
  LET e == calls[c].emitter
      event == newEvent(e, calls[c])
      call == [calls[c] EXCEPT !.id = event.id]
  IN  /\ built' = [built EXCEPT ![e] = Append(@, event)]
      /\ lastHash' = [lastHash EXCEPT ![e] = hashAfter(e, event, stored)]
      /\ heard' = [l \in Listeners |-> heard[l] \cup (IF l \in Notified(e) THEN {event.id} ELSE {})]
      /\ IF throwers(e) # {}
         THEN /\ ~stored
              /\ calls' = [calls EXCEPT ![c] = [call EXCEPT !.pc = "returned", !.outcome = "thrown"]]
              /\ UNCHANGED <<sink, reported>>
         ELSE /\ calls' = [calls EXCEPT ![c] = [call EXCEPT !.pc = "append"]]
              /\ sink' = IF stored THEN Append(sink, event) ELSE sink
              /\ reported' = IF stored THEN reported ELSE reported \cup onSinkError(event)
      /\ UNCHANGED <<running, listeners>>

Events == UNION {ToSet(built[e]) : e \in Emitters}
Ids == {event.id : event \in Events}

Observe(c, stored) ==
  /\ calls[c].pc = "observe" /\ observed(calls[c])
  /\ Cardinality(Events) < MaxEvents
  /\ emit(c, stored)

(* The await of append() is over, or its error has been caught.            *)
AppendSettles(c) ==
  /\ calls[c].pc = "append"
  /\ calls' = [calls EXCEPT ![c] = Return(c, calls[c].result)]
  /\ UNCHANGED <<running, listeners, lastHash, sink, built, heard, reported>>

Next ==
  \/ \E e \in Emitters, l \in Listeners : onAuditEvent(e, l) \/ unsubscribe(e, l)
  \/ \E e \in Emitters : Crash(e)
  \/ \E c \in Callers, type \in Types, e \in Emitters \cup {NoEmitter} : audited(c, type, e)
  \/ \E c \in Callers : \/ \E result \in {"allow", "deny", "value", "thrown"} :
                             WrappedSettles(c, result)
                        \/ Unobserved(c)
                        \/ \E stored \in BOOLEAN : Observe(c, stored)
                        \/ AppendSettles(c)

Spec == Init /\ [][Next]_vars

-----------------------------------------------------------------------------
(* Reading the trail back: what one emitter has stored, in order, and the  *)
(* check of its hash chain.  A slip: the first link is not looked at.      *)
StoredBy(e) == Picked(sink, {i \in DOMAIN sink : sink[i].id[1] = e})

SlipSkipsFirst(events) ==
  \A i \in 3 .. Len(events) : events[i].prevEventHash = hashAuditEvent(events[i - 1])
verifyHashChain(events) ==
  \A i \in 2 .. Len(events) : events[i].prevEventHash = hashAuditEvent(events[i - 1])

Edited(events, i) == [events EXCEPT ![i].content = <<"edited">>]
Swapped(events, i) ==
  [events EXCEPT ![i] = events[i + 1], ![i + 1] = events[i]]

-----------------------------------------------------------------------------
TypeOK ==
  /\ running \subseteq Emitters
  /\ \A e \in Emitters : ToSet(listeners[e]) \subseteq Listeners
  /\ \A e \in Emitters :
       lastHash[e] \in {NoHash} \cup {hashAuditEvent(event) : event \in ToSet(built[e])}
  /\ ToSet(sink) \subseteq Events
  /\ reported \subseteq Ids
  /\ \A l \in Listeners : heard[l] \subseteq Ids
  /\ \A c \in Callers : calls[c].pc \in {"idle", "wrapped", "observe", "append", "returned"}

(* The hash chain tells exactly whether something is missing: the events   *)
(* one emitter has stored verify if and only if they follow each other     *)
(* without a gap among the events it built.  Concurrent calls, failed      *)
(* appends, throwing listeners and other emitters on the same sink neither *)
(* break the chain by themselves nor hide a gap.                           *)
ChainTellsGaps ==
  \A e \in HashChaining : verifyHashChain(StoredBy(e)) <=> StoredBy(e) \in SubSeqs(built[e])

(* A trail that verifies does so no longer once an event other than the    *)
(* last is edited, two neighbours are swapped, or one is taken out of the  *)
(* middle.                                                                 *)
TamperingIsDetected ==
  \A e \in HashChaining :
    LET trail == StoredBy(e)
    IN  verifyHashChain(trail) =>
          /\ \A i \in 1 .. Len(trail) - 1 : /\ ~verifyHashChain(Edited(trail, i))
                                            /\ ~verifyHashChain(Swapped(trail, i))
          /\ \A i \in 2 .. Len(trail) - 1 : ~verifyHashChain(RemoveAt(trail, i))

(* No event gets lost in silence: each event an emitter has built is in    *)
(* the sink, was reported to onSinkError, or never reached the sink since  *)
(* a listener threw, of which the caller was told.                         *)
EventsAreAccountedFor ==
  \A event \in Events :
    \/ Contains(sink, event)
    \/ event.id \in reported
    \/ \E l \in Throwing : event.id \in heard[l]

(* Every result a caller got through an emitter is on record: an event     *)
(* with that result was stored, or reported as not stored, before the      *)
(* caller got it, whether an allow, a denial or another value.             *)
ResultsAreOnRecord ==
  \A c \in Callers :
    calls[c].pc = "returned" /\ calls[c].emitter # NoEmitter /\ calls[c].outcome # "thrown" =>
      \E event \in Events : /\ event.id = calls[c].id
                            /\ event.content = <<calls[c].type, calls[c].outcome>>
                            /\ Contains(sink, event) \/ event.id \in reported

-----------------------------------------------------------------------------
(* src/README.md: "Audit is opt-in and never load-bearing for the          *)
(* underlying decision".  Stated of what the caller of a wrapper gets: it  *)
(* is what the wrapped operation settled with.                             *)
ResultIsNeverDiscarded ==
  \A c \in Callers : calls[c].pc = "returned" => calls[c].outcome = calls[c].result
=============================================================================
