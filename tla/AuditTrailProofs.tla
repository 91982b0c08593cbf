-------------------------- MODULE AuditTrailProofs --------------------------
(***************************************************************************)
(* The audit trail, for any number of callers, emitters and listeners, and *)
(* for trails of any length.                                               *)
(***************************************************************************)
EXTENDS AuditTrail, TrailsProofs

Results == {"none", "allow", "deny", "value", "thrown"}
ActiveCalls ==
  [pc : {"wrapped", "observe", "append", "returned"}, type : AuditEventTypes,
   emitter : Emitters \cup {NoEmitter}, result : Results, outcome : Results,
   id : (Emitters \X Nat) \cup {<<>>}]
CallStates == {Idle} \cup ActiveCalls

(* The state is made of functions, sequences and calls.                    *)
Typed ==
  /\ running \subseteq Emitters
  /\ listeners \in [Emitters -> Seq(Listeners)]
  /\ lastHash = [e \in Emitters |-> lastHash[e]]
  /\ built = [e \in Emitters |-> built[e]]
  /\ heard = [l \in Listeners |-> heard[l]]
  /\ \A e \in Emitters : IsSequence(built[e])
  /\ IsSequence(sink)
  /\ calls \in [Callers -> CallStates]

(* What an emitter builds is numbered, and each link of a hash chain is    *)
(* the hash of the event before it; the emitter holds the next one.        *)
Link(e, i) == IF e \in HashChaining /\ i > 1 THEN hashAuditEvent(built[e][i - 1]) ELSE NoHash

BuiltInOrder ==
  \A e \in Emitters :
    /\ \A i \in 1 .. Len(built[e]) :
         \E content \in AuditEventTypes \X Results :
           built[e][i] = [id |-> <<e, i>>, content |-> content, prevEventHash |-> Link(e, i)]
    /\ lastHash[e] = Link(e, Len(built[e]) + 1)

(* What one emitter has stored is some of what it has built, in order.     *)
StoredInOrder ==
  /\ ToSet(sink) \subseteq Events
  /\ \A e \in Emitters :
       /\ StoredBy(e) \in Seq(ToSet(built[e]))
       /\ \A j \in 1 .. Len(StoredBy(e)) : \A i \in 1 .. j - 1 :
            StoredBy(e)[i].id[2] < StoredBy(e)[j].id[2]

(* A window of a sequence: consecutive elements of it.                     *)
Window(t, s) ==
  \E i \in 0 .. Len(s) : i + Len(t) <= Len(s) /\ \A k \in 1 .. Len(t) : t[k] = s[i + k]

UnbrokenIfVerified ==
  \A e \in HashChaining : verifyHashChain(StoredBy(e)) => Window(StoredBy(e), built[e])

(* What is known of a call whose event has been handed to the sink.        *)
OnRecord(event) == Contains(sink, event) \/ event.id \in reported

HandedOver(call) ==
  \/ call.pc = "append"
  \/ call.pc = "returned" /\ call.emitter # NoEmitter /\ call.outcome # "thrown"

CallsAreOnRecord ==
  \A c \in Callers : HandedOver(calls[c]) =>
    /\ calls[c].pc = "returned" => calls[c].outcome = calls[c].result
    /\ \E event \in Events : /\ event.id = calls[c].id
                             /\ event.content = <<calls[c].type, calls[c].result>>
                             /\ OnRecord(event)

Heard == reported \subseteq Ids /\ \A l \in Listeners : heard[l] \subseteq Ids

Inv ==
  /\ Typed /\ BuiltInOrder /\ StoredInOrder /\ UnbrokenIfVerified
  /\ CallsAreOnRecord /\ EventsAreAccountedFor /\ Heard

-----------------------------------------------------------------------------
(* A call that is not idle is a record of the given fields.                *)
LEMMA CallIsTyped ==
  ASSUME Typed, NEW c \in Callers, calls[c].pc # "idle"
  PROVE  /\ calls[c] \in ActiveCalls
         /\ calls[c].type \in AuditEventTypes /\ calls[c].emitter \in Emitters \cup {NoEmitter}
         /\ calls[c].result \in Results
<1>1. calls[c] \in ActiveCalls
  BY DEF Typed, CallStates, Idle
<1> QED
  BY <1>1 DEF ActiveCalls

(* The steps that emit nothing: they leave the record alone, and a call    *)
(* that ends in one has been handed over before.                           *)
Quiet == UNCHANGED <<lastHash, sink, built, heard, reported>>

Follows(after, before) ==
  HandedOver(after) =>
    /\ HandedOver(before)
    /\ after.pc = "returned" => after.outcome = after.result
    /\ after.id = before.id /\ after.type = before.type /\ after.result = before.result
Kept(c) == Follows(calls'[c], calls[c])

QuietStep ==
  /\ Quiet
  /\ running' \subseteq Emitters /\ listeners' \in [Emitters -> Seq(Listeners)]
  /\ calls' \in [Callers -> CallStates]
  /\ \A c \in Callers : Kept(c)

(* A call that did not move keeps what it has on record.                   *)
LEMMA OtherCallsAreKept ==
  ASSUME CallsAreOnRecord, NEW c \in Callers, calls'[c] = calls[c]
  PROVE  Kept(c)
BY DEF CallsAreOnRecord, Kept, Follows

OnlyCall(c, call) ==
  /\ Quiet /\ running' = running /\ listeners' = listeners
  /\ calls' = [calls EXCEPT ![c] = call]

(* A step of one call that does not emit leaves the trail alone.           *)
LEMMA OnlyCallIsQuiet ==
  ASSUME Typed, CallsAreOnRecord, NEW c \in Callers, NEW call \in CallStates,
         OnlyCall(c, call), Follows(call, calls[c])
  PROVE  QuietStep
<1>1. calls' \in [Callers -> CallStates] /\ calls'[c] = call
  BY DEF OnlyCall, Typed
<1>2. \A d \in Callers \ {c} : calls'[d] = calls[d]
  BY DEF OnlyCall, Typed
<1>3. ASSUME NEW d \in Callers
      PROVE  Kept(d)
  <2>1. CASE d = c
    BY <1>1, <2>1 DEF Kept
  <2>2. CASE d # c
    BY <1>2, <2>2, OtherCallsAreKept
  <2> QED
    BY <2>1, <2>2
<1> QED
  BY <1>1, <1>3 DEF OnlyCall, Typed, QuietStep

(* Only observe() emits; every other step is quiet.                        *)
LEMMA QuietOrObserve ==
  ASSUME Typed, CallsAreOnRecord, AuditAssumption, [Next]_vars
  PROVE  QuietStep \/ \E c \in Callers, stored \in BOOLEAN : Observe(c, stored)
<1>1. CASE UNCHANGED vars
  BY <1>1, OtherCallsAreKept DEF vars, Typed, QuietStep, Quiet
<1>2. ASSUME NEW e \in Emitters, NEW l \in Listeners, onAuditEvent(e, l)
      PROVE  QuietStep
  <2>1. listeners' \in [Emitters -> Seq(Listeners)]
    BY <1>2 DEF Typed, onAuditEvent
  <2> QED
    BY <1>2, <2>1, OtherCallsAreKept DEF onAuditEvent, Typed, QuietStep, Quiet
<1>3. ASSUME NEW e \in Emitters, NEW l \in Listeners, unsubscribe(e, l)
      PROVE  QuietStep
  <2>1. PICK i \in DOMAIN listeners[e] :
          listeners' = [listeners EXCEPT ![e] = RemoveAt(listeners[e], i)]
    BY <1>3 DEF unsubscribe
  <2>2. RemoveAt(listeners[e], i) \in Seq(Listeners)
    <3>1. listeners[e] \in Seq(Listeners)
      BY DEF Typed
    <3>2. i \in 1 .. Len(listeners[e]) /\ Len(listeners[e]) \in Nat
      BY <3>1
    <3>3. /\ SubSeq(listeners[e], 1, i - 1) \in Seq(Listeners)
          /\ SubSeq(listeners[e], i + 1, Len(listeners[e])) \in Seq(Listeners)
      BY <3>1, <3>2
    <3> QED
      BY <3>3 DEF RemoveAt
  <2>3. listeners' \in [Emitters -> Seq(Listeners)]
    BY <2>1, <2>2 DEF Typed
  <2> QED
    BY <1>3, <2>3, OtherCallsAreKept DEF unsubscribe, Typed, QuietStep, Quiet
<1>4. ASSUME NEW e \in Emitters, Crash(e)
      PROVE  QuietStep
  <2>1. calls' = [c \in Callers |-> IF calls[c].pc # "idle" /\ calls[c].emitter = e
                                   THEN Idle ELSE calls[c]]
    BY <1>4 DEF Crash
  <2>2. calls' \in [Callers -> CallStates]
    BY <2>1 DEF Typed, CallStates
  <2>3. ASSUME NEW c \in Callers
        PROVE  Kept(c)
    <3>1. CASE calls'[c] = Idle
      BY <3>1 DEF Kept, Follows, HandedOver, Idle
    <3>2. CASE calls'[c] = calls[c]
      BY <3>2, OtherCallsAreKept
    <3> QED
      BY <2>1, <3>1, <3>2
  <2> QED
    BY <1>4, <2>2, <2>3 DEF Crash, Typed, QuietStep, Quiet
<1>5. ASSUME NEW c \in Callers, NEW type \in Types, NEW e \in Emitters \cup {NoEmitter},
             audited(c, type, e)
      PROVE  QuietStep
  <2> DEFINE call == [pc |-> "wrapped", type |-> type, emitter |-> e, result |-> "none",
                      outcome |-> "none", id |-> <<>>]
  <2>1. calls' = [calls EXCEPT ![c] = call]
    BY <1>5 DEF audited
  <2>2. call \in CallStates
    BY DEF CallStates, ActiveCalls, Results, AuditAssumption
  <2>3. Follows(call, calls[c])
    BY DEF Follows, HandedOver
  <2>4. OnlyCall(c, call)
    BY <1>5, <2>1 DEF audited, OnlyCall, Quiet
  <2> HIDE DEF call
  <2> QED
    BY <2>2, <2>3, <2>4, OnlyCallIsQuiet
<1>6. ASSUME NEW c \in Callers, NEW result \in {"allow", "deny", "value", "thrown"},
             WrappedSettles(c, result)
      PROVE  QuietStep
  <2>1. calls[c].pc = "wrapped" /\ calls[c] \in ActiveCalls
    BY <1>6, CallIsTyped DEF WrappedSettles
  <2>2. PICK call :
          /\ call = IF result = "thrown"
                    THEN [Return(c, result) EXCEPT !.result = result]
                    ELSE [calls[c] EXCEPT !.pc = "observe", !.result = result]
          /\ calls' = [calls EXCEPT ![c] = call]
    BY <1>6 DEF WrappedSettles
  <2>3. call \in CallStates
    BY <2>1, <2>2 DEF Return, CallStates, ActiveCalls, Results
  <2>4. ~HandedOver(call)
    BY <2>1, <2>2 DEF Return, ActiveCalls, HandedOver
  <2>5. Follows(call, calls[c])
    BY <2>4 DEF Follows
  <2>6. OnlyCall(c, call)
    BY <1>6, <2>2 DEF WrappedSettles, OnlyCall, Quiet
  <2> QED
    BY <2>3, <2>5, <2>6, OnlyCallIsQuiet
<1>7. ASSUME NEW c \in Callers, Unobserved(c)
      PROVE  QuietStep
  <2>1. calls[c].emitter = NoEmitter /\ calls[c] \in ActiveCalls
    BY <1>7, CallIsTyped DEF Unobserved, observed
  <2>2. PICK call : /\ call = Return(c, calls[c].result)
                    /\ calls' = [calls EXCEPT ![c] = call]
    BY <1>7 DEF Unobserved
  <2>3. call \in CallStates
    BY <2>1, <2>2 DEF Return, CallStates, ActiveCalls
  <2>4. ~HandedOver(call)
    BY <2>1, <2>2 DEF Return, ActiveCalls, HandedOver
  <2>5. Follows(call, calls[c])
    BY <2>4 DEF Follows
  <2>6. OnlyCall(c, call)
    BY <1>7, <2>2 DEF Unobserved, OnlyCall, Quiet
  <2> QED
    BY <2>3, <2>5, <2>6, OnlyCallIsQuiet
<1>8. ASSUME NEW c \in Callers, AppendSettles(c)
      PROVE  QuietStep
  <2>1. calls[c].pc = "append" /\ calls[c] \in ActiveCalls
    BY <1>8, CallIsTyped DEF AppendSettles
  <2>2. PICK call : /\ call = Return(c, calls[c].result)
                    /\ calls' = [calls EXCEPT ![c] = call]
    BY <1>8 DEF AppendSettles
  <2>3. call \in CallStates
    BY <2>1, <2>2 DEF Return, CallStates, ActiveCalls
  <2>4. /\ call.outcome = call.result
        /\ call.id = calls[c].id /\ call.type = calls[c].type /\ call.result = calls[c].result
    BY <2>1, <2>2 DEF Return, ActiveCalls
  <2>5. Follows(call, calls[c])
    BY <2>1, <2>4 DEF Follows, HandedOver
  <2>6. OnlyCall(c, call)
    BY <1>8, <2>2 DEF AppendSettles, OnlyCall, Quiet
  <2> QED
    BY <2>3, <2>5, <2>6, OnlyCallIsQuiet
<1> QED
  BY <1>1, <1>2, <1>3, <1>4, <1>5, <1>6, <1>7, <1>8 DEF Next

(* What emit() does to what is remembered, of the one event it builds.     *)
Emission(c, e, event, stored) ==
  /\ e = calls[c].emitter
  /\ calls[c].pc = "observe"
  /\ event = [id |-> <<e, Len(built[e]) + 1>>, content |-> <<calls[c].type, calls[c].result>>,
              prevEventHash |-> IF e \in HashChaining THEN lastHash[e] ELSE NoHash]
  /\ built' = [d \in Emitters |-> IF d = e THEN Append(built[e], event) ELSE built[d]]
  /\ lastHash' = [d \in Emitters |-> IF d = e /\ e \in HashChaining THEN hashAuditEvent(event)
                                      ELSE lastHash[d]]
  /\ heard' = [l \in Listeners |-> heard[l] \cup (IF l \in Notified(e) THEN {event.id} ELSE {})]
  /\ \/ /\ throwers(e) # {} /\ sink' = sink /\ reported' = reported
        /\ calls' = [calls EXCEPT ![c] = [calls[c] EXCEPT !.id = event.id, !.pc = "returned",
                                                         !.outcome = "thrown"]]
     \/ /\ \/ sink' = Append(sink, event) /\ reported' = reported
           \/ sink' = sink /\ reported' = reported \cup {event.id}
        /\ calls' = [calls EXCEPT ![c] = [calls[c] EXCEPT !.id = event.id, !.pc = "append"]]

(* What observe() does, for some event of the emitter of the call.         *)
LEMMA Emits ==
  ASSUME Typed, NEW c \in Callers, NEW stored \in BOOLEAN, Observe(c, stored)
  PROVE  \E e \in Emitters : \E event : Emission(c, e, event, stored)
<1> DEFINE e == calls[c].emitter
           event == newEvent(e, calls[c])
<1>1. e \in Emitters /\ calls[c].pc = "observe"
  BY CallIsTyped DEF Observe, observed
<1>2. emit(c, stored)
  BY DEF Observe
<1>3. /\ built' = [d \in Emitters |-> IF d = e THEN Append(built[e], event) ELSE built[d]]
      /\ lastHash' = [d \in Emitters |-> IF d = e /\ e \in HashChaining THEN hashAuditEvent(event)
                                          ELSE lastHash[d]]
  BY <1>1, <1>2 DEF emit, Typed, hashAfter
<1>4. heard' = [l \in Listeners |-> heard[l] \cup (IF l \in Notified(e) THEN {event.id} ELSE {})]
  BY <1>2 DEF emit
<1>5. \/ /\ throwers(e) # {} /\ sink' = sink /\ reported' = reported
         /\ calls' = [calls EXCEPT ![c] = [calls[c] EXCEPT !.id = event.id, !.pc = "returned",
                                                          !.outcome = "thrown"]]
      \/ /\ \/ sink' = Append(sink, event) /\ reported' = reported
            \/ sink' = sink /\ reported' = reported \cup {event.id}
         /\ calls' = [calls EXCEPT ![c] = [calls[c] EXCEPT !.id = event.id, !.pc = "append"]]
  <2>1. CASE throwers(e) # {}
    BY <1>2, <2>1 DEF emit
  <2>2. CASE throwers(e) = {}
    BY <1>2, <2>2 DEF emit, onSinkError
  <2> QED
    BY <2>1, <2>2
<1>6. event = [id |-> <<e, Len(built[e]) + 1>>, content |-> <<calls[c].type, calls[c].result>>,
               prevEventHash |-> IF e \in HashChaining THEN lastHash[e] ELSE NoHash]
  BY DEF newEvent
<1>7. e = calls[c].emitter
  OBVIOUS
<1> HIDE DEF e, event
<1>8. Emission(c, e, event, stored)
  BY <1>1, <1>3, <1>4, <1>5, <1>6, <1>7 DEF Emission
<1> QED
  BY <1>1, <1>8

(* The emitter's events grow by that one, and no other emitter's do.       *)
GrowsBy(e, event) ==
  /\ \A d \in Emitters \ {e} : built'[d] = built[d]
  /\ built'[e] = Append(built[e], event) /\ IsSequence(built'[e])
  /\ Len(built[e]) \in Nat /\ Len(built'[e]) = Len(built[e]) + 1
  /\ \A i \in 1 .. Len(built[e]) : built'[e][i] = built[e][i]
  /\ built'[e][Len(built[e]) + 1] = event
  /\ ToSet(built'[e]) = ToSet(built[e]) \cup {event}
  /\ Events' = Events \cup {event}

(* The event emitted is the one appended to what its emitter has built.    *)
LEMMA BuiltGrows ==
  ASSUME Typed, NEW c, NEW stored, NEW e \in Emitters, NEW event, Emission(c, e, event, stored)
  PROVE  GrowsBy(e, event)
<1>1. /\ \A d \in Emitters \ {e} : built'[d] = built[d]
      /\ built'[e] = Append(built[e], event)
  BY DEF Emission
<1>2. IsSequence(built[e])
  BY DEF Typed
<1>3. /\ IsSequence(built'[e])
      /\ Len(built[e]) \in Nat /\ Len(built'[e]) = Len(built[e]) + 1
      /\ \A i \in 1 .. Len(built[e]) : built'[e][i] = built[e][i]
      /\ built'[e][Len(built[e]) + 1] = event
      /\ ToSet(built'[e]) = ToSet(built[e]) \cup {event}
  BY <1>1, <1>2, Appended, Elements
<1>4. ASSUME NEW x
      PROVE  x \in Events' <=> x \in Events \cup {event}
  BY <1>1, <1>3 DEF Events
<1> QED
  BY <1>1, <1>3, <1>4 DEF GrowsBy

(* An event is the i-th of its emitter, and its id says so.                *)
LEMMA EventsAreNumbered ==
  ASSUME Typed, BuiltInOrder, NEW e \in Emitters, NEW event \in ToSet(built[e])
  PROVE  /\ event.id \in {e} \X (1 .. Len(built[e]))
         /\ event = built[e][event.id[2]]
         /\ event.content \in AuditEventTypes \X Results
         /\ event.prevEventHash = Link(e, event.id[2])
         /\ event = [id |-> event.id, content |-> event.content,
                     prevEventHash |-> event.prevEventHash]
<1>1. PICK i \in 1 .. Len(built[e]) : event = built[e][i]
  BY Elements DEF Typed
<1>2. PICK content \in AuditEventTypes \X Results :
        built[e][i] = [id |-> <<e, i>>, content |-> content, prevEventHash |-> Link(e, i)]
  BY DEF BuiltInOrder
<1>3. event.id = <<e, i>> /\ event.content = content /\ event.prevEventHash = Link(e, i)
  BY <1>1, <1>2
<1> QED
  BY <1>1, <1>2, <1>3

-----------------------------------------------------------------------------
(* The numbers and links of what is built.                                 *)
LEMMA BuiltInOrderStep ==
  ASSUME Typed, BuiltInOrder, NEW c \in Callers, NEW stored, NEW e \in Emitters, NEW event,
         Emission(c, e, event, stored)
  PROVE  BuiltInOrder'
<1> DEFINE n == Len(built[e])
<1>1. /\ \A d \in Emitters \ {e} : built'[d] = built[d] /\ lastHash'[d] = lastHash[d]
      /\ n \in Nat /\ Len(built'[e]) = n + 1
      /\ \A i \in 1 .. n : built'[e][i] = built[e][i]
      /\ built'[e][n + 1] = event
  <2>1. \A d \in Emitters \ {e} : lastHash'[d] = lastHash[d]
    BY DEF Emission
  <2>2. /\ \A d \in Emitters \ {e} : built'[d] = built[d]
        /\ Len(built[e]) \in Nat /\ Len(built'[e]) = Len(built[e]) + 1
        /\ \A i \in 1 .. Len(built[e]) : built'[e][i] = built[e][i]
        /\ built'[e][Len(built[e]) + 1] = event
    <3>1. GrowsBy(e, event)
      BY BuiltGrows
    <3> QED
      BY <3>1 DEF GrowsBy
  <2> QED
    BY <2>1, <2>2
<1>2. event.content \in AuditEventTypes \X Results
  <2>1. calls[c].pc # "idle" /\ event.content = <<calls[c].type, calls[c].result>>
    BY DEF Emission
  <2> QED
    BY <2>1, CallIsTyped
<1>3. event = [id |-> <<e, n + 1>>, content |-> event.content, prevEventHash |-> Link(e, n + 1)]
  <2>1. Link(e, n + 1) = IF e \in HashChaining THEN lastHash[e] ELSE NoHash
    BY DEF BuiltInOrder, Link
  <2> QED
    BY <2>1 DEF Emission
<1>4. lastHash'[e] = IF e \in HashChaining THEN hashAuditEvent(event) ELSE NoHash
  BY <1>1 DEF Emission, BuiltInOrder, Link
<1> HIDE DEF n
<1>5. ASSUME NEW i \in 1 .. n + 1
      PROVE  Link(e, i)' = Link(e, i)
  BY <1>1 DEF Link
<1>6. ASSUME NEW i \in 1 .. n + 1
      PROVE  \E content \in AuditEventTypes \X Results :
               built'[e][i] = [id |-> <<e, i>>, content |-> content, prevEventHash |-> Link(e, i)']
  <2>1. CASE i = n + 1
    BY <1>1, <1>2, <1>3, <1>5, <2>1
  <2>2. CASE i \in 1 .. n
    BY <1>1, <1>5, <2>2 DEF BuiltInOrder, n
  <2>3. i = n + 1 \/ i \in 1 .. n
    BY <1>1
  <2> QED
    BY <2>1, <2>2, <2>3
<1>7. lastHash'[e] = Link(e, Len(built[e]) + 1)'
  BY <1>1, <1>4 DEF Link
<1>8. ASSUME NEW d \in Emitters \ {e}
      PROVE  /\ \A i \in 1 .. Len(built'[d]) :
                  \E content \in AuditEventTypes \X Results :
                    built'[d][i] = [id |-> <<d, i>>, content |-> content,
                                    prevEventHash |-> Link(d, i)']
             /\ lastHash'[d] = Link(d, Len(built[d]) + 1)'
  <2>1. \A i : Link(d, i)' = Link(d, i)
    BY <1>1 DEF Link
  <2>2. built'[d] = built[d] /\ lastHash'[d] = lastHash[d]
    BY <1>1
  <2>3. Link(d, Len(built[d]) + 1)' = Link(d, Len(built[d]) + 1)
    BY <1>1 DEF Link
  <2>4. \A i \in 1 .. Len(built[d]) :
          \E content \in AuditEventTypes \X Results :
            built[d][i] = [id |-> <<d, i>>, content |-> content, prevEventHash |-> Link(d, i)]
    BY DEF BuiltInOrder
  <2>5. lastHash[d] = Link(d, Len(built[d]) + 1)
    BY DEF BuiltInOrder
  <2> QED
    BY <2>1, <2>2, <2>3, <2>4, <2>5
<1>9. ASSUME NEW d \in Emitters
      PROVE  /\ \A i \in 1 .. Len(built'[d]) :
                  \E content \in AuditEventTypes \X Results :
                    built'[d][i] = [id |-> <<d, i>>, content |-> content,
                                    prevEventHash |-> Link(d, i)']
             /\ lastHash'[d] = Link(d, Len(built[d]) + 1)'
  <2>1. CASE d = e
    BY <1>1, <1>6, <1>7, <2>1
  <2> QED
    BY <1>8, <2>1
<1> QED
  BY <1>9 DEF BuiltInOrder

-----------------------------------------------------------------------------
(* What each emitter has stored grows with the sink.                       *)
LEMMA StoredGrows ==
  ASSUME Typed, NEW d \in Emitters, NEW e \in Emitters, NEW event, event.id[1] = e
  PROVE  /\ sink' = sink => StoredBy(d)' = StoredBy(d)
         /\ sink' = Append(sink, event) =>
              /\ d = e => StoredBy(d)' = Append(StoredBy(d), event)
              /\ d # e => StoredBy(d)' = StoredBy(d)
<1> DEFINE n == Len(sink)
           places == {i \in DOMAIN sink : sink[i].id[1] = d}
<1>1. CASE sink' = sink
  <2>1. StoredBy(d)' = StoredBy(d)
    BY <1>1 DEF StoredBy
  <2>2. sink' # Append(sink, event)
    <3>1. Len(Append(sink, event)) # Len(sink)
      BY Appended, Elements DEF Typed
    <3> QED
      BY <1>1, <3>1
  <2> QED
    BY <2>1, <2>2
<1>2. CASE sink' = Append(sink, event)
  <2>1. /\ n \in Nat /\ DOMAIN sink = 1 .. n /\ DOMAIN sink' = 1 .. n + 1
        /\ sink'[n + 1] = event /\ \A i \in 1 .. n : sink'[i] = sink[i]
        /\ sink \in Seq(ToSet(sink))
    BY <1>2, Elements, Appended DEF Typed, IsSequence
  <2>2. places \in SUBSET (1 .. n)
    BY <2>1
  <2>3. {i \in DOMAIN sink' : sink'[i].id[1] = d} = IF d = e THEN places \cup {n + 1} ELSE places
    <3>1. \A i : i \in 1 .. n + 1 <=> i \in 1 .. n \/ i = n + 1
      BY <2>1
    <3>2. n + 1 \notin 1 .. n
      BY <2>1
    <3> QED
      BY <2>1, <3>1, <3>2
  <2>4. StoredBy(d) = Picked(sink, places)
    BY DEF StoredBy
  <2>5. StoredBy(d)' = Picked(sink', IF d = e THEN places \cup {n + 1} ELSE places)
    BY <2>3 DEF StoredBy
  <2> HIDE DEF places
  <2>6. /\ Picked(Append(sink, event), places) = Picked(sink, places)
        /\ Picked(Append(sink, event), places \cup {Len(sink) + 1}) =
             Append(Picked(sink, places), event)
    BY <2>1, <2>2, PickedGrows
  <2>7. sink' # sink
    BY <2>1
  <2> QED
    BY <1>2, <2>4, <2>5, <2>6, <2>7
<1> QED
  BY <1>1, <1>2

(* The trails of the sink stay in the order of what was built.             *)
LEMMA StoredInOrderStep ==
  ASSUME Typed, BuiltInOrder, StoredInOrder, NEW c \in Callers, NEW stored, NEW e \in Emitters,
         NEW event, Emission(c, e, event, stored)
  PROVE  StoredInOrder'
<1> DEFINE n == Len(built[e])
<1>1. /\ \A d \in Emitters \ {e} : built'[d] = built[d]
      /\ n \in Nat
      /\ ToSet(built'[e]) = ToSet(built[e]) \cup {event}
      /\ Events' = Events \cup {event}
  <2>1. GrowsBy(e, event)
    BY BuiltGrows
  <2> QED
    BY <2>1 DEF GrowsBy
<1>2. event.id = <<e, n + 1>> /\ sink' \in {sink, Append(sink, event)}
  BY DEF Emission
<1>3. ToSet(sink') \subseteq Events'
  <2>1. ToSet(Append(sink, event)) = ToSet(sink) \cup {event}
    BY Appended DEF Typed
  <2> QED
    BY <1>1, <1>2, <2>1 DEF StoredInOrder
<1>4. ASSUME NEW d \in Emitters, StoredBy(d)' = StoredBy(d)
      PROVE  /\ StoredBy(d)' \in Seq(ToSet(built'[d]))
             /\ \A j \in 1 .. Len(StoredBy(d)') : \A i \in 1 .. j - 1 :
                  StoredBy(d)'[i].id[2] < StoredBy(d)'[j].id[2]
  <2>1. StoredBy(d) \in Seq(ToSet(built[d])) /\ ToSet(built[d]) \subseteq ToSet(built'[d])
    BY <1>1 DEF StoredInOrder
  <2>2. StoredBy(d) \in Seq(ToSet(built'[d]))
    BY <2>1
  <2> QED
    BY <1>4, <2>2 DEF StoredInOrder
<1>5. ASSUME StoredBy(e)' = Append(StoredBy(e), event)
      PROVE  /\ StoredBy(e)' \in Seq(ToSet(built'[e]))
             /\ \A j \in 1 .. Len(StoredBy(e)') : \A i \in 1 .. j - 1 :
                  StoredBy(e)'[i].id[2] < StoredBy(e)'[j].id[2]
  <2> DEFINE t == StoredBy(e)
             m == Len(t)
  <2>1. /\ t \in Seq(ToSet(built[e])) /\ m \in Nat
        /\ \A j \in 1 .. m : \A i \in 1 .. j - 1 : t[i].id[2] < t[j].id[2]
    BY DEF StoredInOrder
  <2>2. \A i \in 1 .. m : t[i].id[2] \in 1 .. n
    <3>1. \A x \in ToSet(built[e]) : x.id[2] \in 1 .. n
      BY EventsAreNumbered
    <3> QED
      BY <2>1, <3>1
  <2> HIDE DEF t, m, n
  <2>3. Append(t, event) \in Seq(ToSet(built'[e]))
    <3>1. t \in Seq(ToSet(built'[e])) /\ event \in ToSet(built'[e])
      BY <1>1, <2>1
    <3> QED
      BY <3>1
  <2>4. /\ Len(Append(t, event)) = m + 1 /\ Append(t, event)[m + 1] = event
        /\ \A i \in 1 .. m : Append(t, event)[i] = t[i]
    BY <2>1 DEF m
  <2>5. ASSUME NEW j \in 1 .. m + 1, NEW i \in 1 .. j - 1
        PROVE  Append(t, event)[i].id[2] < Append(t, event)[j].id[2]
    <3>1. CASE j \in 1 .. m
      <4>1. i \in 1 .. m
        BY <2>1, <3>1
      <4> QED
        BY <2>1, <2>4, <3>1, <4>1
    <3>2. CASE j = m + 1
      <4>1. i \in 1 .. m
        BY <2>1, <3>2
      <4>2. t[i].id[2] \in 1 .. n /\ event.id[2] = n + 1
        BY <1>2, <2>2, <4>1
      <4> QED
        BY <1>1, <2>4, <3>2, <4>1, <4>2
    <3>3. j \in 1 .. m \/ j = m + 1
      BY <2>1
    <3> QED
      BY <3>1, <3>2, <3>3
  <2> QED
    BY <1>5, <2>3, <2>4, <2>5 DEF t
<1>6. \A d \in Emitters : StoredBy(d)' = StoredBy(d)
                           \/ (d = e /\ StoredBy(d)' = Append(StoredBy(d), event))
  BY <1>2, StoredGrows
<1> QED
  BY <1>3, <1>4, <1>5, <1>6 DEF StoredInOrder

-----------------------------------------------------------------------------
(* Equal hashes are those of equal events.                                 *)
LEMMA HashIsInjective ==
  ASSUME NEW x, NEW y, hashAuditEvent(x) = hashAuditEvent(y)
  PROVE  x = y
BY DEF hashAuditEvent

(* A trail that verifies is a window of what was built.  An event that is  *)
(* appended links to the last one built, so that a trail verifies with it  *)
(* only if that one is the last of the window.                             *)
LEMMA UnbrokenStep ==
  ASSUME Typed, BuiltInOrder, StoredInOrder, UnbrokenIfVerified, AuditAssumption,
         NEW c \in Callers, NEW stored, NEW e \in Emitters, NEW event,
         Emission(c, e, event, stored)
  PROVE  UnbrokenIfVerified'
<1> DEFINE n == Len(built[e])
<1>1. /\ \A d \in Emitters \ {e} : built'[d] = built[d]
      /\ n \in Nat /\ Len(built'[e]) = n + 1
      /\ \A i \in 1 .. n : built'[e][i] = built[e][i]
      /\ built'[e][n + 1] = event
  <2>1. GrowsBy(e, event)
    BY BuiltGrows
  <2> QED
    BY <2>1 DEF GrowsBy
<1>2. event.id = <<e, n + 1>> /\ sink' \in {sink, Append(sink, event)}
  BY DEF Emission
<1>3. ASSUME NEW t, Len(t) \in Nat, NEW d \in Emitters, Window(t, built[d])
      PROVE  Window(t, built'[d])
  <2>1. CASE d # e
    BY <1>1, <1>3, <2>1
  <2>2. CASE d = e
    <3>1. PICK i \in 0 .. n : i + Len(t) <= n /\ \A k \in 1 .. Len(t) : t[k] = built[e][i + k]
      BY <1>3, <2>2 DEF Window
    <3>2. i \in 0 .. n + 1 /\ i + Len(t) <= n + 1
      BY <1>1, <1>3, <3>1
    <3>3. \A k \in 1 .. Len(t) : i + k \in 1 .. n
      BY <1>1, <1>3, <3>1
    <3>4. \A k \in 1 .. Len(t) : t[k] = built'[e][i + k]
      BY <1>1, <3>1, <3>3
    <3> QED
      BY <1>1, <2>2, <3>2, <3>4 DEF Window
  <2> QED
    BY <2>1, <2>2
<1>4. ASSUME e \in HashChaining, StoredBy(e)' = Append(StoredBy(e), event),
             verifyHashChain(StoredBy(e)')
      PROVE  Window(StoredBy(e)', built'[e])
  <2> DEFINE t == StoredBy(e)
             m == Len(t)
             u == Append(t, event)
  <2>1. /\ t \in Seq(ToSet(built[e])) /\ m \in Nat
        /\ Len(u) = m + 1 /\ u[m + 1] = event /\ \A k \in 1 .. m : u[k] = t[k]
    BY DEF StoredInOrder
  <2>2. \A k \in 2 .. m + 1 : u[k].prevEventHash = hashAuditEvent(u[k - 1])
    BY <1>4, <2>1 DEF verifyHashChain
  <2>3. verifyHashChain(t)
    <3>1. \A k \in 2 .. m : k \in 2 .. m + 1 /\ k \in 1 .. m /\ k - 1 \in 1 .. m
      BY <2>1
    <3> HIDE DEF u, t
    <3> QED
      BY <2>1, <2>2, <3>1 DEF verifyHashChain
  <2>4. PICK i \in 0 .. n : i + m <= n /\ \A k \in 1 .. m : t[k] = built[e][i + k]
    BY <1>4, <2>3 DEF UnbrokenIfVerified, Window
  <2> HIDE DEF u, t, m, n
  <2>5. CASE m = 0
    <3>1. n \in 0 .. n + 1 /\ n + (m + 1) <= n + 1 /\ \A k \in 1 .. m + 1 : k = 1
      BY <1>1, <2>5
    <3> QED
      BY <1>1, <1>4, <2>1, <2>5, <3>1 DEF Window, u, t
  <2>6. CASE m # 0
    <3>1. m \in 1 .. m /\ m + 1 \in 2 .. m + 1 /\ (m + 1) - 1 = m
      BY <2>1, <2>6
    <3>2. event.prevEventHash = hashAuditEvent(built[e][i + m])
      BY <2>1, <2>2, <2>4, <3>1
    <3>3. i + m \in 1 .. n /\ n \in 1 .. n /\ n + 1 > 1 /\ (n + 1) - 1 = n
      BY <1>1, <2>1, <2>4, <2>6
    <3>4. event.prevEventHash = hashAuditEvent(built[e][n])
      <4>1. event.prevEventHash = lastHash[e]
        BY <1>4 DEF Emission
      <4>2. lastHash[e] = Link(e, n + 1)
        BY DEF BuiltInOrder, n
      <4> QED
        BY <1>4, <3>3, <4>1, <4>2 DEF Link
    <3>5. built[e][i + m] = built[e][n]
      BY <3>2, <3>4, HashIsInjective
    <3>6. i + m = n
      <4>1. ASSUME NEW k \in 1 .. n
            PROVE  built[e][k].id = <<e, k>>
        <5>1. PICK content \in AuditEventTypes \X Results :
                built[e][k] = [id |-> <<e, k>>, content |-> content, prevEventHash |-> Link(e, k)]
          BY DEF BuiltInOrder, n
        <5> QED
          BY <5>1
      <4> QED
        BY <3>3, <3>5, <4>1
    <3>7. i \in 0 .. n + 1 /\ i + (m + 1) <= n + 1
      BY <1>1, <2>1, <3>6
    <3>8. ASSUME NEW k \in 1 .. m + 1
          PROVE  u[k] = built'[e][i + k]
      <4>1. CASE k = m + 1
        <5>1. i + k = n + 1
          BY <1>1, <2>1, <3>6, <4>1
        <5> QED
          BY <1>1, <2>1, <4>1, <5>1
      <4>2. CASE k \in 1 .. m
        <5>1. i + k \in 1 .. n
          BY <1>1, <2>1, <3>6, <4>2
        <5> QED
          BY <1>1, <2>1, <2>4, <4>2, <5>1
      <4>3. k = m + 1 \/ k \in 1 .. m
        BY <2>1
      <4> QED
        BY <4>1, <4>2, <4>3
    <3> QED
      BY <1>1, <1>4, <2>1, <3>7, <3>8 DEF Window, u, t
  <2> QED
    BY <2>5, <2>6
<1>5. \A d \in Emitters : StoredBy(d)' = StoredBy(d)
                           \/ (d = e /\ StoredBy(d)' = Append(StoredBy(d), event))
  BY <1>2, StoredGrows
<1>6. ASSUME NEW d \in HashChaining, verifyHashChain(StoredBy(d)')
      PROVE  Window(StoredBy(d)', built'[d])
  <2>1. d \in Emitters
    BY DEF AuditAssumption
  <2>2. CASE StoredBy(d)' = StoredBy(d)
    <3>1. Len(StoredBy(d)) \in Nat
      BY <2>1 DEF StoredInOrder
    <3>2. Window(StoredBy(d), built[d])
      BY <1>6, <2>2 DEF UnbrokenIfVerified
    <3> QED
      BY <1>3, <2>1, <2>2, <3>1, <3>2
  <2>3. CASE d = e /\ StoredBy(d)' = Append(StoredBy(d), event)
    BY <1>4, <1>6, <2>3
  <2> QED
    BY <1>5, <2>1, <2>2, <2>3
<1> QED
  BY <1>6 DEF UnbrokenIfVerified

-----------------------------------------------------------------------------
(* The calls stay calls, and what is remembered stays made of sequences.   *)
LEMMA TypedStep ==
  ASSUME Typed, NEW c \in Callers, NEW stored \in BOOLEAN, Observe(c, stored),
         NEW e \in Emitters, NEW event, Emission(c, e, event, stored)
  PROVE  Typed'
<1>1. /\ running' = running /\ listeners' = listeners
      /\ \A d \in Emitters \ {e} : built'[d] = built[d]
      /\ IsSequence(built'[e])
  <2>1. GrowsBy(e, event)
    BY BuiltGrows
  <2>2. running' = running /\ listeners' = listeners
    BY DEF Observe, emit
  <2> QED
    BY <2>1, <2>2 DEF GrowsBy
<1>2. \A d \in Emitters : IsSequence(built'[d])
  BY <1>1 DEF Typed
<1>3. IsSequence(sink')
  <2>1. sink' \in {sink, Append(sink, event)}
    BY DEF Emission
  <2>2. IsSequence(sink) /\ IsSequence(Append(sink, event))
    BY Appended DEF Typed
  <2> QED
    BY <2>1, <2>2
<1>4. /\ lastHash' = [d \in Emitters |-> lastHash'[d]]
      /\ built' = [d \in Emitters |-> built'[d]]
      /\ heard' = [l \in Listeners |-> heard'[l]]
  BY DEF Emission
<1>5. calls' \in [Callers -> CallStates]
  <2>1. PICK call : /\ calls' = [calls EXCEPT ![c] = call]
                    /\ \/ call = [calls[c] EXCEPT !.id = event.id, !.pc = "returned",
                                                  !.outcome = "thrown"]
                       \/ call = [calls[c] EXCEPT !.id = event.id, !.pc = "append"]
    BY DEF Emission
  <2>2. calls[c] \in ActiveCalls
    BY CallIsTyped DEF Emission
  <2>3. event.id \in Emitters \X Nat
    <3>1. event.id = <<e, Len(built[e]) + 1>> /\ Len(built[e]) \in Nat
      BY Elements DEF Emission, Typed
    <3> QED
      BY <3>1
  <2>4. call \in CallStates
    BY <2>1, <2>2, <2>3 DEF CallStates, ActiveCalls, Results
  <2> QED
    BY <2>1, <2>4 DEF Typed
<1> QED
  BY <1>1, <1>2, <1>3, <1>4, <1>5 DEF Typed

(* What is known of the record grows with it.                              *)
LEMMA RecordGrows ==
  ASSUME Typed, NEW c \in Callers, NEW stored, NEW e \in Emitters, NEW event,
         Emission(c, e, event, stored)
  PROVE  /\ Events' = Events \cup {event}
         /\ \A x : Contains(sink, x) => Contains(sink', x)
         /\ reported \subseteq reported'
         /\ \A l \in Listeners : heard[l] \subseteq heard'[l]
         /\ throwers(e) # {} \/ OnRecord(event)'
<1>1. Events' = Events \cup {event}
  <2>1. GrowsBy(e, event)
    BY BuiltGrows
  <2> QED
    BY <2>1 DEF GrowsBy
<1>2. /\ \A x : Contains(sink, x) => Contains(Append(sink, event), x)
      /\ Contains(Append(sink, event), event)
  BY Elements, Appended DEF Typed
<1>3. /\ sink' \in {sink, Append(sink, event)}
      /\ reported \subseteq reported'
      /\ \A l \in Listeners : heard[l] \subseteq heard'[l]
  BY DEF Emission
<1>4. throwers(e) # {} \/ sink' = Append(sink, event) \/ event.id \in reported'
  BY DEF Emission
<1> QED
  BY <1>1, <1>2, <1>3, <1>4 DEF OnRecord

(* What is reported and what listeners hear has been built.                *)
LEMMA HeardStep ==
  ASSUME Typed, Heard, NEW c \in Callers, NEW stored, NEW e \in Emitters, NEW event,
         Emission(c, e, event, stored)
  PROVE  Heard'
<1>1. Events' = Events \cup {event}
  BY RecordGrows
<1>2. Ids' = Ids \cup {event.id}
  BY <1>1 DEF Ids
<1>3. /\ reported' \subseteq reported \cup {event.id}
      /\ \A l \in Listeners : heard'[l] \subseteq heard[l] \cup {event.id}
  BY DEF Emission
<1> QED
  BY <1>2, <1>3 DEF Heard

(* A call is handed over with the event built of it, in the step that puts *)
(* that event into the sink or reports it.                                 *)
LEMMA CallsAreOnRecordStep ==
  ASSUME Typed, CallsAreOnRecord, NEW c \in Callers, NEW stored, NEW e \in Emitters,
         NEW event, Emission(c, e, event, stored)
  PROVE  CallsAreOnRecord'
<1>1. /\ Events' = Events \cup {event}
      /\ \A x : Contains(sink, x) => Contains(sink', x)
      /\ reported \subseteq reported'
  BY RecordGrows
<1>2. ASSUME NEW d \in Callers, d # c, HandedOver(calls'[d])
      PROVE  /\ calls'[d].pc = "returned" => calls'[d].outcome = calls'[d].result
             /\ \E x \in Events' : /\ x.id = calls'[d].id
                                   /\ x.content = <<calls'[d].type, calls'[d].result>>
                                   /\ OnRecord(x)'
  <2>1. calls'[d] = calls[d]
    BY <1>2 DEF Emission, Typed
  <2>2. PICK x \in Events : /\ x.id = calls[d].id
                            /\ x.content = <<calls[d].type, calls[d].result>>
                            /\ OnRecord(x)
    BY <1>2, <2>1 DEF CallsAreOnRecord
  <2>3. x \in Events' /\ OnRecord(x)'
    BY <1>1, <2>2 DEF OnRecord
  <2>4. calls'[d].pc = "returned" => calls'[d].outcome = calls'[d].result
    BY <1>2, <2>1 DEF CallsAreOnRecord
  <2> QED
    BY <2>1, <2>2, <2>3, <2>4
<1>3. ASSUME HandedOver(calls'[c])
      PROVE  /\ calls'[c].pc = "returned" => calls'[c].outcome = calls'[c].result
             /\ \E x \in Events' : /\ x.id = calls'[c].id
                                   /\ x.content = <<calls'[c].type, calls'[c].result>>
                                   /\ OnRecord(x)'
  <2>1. calls[c] \in ActiveCalls
    BY CallIsTyped DEF Emission
  <2>2. CASE throwers(e) # {} /\ calls' = [calls EXCEPT ![c] =
               [calls[c] EXCEPT !.id = event.id, !.pc = "returned", !.outcome = "thrown"]]
    <3>1. calls'[c] = [calls[c] EXCEPT !.id = event.id, !.pc = "returned", !.outcome = "thrown"]
      BY <2>2 DEF Typed
    <3>2. calls'[c].pc = "returned" /\ calls'[c].outcome = "thrown"
      BY <2>1, <3>1 DEF ActiveCalls
    <3> QED
      BY <1>3, <3>2 DEF HandedOver
  <2>3. CASE /\ calls' = [calls EXCEPT ![c] = [calls[c] EXCEPT !.id = event.id, !.pc = "append"]]
             /\ OnRecord(event)'
    <3>1. calls'[c] = [calls[c] EXCEPT !.id = event.id, !.pc = "append"]
      BY <2>3 DEF Typed
    <3>2. /\ calls'[c].pc = "append" /\ calls'[c].id = event.id
          /\ calls'[c].type = calls[c].type /\ calls'[c].result = calls[c].result
      BY <2>1, <3>1 DEF ActiveCalls
    <3>3. event.content = <<calls[c].type, calls[c].result>>
      BY DEF Emission
    <3> QED
      BY <1>1, <2>3, <3>2, <3>3
  <2>4. \/ throwers(e) # {} /\ calls' = [calls EXCEPT ![c] =
               [calls[c] EXCEPT !.id = event.id, !.pc = "returned", !.outcome = "thrown"]]
        \/ /\ calls' = [calls EXCEPT ![c] = [calls[c] EXCEPT !.id = event.id, !.pc = "append"]]
           /\ sink' = Append(sink, event) \/ event.id \in reported'
    BY DEF Emission
  <2>5. Contains(Append(sink, event), event)
    BY Elements, Appended DEF Typed
  <2> QED
    BY <2>2, <2>3, <2>4, <2>5 DEF OnRecord
<1> QED
  BY <1>2, <1>3 DEF CallsAreOnRecord

(* If a listener throws, the first that does has been given the event.     *)
LEMMA FirstThrowerIsNotified ==
  ASSUME Typed, NEW e \in Emitters, throwers(e) # {}
  PROVE  \E l \in Throwing : l \in Notified(e)
<1>1. listeners[e] \in Seq(Listeners)
  BY DEF Typed
<1>2. /\ throwers(e) \in SUBSET Int /\ IsFiniteSet(throwers(e))
      /\ 1 \in 1 .. Cardinality(throwers(e))
  <2>1. throwers(e) \subseteq 1 .. Len(listeners[e]) /\ Len(listeners[e]) \in Nat
    BY <1>1 DEF throwers
  <2>2. IsFiniteSet(throwers(e))
    <3>1. IsFiniteSet(1 .. Len(listeners[e]))
      BY <2>1, FS_Interval
    <3> QED
      BY <2>1, <3>1, FS_Subset
  <2>3. Cardinality(throwers(e)) \in Nat /\ Cardinality(throwers(e)) # 0
    BY <2>2, FS_CardinalityType, FS_EmptySet
  <2> QED
    BY <2>1, <2>2, <2>3
<1>3. PICK t \in throwers(e) : Cardinality(Before(throwers(e), t)) = 1 - 1
  BY <1>2, EveryRankIsTaken
<1>4. Before(throwers(e), t) = {}
  <2>1. IsFiniteSet(Before(throwers(e), t))
    BY <1>2, FS_Subset DEF Before
  <2> QED
    BY <1>3, <2>1, FS_EmptySet
<1>5. \A j \in throwers(e) : t <= j
  BY <1>2, <1>4 DEF Before
<1>6. t \in DOMAIN listeners[e] /\ listeners[e][t] \in Throwing
  BY DEF throwers
<1> QED
  BY <1>5, <1>6 DEF Notified

(* The event emitted is stored, reported, or heard by a listener that      *)
(* throws.                                                                 *)
LEMMA EventsAreAccountedForStep ==
  ASSUME Typed, EventsAreAccountedFor, AuditAssumption, NEW c \in Callers, NEW stored,
         NEW e \in Emitters, NEW event, Emission(c, e, event, stored)
  PROVE  EventsAreAccountedFor'
<1>1. /\ Events' = Events \cup {event}
      /\ \A x : Contains(sink, x) => Contains(sink', x)
      /\ reported \subseteq reported'
      /\ \A l \in Listeners : heard[l] \subseteq heard'[l]
      /\ throwers(e) # {} \/ OnRecord(event)'
  BY RecordGrows
<1>2. Throwing \subseteq Listeners
  BY DEF AuditAssumption
<1>3. ASSUME NEW x \in Events
      PROVE  Contains(sink', x) \/ x.id \in reported' \/ \E l \in Throwing : x.id \in heard'[l]
  BY <1>1, <1>2 DEF EventsAreAccountedFor
<1>4. Contains(sink', event) \/ event.id \in reported' \/ \E l \in Throwing : event.id \in heard'[l]
  <2>1. CASE OnRecord(event)'
    BY <2>1 DEF OnRecord
  <2>2. CASE throwers(e) # {}
    <3>1. PICK l \in Throwing : l \in Notified(e)
      BY <2>2, FirstThrowerIsNotified
    <3>2. event.id \in heard'[l]
      BY <1>2, <3>1 DEF Emission
    <3> QED
      BY <3>2
  <2> QED
    BY <1>1, <2>1, <2>2
<1> QED
  BY <1>1, <1>3, <1>4 DEF EventsAreAccountedFor

-----------------------------------------------------------------------------
(* The invariant is kept, by the steps that emit nothing and by those that *)
(* do.                                                                     *)
LEMMA QuietStepKeepsInv ==
  ASSUME Inv, QuietStep
  PROVE  Inv'
<1>1. /\ built' = built /\ lastHash' = lastHash /\ sink' = sink
      /\ heard' = heard /\ reported' = reported
  BY DEF QuietStep, Quiet
<1>2. Typed'
  BY <1>1 DEF Inv, Typed, QuietStep
<1>3. BuiltInOrder' /\ UnbrokenIfVerified' /\ StoredInOrder'
  <2>1. \A e : StoredBy(e)' = StoredBy(e)
    BY <1>1 DEF StoredBy
  <2>2. BuiltInOrder'
    BY <1>1 DEF Inv, BuiltInOrder, Link
  <2>3. UnbrokenIfVerified'
    BY <1>1, <2>1 DEF Inv, UnbrokenIfVerified
  <2>4. StoredInOrder'
    BY <1>1, <2>1 DEF Inv, StoredInOrder, Events
  <2> QED
    BY <2>2, <2>3, <2>4
<1>4. EventsAreAccountedFor' /\ Heard'
  BY <1>1 DEF Inv, EventsAreAccountedFor, Heard, Events, Ids
<1>5. CallsAreOnRecord'
  <2>1. Events' = Events /\ \A x : OnRecord(x)' <=> OnRecord(x)
    BY <1>1 DEF Events, OnRecord
  <2>2. ASSUME NEW c \in Callers, HandedOver(calls'[c])
        PROVE  /\ calls'[c].pc = "returned" => calls'[c].outcome = calls'[c].result
               /\ \E x \in Events' : /\ x.id = calls'[c].id
                                     /\ x.content = <<calls'[c].type, calls'[c].result>>
                                     /\ OnRecord(x)'
    <3>1. Follows(calls'[c], calls[c])
      BY DEF QuietStep, Kept
    <3>2. \E x \in Events : /\ x.id = calls[c].id
                            /\ x.content = <<calls[c].type, calls[c].result>>
                            /\ OnRecord(x)
      BY <2>2, <3>1 DEF Follows, Inv, CallsAreOnRecord
    <3> QED
      BY <2>1, <2>2, <3>1, <3>2 DEF Follows
  <2> QED
    BY <2>2 DEF CallsAreOnRecord
<1> QED
  BY <1>2, <1>3, <1>4, <1>5 DEF Inv

(* Every step keeps the invariant.                                         *)
LEMMA InvStep ==
  ASSUME Inv, AuditAssumption, [Next]_vars
  PROVE  Inv'
<1>1. CASE QuietStep
  BY <1>1, QuietStepKeepsInv
<1>2. ASSUME NEW c \in Callers, NEW stored \in BOOLEAN, Observe(c, stored)
      PROVE  Inv'
  <2>1. PICK e \in Emitters : \E event : Emission(c, e, event, stored)
    BY <1>2, Emits DEF Inv
  <2>2. PICK event : Emission(c, e, event, stored)
    BY <2>1
  <2>3. Typed'
    BY <1>2, <2>2, TypedStep DEF Inv
  <2>4. BuiltInOrder' /\ StoredInOrder' /\ UnbrokenIfVerified'
    BY <2>2, BuiltInOrderStep, StoredInOrderStep, UnbrokenStep DEF Inv
  <2>5. CallsAreOnRecord' /\ EventsAreAccountedFor' /\ Heard'
    BY <2>2, CallsAreOnRecordStep, EventsAreAccountedForStep, HeardStep DEF Inv
  <2> QED
    BY <2>3, <2>4, <2>5 DEF Inv
<1> QED
  BY <1>1, <1>2, QuietOrObserve DEF Inv

(* And it holds initially.                                                 *)
LEMMA InitHoldsInv ==
  ASSUME Init, AuditAssumption
  PROVE  Inv
<1>1. /\ \A e \in Emitters : built[e] = <<>> /\ lastHash[e] = NoHash
      /\ sink = <<>>
      /\ \A c \in Callers : calls[c] = Idle
  BY DEF Init
<1>2. /\ IsSequence(<<>>) /\ Len(<<>>) = 0 /\ ToSet(<<>>) = {} /\ DOMAIN <<>> = {}
      /\ 1 .. 0 = {}
  BY DEF IsSequence, ToSet
<1>3. Events = {}
  BY <1>1, <1>2 DEF Events
<1>4. Typed
  BY <1>1, <1>2 DEF Init, Typed, CallStates
<1>5. BuiltInOrder
  <2>1. \A e : Link(e, 0 + 1) = NoHash
    BY DEF Link
  <2> QED
    BY <1>1, <1>2, <2>1 DEF BuiltInOrder
<1>6. \A e \in Emitters : StoredBy(e) = <<>>
  <2>1. ASSUME NEW e \in Emitters
        PROVE  StoredBy(e) = <<>>
    <3>1. {i \in DOMAIN sink : sink[i].id[1] = e} = {}
      BY <1>1, <1>2
    <3> QED
      BY <3>1, NothingIsPicked DEF StoredBy
  <2> QED
    BY <2>1
<1>7. StoredInOrder
  <2>1. \A e \in Emitters : StoredBy(e) \in Seq(ToSet(built[e])) /\ 1 .. Len(StoredBy(e)) = {}
    <3>1. \A S : <<>> \in Seq(S)
      OBVIOUS
    <3> QED
      BY <1>2, <1>6, <3>1
  <2>2. ToSet(sink) \subseteq Events
    BY <1>1, <1>2
  <2> QED
    BY <2>1, <2>2 DEF StoredInOrder
<1>8. UnbrokenIfVerified
  BY <1>1, <1>2, <1>6 DEF UnbrokenIfVerified, Window, AuditAssumption
<1>9. CallsAreOnRecord
  BY <1>1 DEF CallsAreOnRecord, HandedOver, Idle
<1>10. EventsAreAccountedFor /\ Heard
  BY <1>3 DEF EventsAreAccountedFor, Heard, Init
<1> QED
  BY <1>4, <1>5, <1>7, <1>8, <1>9, <1>10 DEF Inv

(* The invariant holds throughout, whoever calls, stops or throws.         *)
THEOREM InvHolds == Spec => []Inv
<1>1. Init => Inv
  BY InitHoldsInv, AuditAssumption
<1>2. Inv /\ [Next]_vars => Inv'
  BY InvStep, AuditAssumption
<1> QED
  BY <1>1, <1>2, PTL DEF Spec

-----------------------------------------------------------------------------
(* The types of the audit trail's state, the integrity of its references   *)
(* included: a hash is that of an event built, an id that of one built.    *)
THEOREM TypeIsCorrect == Spec => []TypeOK
<1>1. ASSUME Inv
      PROVE  TypeOK
  <2>1. running \subseteq Emitters /\ reported \subseteq Ids /\ ToSet(sink) \subseteq Events
    BY <1>1 DEF Inv, Typed, Heard, StoredInOrder
  <2>2. \A l \in Listeners : heard[l] \subseteq Ids
    BY <1>1 DEF Inv, Heard
  <2>3. ASSUME NEW e \in Emitters
        PROVE  ToSet(listeners[e]) \subseteq Listeners
    <3>1. listeners[e] \in Seq(Listeners)
      BY <1>1 DEF Inv, Typed
    <3> QED
      BY <3>1 DEF ToSet
  <2>4. ASSUME NEW e \in Emitters
        PROVE  lastHash[e] \in {NoHash} \cup {hashAuditEvent(event) : event \in ToSet(built[e])}
    <3>1. lastHash[e] = Link(e, Len(built[e]) + 1) /\ IsSequence(built[e])
      BY <1>1 DEF Inv, BuiltInOrder, Typed
    <3>2. CASE Len(built[e]) = 0
      BY <3>1, <3>2 DEF Link
    <3>3. CASE Len(built[e]) # 0
      <4>1. Len(built[e]) \in 1 .. Len(built[e]) /\ (Len(built[e]) + 1) - 1 = Len(built[e])
        BY <3>1, <3>3, Elements
      <4>2. built[e][Len(built[e])] \in ToSet(built[e])
        BY <3>1, <4>1, Elements
      <4> QED
        BY <3>1, <4>1, <4>2 DEF Link
    <3> QED
      BY <3>2, <3>3
  <2>5. ASSUME NEW c \in Callers
        PROVE  calls[c].pc \in {"idle", "wrapped", "observe", "append", "returned"}
    <3>1. calls[c] \in CallStates
      BY <1>1 DEF Inv, Typed
    <3> QED
      BY <3>1 DEF CallStates, ActiveCalls, Idle
  <2> QED
    BY <2>1, <2>2, <2>3, <2>4, <2>5 DEF TypeOK
<1> QED
  BY <1>1, InvHolds, PTL

(* No event gets lost in silence: each one built is in the sink, reported  *)
(* to onSinkError, or was heard by a listener that threw.                  *)
THEOREM NoEventIsLost == Spec => []EventsAreAccountedFor
<1>1. Inv => EventsAreAccountedFor
  BY DEF Inv
<1> QED
  BY <1>1, InvHolds, PTL

(* A result a caller got through an emitter is on record, whether it was   *)
(* an allow, a denial or another value.                                    *)
THEOREM ResultsReachTheRecord == Spec => []ResultsAreOnRecord
<1>1. ASSUME Inv
      PROVE  ResultsAreOnRecord
  <2>1. ASSUME NEW c \in Callers, calls[c].pc = "returned", calls[c].emitter # NoEmitter,
               calls[c].outcome # "thrown"
        PROVE  \E event \in Events : /\ event.id = calls[c].id
                                     /\ event.content = <<calls[c].type, calls[c].outcome>>
                                     /\ Contains(sink, event) \/ event.id \in reported
    <3>1. HandedOver(calls[c])
      BY <2>1 DEF HandedOver
    <3> QED
      BY <1>1, <2>1, <3>1 DEF Inv, CallsAreOnRecord, OnRecord
  <2> QED
    BY <2>1 DEF ResultsAreOnRecord
<1> QED
  BY <1>1, InvHolds, PTL

-----------------------------------------------------------------------------
(* The windows of a sequence are its subsequences.                         *)
LEMMA WindowIsSubSeq ==
  ASSUME NEW s, NEW t, IsSequence(s), IsSequence(t)
  PROVE  t \in SubSeqs(s) <=> Window(t, s)
<1> DEFINE n == Len(s)
<1>1. n \in Nat /\ Len(t) \in Nat /\ s \in Seq(ToSet(s)) /\ t \in Seq(ToSet(t))
  BY Elements DEF IsSequence
<1>2. ASSUME NEW i \in 0 .. n, NEW j \in 0 .. n, i <= j
      PROVE  /\ SubSeq(s, i + 1, j) \in Seq(ToSet(s)) /\ Len(SubSeq(s, i + 1, j)) = j - i
             /\ \A k \in 1 .. j - i : SubSeq(s, i + 1, j)[k] = s[i + k]
  BY <1>1, <1>2
<1>3. ASSUME t \in SubSeqs(s)
      PROVE  Window(t, s)
  <2>1. PICK i \in 0 .. n, j \in 0 .. n : t = SubSeq(s, i + 1, j)
    BY <1>3 DEF SubSeqs
  <2>2. CASE i <= j
    <3>1. Len(t) = j - i /\ \A k \in 1 .. Len(t) : t[k] = s[i + k]
      BY <1>2, <2>1, <2>2
    <3>2. i + Len(t) <= n
      BY <1>1, <3>1
    <3> QED
      BY <3>1, <3>2 DEF Window
  <2>3. CASE ~(i <= j)
    <3>1. Len(t) = 0
      BY <1>1, <2>1, <2>3
    <3>2. 1 .. Len(t) = {} /\ 0 \in 0 .. n /\ 0 + Len(t) <= n
      BY <1>1, <3>1
    <3> QED
      BY <3>2 DEF Window
  <2> QED
    BY <2>2, <2>3
<1>4. ASSUME Window(t, s)
      PROVE  t \in SubSeqs(s)
  <2>1. PICK i \in 0 .. n : i + Len(t) <= n /\ \A k \in 1 .. Len(t) : t[k] = s[i + k]
    BY <1>4 DEF Window
  <2> DEFINE j == i + Len(t)
             u == SubSeq(s, i + 1, j)
  <2>2. j \in 0 .. n /\ i <= j /\ j - i = Len(t)
    BY <1>1, <2>1
  <2>3. /\ u \in Seq(ToSet(s)) /\ Len(u) = Len(t)
        /\ \A k \in 1 .. Len(t) : u[k] = t[k]
    BY <1>2, <2>1, <2>2
  <2> HIDE DEF u, j
  <2>4. u = t
    BY <1>1, <2>3
  <2> QED
    BY <2>2, <2>4 DEF SubSeqs, u
<1> QED
  BY <1>3, <1>4

(* A window of what was built verifies; and of a trail that does, each     *)
(* event is known by its number, and its link names the one before.        *)
LEMMA WindowsVerify ==
  ASSUME Typed, BuiltInOrder, AuditAssumption, NEW e \in HashChaining, NEW t, Len(t) \in Nat,
         NEW i \in 0 .. Len(built[e]), i + Len(t) <= Len(built[e]),
         \A k \in 1 .. Len(t) : t[k] = built[e][i + k]
  PROVE  /\ verifyHashChain(t)
         /\ \A k \in 1 .. Len(t) :
              /\ t[k].id = <<e, i + k>> /\ t[k].content \in AuditEventTypes \X Results
              /\ \A x : t[k].prevEventHash = hashAuditEvent(x) => x.id = <<e, i + k - 1>>
<1>1. e \in Emitters /\ Len(built[e]) \in Nat
  BY Elements DEF AuditAssumption, Typed
<1>2. ASSUME NEW k \in 1 .. Len(built[e])
      PROVE  /\ built[e][k].id = <<e, k>> /\ built[e][k].content \in AuditEventTypes \X Results
             /\ built[e][k].prevEventHash = Link(e, k)
  <2>1. PICK content \in AuditEventTypes \X Results :
          built[e][k] = [id |-> <<e, k>>, content |-> content, prevEventHash |-> Link(e, k)]
    BY <1>1 DEF BuiltInOrder
  <2> QED
    BY <2>1
<1>3. ASSUME NEW k \in 1 .. Len(t)
      PROVE  /\ t[k].id = <<e, i + k>> /\ t[k].content \in AuditEventTypes \X Results
             /\ \A x : t[k].prevEventHash = hashAuditEvent(x) => x.id = <<e, i + k - 1>>
             /\ k > 1 => t[k].prevEventHash = hashAuditEvent(t[k - 1])
  <2>1. i + k \in 1 .. Len(built[e])
    BY <1>1
  <2>2. /\ t[k].id = <<e, i + k>> /\ t[k].content \in AuditEventTypes \X Results
        /\ t[k].prevEventHash = Link(e, i + k)
    BY <1>2, <2>1
  <2>3. CASE i + k > 1
    <3>1. i + k - 1 \in 1 .. Len(built[e])
      BY <1>1, <2>1, <2>3
    <3>2. t[k].prevEventHash = hashAuditEvent(built[e][i + k - 1])
      BY <2>2, <2>3 DEF Link
    <3>3. built[e][i + k - 1].id = <<e, i + k - 1>>
      BY <1>2, <3>1
    <3>4. ASSUME k > 1
          PROVE  t[k - 1] = built[e][i + k - 1]
      <4>1. k - 1 \in 1 .. Len(t) /\ i + (k - 1) = i + k - 1
        BY <3>4
      <4> QED
        BY <4>1
    <3> QED
      BY <2>2, <3>2, <3>3, <3>4, HashIsInjective
  <2>4. CASE ~(i + k > 1)
    <3>1. t[k].prevEventHash = NoHash /\ ~(k > 1)
      BY <2>2, <2>4 DEF Link
    <3>2. \A x : hashAuditEvent(x) # NoHash
      BY DEF hashAuditEvent, NoHash
    <3> QED
      BY <2>2, <3>1, <3>2
  <2> QED
    BY <2>3, <2>4
<1>4. \A k \in 2 .. Len(t) : k \in 1 .. Len(t) /\ k > 1
  OBVIOUS
<1> QED
  BY <1>3, <1>4 DEF verifyHashChain

(* The chain of what one emitter stored verifies exactly if nothing that   *)
(* was built in between is missing from it.                                *)
THEOREM TheChainTellsGaps == Spec => []ChainTellsGaps
<1>1. ASSUME Inv, NEW e \in HashChaining
      PROVE  verifyHashChain(StoredBy(e)) <=> StoredBy(e) \in SubSeqs(built[e])
  <2> DEFINE t == StoredBy(e)
  <2>1. e \in Emitters
    BY AuditAssumption DEF AuditAssumption
  <2>2. IsSequence(built[e]) /\ t \in Seq(ToSet(built[e]))
    BY <1>1, <2>1 DEF Inv, Typed, StoredInOrder
  <2>3. IsSequence(t) /\ Len(t) \in Nat
    BY <2>2 DEF IsSequence, ToSet
  <2> HIDE DEF t
  <2>4. t \in SubSeqs(built[e]) <=> Window(t, built[e])
    BY <2>2, <2>3, WindowIsSubSeq
  <2>5. ASSUME Window(t, built[e])
        PROVE  verifyHashChain(t)
    <3>1. PICK i \in 0 .. Len(built[e]) :
            /\ i + Len(t) <= Len(built[e])
            /\ \A k \in 1 .. Len(t) : t[k] = built[e][i + k]
      BY <2>5 DEF Window
    <3> QED
      BY <1>1, <2>3, <3>1, AuditAssumption, WindowsVerify DEF Inv
  <2>6. verifyHashChain(t) => Window(t, built[e])
    BY <1>1 DEF Inv, UnbrokenIfVerified, t
  <2> QED
    BY <2>4, <2>5, <2>6 DEF t
<1>2. Inv => ChainTellsGaps
  BY <1>1 DEF ChainTellsGaps
<1> QED
  BY <1>2, InvHolds, PTL

(* A trail that verifies does so no longer once an event other than the    *)
(* last is edited, two neighbours are swapped, or one is taken out of the  *)
(* middle: each link names the event before it, and no other.              *)
THEOREM TamperingShows == Spec => []TamperingIsDetected
<1>1. ASSUME Inv, NEW e \in HashChaining, verifyHashChain(StoredBy(e))
      PROVE  /\ \A i \in 1 .. Len(StoredBy(e)) - 1 :
                  /\ ~verifyHashChain(Edited(StoredBy(e), i))
                  /\ ~verifyHashChain(Swapped(StoredBy(e), i))
             /\ \A i \in 2 .. Len(StoredBy(e)) - 1 : ~verifyHashChain(RemoveAt(StoredBy(e), i))
  <2> DEFINE t == StoredBy(e)
             n == Len(t)
  <2>1. t \in Seq(ToSet(built[e])) /\ n \in Nat
    <3>1. e \in Emitters
      BY AuditAssumption DEF AuditAssumption
    <3> QED
      BY <1>1, <3>1 DEF Inv, StoredInOrder
  <2>2. PICK o \in 0 .. Len(built[e]) :
          /\ o + n <= Len(built[e])
          /\ \A k \in 1 .. n : t[k] = built[e][o + k]
    BY <1>1 DEF Inv, UnbrokenIfVerified, Window
  <2>3. verifyHashChain(t)
    BY <1>1
  <2> HIDE DEF n, t
  <2>4. \A k \in 1 .. n :
          /\ t[k].id = <<e, o + k>> /\ t[k].content \in AuditEventTypes \X Results
          /\ \A x : t[k].prevEventHash = hashAuditEvent(x) => x.id = <<e, o + k - 1>>
    BY <1>1, <2>1, <2>2, AuditAssumption, WindowsVerify DEF Inv, n
  <2>5. ASSUME NEW i \in 1 .. n - 1, verifyHashChain(Edited(t, i))
        PROVE  FALSE
    <3> DEFINE u == Edited(t, i)
               x == [t[i] EXCEPT !.content = <<"edited">>]
    <3>1. i \in 1 .. n /\ i + 1 \in 2 .. n /\ (i + 1) - 1 = i /\ i + 1 # i /\ i + 1 \in 1 .. n
      BY <2>1
    <3>2. u = [t EXCEPT ![i] = x]
      BY DEF Edited
    <3> HIDE DEF u, x
    <3>3. Len(u) = n /\ u[i] = x /\ u[i + 1] = t[i + 1]
      <4>1. t \in Seq(ToSet(built[e]) \cup {x})
        BY <2>1
      <4>2. u \in Seq(ToSet(built[e]) \cup {x}) /\ DOMAIN u = DOMAIN t
        BY <3>1, <3>2, <4>1 DEF n
      <4> QED
        BY <2>1, <3>1, <3>2, <4>2 DEF n
    <3>4. t[i + 1].prevEventHash = hashAuditEvent(x)
      BY <2>5, <3>1, <3>3 DEF verifyHashChain, u
    <3>5. t[i + 1].prevEventHash = hashAuditEvent(t[i])
      BY <2>3, <3>1 DEF verifyHashChain, n
    <3>6. x = t[i]
      BY <3>4, <3>5, HashIsInjective
    <3>7. t[i].content \in AuditEventTypes \X Results /\ t[i] \in ToSet(built[e])
      BY <2>1, <2>4, <3>1 DEF n
    <3>8. t[i] = [id |-> t[i].id, content |-> t[i].content, prevEventHash |-> t[i].prevEventHash]
      BY <1>1, <3>7, EventsAreNumbered, AuditAssumption DEF Inv, AuditAssumption
    <3>9. x.content = <<"edited">>
      BY <3>8 DEF x
    <3>10. \A a, b : <<"edited">> # <<a, b>>
      OBVIOUS
    <3> QED
      BY <3>6, <3>7, <3>9, <3>10
  <2>6. ASSUME NEW i \in 1 .. n - 1, verifyHashChain(Swapped(t, i))
        PROVE  FALSE
    <3> DEFINE u == Swapped(t, i)
    <3>1. i \in 1 .. n /\ i + 1 \in 2 .. n /\ (i + 1) - 1 = i /\ i + 1 # i /\ i + 1 \in 1 .. n
      BY <2>1
    <3>2. Len(u) = n /\ u[i] = t[i + 1] /\ u[i + 1] = t[i]
      BY <2>1, <3>1 DEF n, Swapped
    <3> HIDE DEF u
    <3>3. t[i].prevEventHash = hashAuditEvent(t[i + 1])
      BY <2>6, <3>1, <3>2 DEF verifyHashChain, u
    <3>4. t[i + 1].id = <<e, o + i - 1>> /\ t[i + 1].id = <<e, o + (i + 1)>>
      BY <2>4, <3>1, <3>3
    <3> QED
      BY <3>4
  <2>7. ASSUME NEW i \in 2 .. n - 1, verifyHashChain(RemoveAt(t, i))
        PROVE  FALSE
    <3> DEFINE u == RemoveAt(t, i)
               S == ToSet(built[e])
    <3>1. /\ i \in 1 .. n /\ i - 1 \in 1 .. n /\ i + 1 \in 1 .. n /\ i + 1 \in 2 .. n
          /\ (i + 1) - 1 = i /\ i \in 2 .. n - 1
      BY <2>1
    <3>2. /\ SubSeq(t, 1, i - 1) \in Seq(S) /\ Len(SubSeq(t, 1, i - 1)) = i - 1
          /\ SubSeq(t, i + 1, n) \in Seq(S) /\ Len(SubSeq(t, i + 1, n)) = n - i
          /\ SubSeq(t, 1, i - 1)[i - 1] = t[i - 1]
          /\ SubSeq(t, i + 1, n)[1] = t[i + 1]
      BY <2>1, <3>1 DEF n
    <3>3. Len(u) = n - 1 /\ u[i - 1] = t[i - 1] /\ u[i] = t[i + 1]
      BY <2>1, <3>1, <3>2 DEF n, RemoveAt
    <3> HIDE DEF u
    <3>4. t[i + 1].prevEventHash = hashAuditEvent(t[i - 1])
      BY <2>7, <3>1, <3>3 DEF verifyHashChain, u
    <3>5. t[i - 1].id = <<e, o + (i + 1) - 1>> /\ t[i - 1].id = <<e, o + (i - 1)>>
      BY <2>4, <3>1, <3>4
    <3> QED
      BY <3>5
  <2> QED
    BY <2>5, <2>6, <2>7 DEF n, t
<1>2. Inv => TamperingIsDetected
  BY <1>1 DEF TamperingIsDetected
<1> QED
  BY <1>2, InvHolds, PTL
=============================================================================
