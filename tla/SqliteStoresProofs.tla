------------------------- MODULE SqliteStoresProofs -------------------------
(***************************************************************************)
(* The SQLite stores, for any number of processes and any contents of      *)
(* their tables.                                                           *)
(***************************************************************************)
EXTENDS SqliteStores, TrailsProofs

Operations == {"put", "get", "revoke", "isRevoked", "append", "query"}
Stages ==
  ({"put", "get", "isRevoked", "query"} \X {"select"}) \cup ({"put", "revoke", "append"} \X {"insert"})

Placed == UNION {Moved(i) : i \in created}

(* An identity as createIdentity() returns it: no field is null, and an    *)
(* agent names its creator.                                                *)
Whole(i) ==
  /\ i = [id |-> i.id, kind |-> i.kind, tenantId |-> i.tenantId, name |-> i.name,
          createdBy |-> i.createdBy, metadata |-> i.metadata]
  /\ NULL \notin {i.tenantId, i.name, i.createdBy, i.metadata}
  /\ i.kind = "agent" => i.createdBy \notin {Undefined, Empty}

(* What a process has in hand: an identity that was made, an event that is *)
(* the last it has built and is not in the table yet.                      *)
InHand(p, op, pc, arg) ==
  /\ op = "put" => arg \in Placed
  /\ op = "append" /\ pc = "insert" =>
       /\ arg.id = <<p, appended[p]>> /\ arg.timestamp \in Nat
       /\ \A e \in ToSet(audit_events) : e.id # arg.id

GoodCall(p, c) ==
  \/ c = NoCall
  \/ \E arg : \E stage \in Stages : /\ c = [op |-> stage[1], arg |-> arg, pc |-> stage[2]]
                                    /\ InHand(p, stage[1], stage[2], arg)
  \/ \E op \in Operations : \E arg, ans :
       c = [op |-> op, arg |-> arg, pc |-> "returned", answer |-> ans]

Calls == call = [p \in Processes |-> call[p]] /\ \A p \in Processes : GoodCall(p, call[p])

(* The tables and their keys.                                              *)
Keyed(s) == \A i, j \in 1 .. Len(s) : s[i].id = s[j].id => i = j
KeyedByHop(s) == \A i, j \in 1 .. Len(s) : s[i].hop_id = s[j].hop_id => i = j

Tables ==
  /\ IsSequence(identities) /\ Keyed(identities)
  /\ IsSequence(revocations) /\ KeyedByHop(revocations)
  /\ IsSequence(audit_events) /\ Keyed(audit_events)

RowsAreOwn ==
  /\ \A r \in ToSet(identities) : \E i \in Placed : r = row(i)
  /\ \A e \in ToSet(audit_events) :
       e.id \in Processes \X Nat /\ e.id[2] <= appended[e.id[1]] /\ e.timestamp \in Nat

Clock == now \in 0 .. MaxNow /\ appended \in [Processes -> Nat]

Created == \A i \in created : Whole(i)

Inv == Clock /\ Created /\ Calls /\ Tables /\ RowsAreOwn

-----------------------------------------------------------------------------
(* A key that is not there yet keeps a table keyed.                        *)
LEMMA KeysGrow ==
  ASSUME NEW s, IsSequence(s), NEW x
  PROVE  /\ Keyed(s) /\ (\A r \in ToSet(s) : r.id # x.id) => Keyed(Append(s, x))
         /\ KeyedByHop(s) /\ (\A r \in ToSet(s) : r.hop_id # x.hop_id) => KeyedByHop(Append(s, x))
<1> DEFINE n == Len(s)
           t == Append(s, x)
<1>1. /\ n \in Nat /\ Len(t) = n + 1 /\ t[n + 1] = x
      /\ \A i \in 1 .. n : t[i] = s[i] /\ s[i] \in ToSet(s)
      /\ \A i : i \in 1 .. n + 1 <=> i \in 1 .. n \/ i = n + 1
  BY Appended, Elements
<1> HIDE DEF n, t
<1>2. ASSUME Keyed(s), \A r \in ToSet(s) : r.id # x.id
      PROVE  Keyed(t)
  BY <1>1, <1>2 DEF Keyed, n
<1>3. ASSUME KeyedByHop(s), \A r \in ToSet(s) : r.hop_id # x.hop_id
      PROVE  KeyedByHop(t)
  BY <1>1, <1>3 DEF KeyedByHop, n
<1> QED
  BY <1>2, <1>3 DEF t

(* What moves to another tenant stays whole, and comes back from its row   *)
(* as it was put there.                                                    *)
LEMMA PlacedAreWhole ==
  ASSUME Created, SqliteAssumption, NEW i \in Placed
  PROVE  Whole(i) /\ toIdentity(row(i)) = i
<1>1. PICK o \in created : i \in Moved(o)
  BY DEF Placed
<1>2. Whole(o)
  BY DEF Created
<1>3. Whole(i)
  <2>1. CASE i = o
    BY <1>2, <2>1
  <2>2. ASSUME NEW t \in Tenants, i = [o EXCEPT !.tenantId = t]
        PROVE  Whole(i)
    <3>1. i = [id |-> o.id, kind |-> o.kind, tenantId |-> t, name |-> o.name,
               createdBy |-> o.createdBy, metadata |-> o.metadata]
      BY <1>2, <2>2 DEF Whole
    <3>2. t # NULL
      BY DEF SqliteAssumption
    <3> QED
      BY <1>2, <3>1, <3>2 DEF Whole
  <2> QED
    BY <1>1, <2>1, <2>2 DEF Moved
<1>4. /\ OrUndefined(OrNull(i.tenantId)) = i.tenantId /\ OrUndefined(OrNull(i.name)) = i.name
      /\ OrUndefined(OrNull(i.createdBy)) = i.createdBy
      /\ OrUndefined(OrNull(i.metadata)) = i.metadata
  BY <1>3 DEF Whole, OrUndefined, OrNull
<1>5. toIdentity(row(i)) = [id |-> i.id, kind |-> i.kind, tenantId |-> i.tenantId, name |-> i.name,
                            createdBy |-> i.createdBy, metadata |-> i.metadata]
  BY <1>4 DEF toIdentity, row
<1> QED
  BY <1>3, <1>5 DEF Whole

-----------------------------------------------------------------------------
(* The steps that only move the call of one process on.                    *)
OnlyCall(p, c) ==
  /\ UNCHANGED <<now, created, identities, revocations, audit_events, appended>>
  /\ call' = [call EXCEPT ![p] = c]

(* A call that moves to a good state, with the tables as they are, keeps   *)
(* the invariant.                                                          *)
LEMMA OnlyCallKeepsInv ==
  ASSUME Inv, NEW p \in Processes, NEW c, OnlyCall(p, c), GoodCall(p, c)
  PROVE  Inv'
<1>1. /\ now' = now /\ created' = created /\ identities' = identities
      /\ revocations' = revocations /\ audit_events' = audit_events /\ appended' = appended
  BY DEF OnlyCall
<1>2. Clock' /\ Created' /\ Tables' /\ RowsAreOwn'
  BY <1>1 DEF Inv, Clock, Created, Whole, Tables, Keyed, KeyedByHop, RowsAreOwn, Placed, row
<1>3. Calls'
  <2>1. \A q, x : GoodCall(q, x)' <=> GoodCall(q, x)
    BY <1>1 DEF GoodCall, InHand, Placed
  <2>2. call' = [q \in Processes |-> IF q = p THEN c ELSE call[q]]
    BY DEF OnlyCall, Inv, Calls
  <2>3. \A q \in Processes : GoodCall(q, call'[q])
    BY <2>2 DEF Inv, Calls
  <2> QED
    BY <2>1, <2>2, <2>3 DEF Calls
<1> QED
  BY <1>2, <1>3 DEF Inv

(* A call in flight is at one of the stages, and what it returns is good.  *)
LEMMA PendingCall ==
  ASSUME Calls, NEW p \in Processes, call[p].pc # "returned"
  PROVE  /\ call[p] = [op |-> call[p].op, arg |-> call[p].arg, pc |-> call[p].pc]
         /\ <<call[p].op, call[p].pc>> \in Stages /\ call[p].op \in Operations
         /\ InHand(p, call[p].op, call[p].pc, call[p].arg)
<1>1. PICK arg : \E stage \in Stages : /\ call[p] = [op |-> stage[1], arg |-> arg, pc |-> stage[2]]
                                       /\ InHand(p, stage[1], stage[2], arg)
  BY DEF Calls, GoodCall, NoCall
<1>2. PICK stage \in Stages : /\ call[p] = [op |-> stage[1], arg |-> arg, pc |-> stage[2]]
                              /\ InHand(p, stage[1], stage[2], arg)
  BY <1>1
<1>3. stage = <<stage[1], stage[2]>> /\ stage[1] \in Operations
  BY DEF Stages, Operations
<1> QED
  BY <1>2, <1>3

Returned(p, ans) == [op |-> call[p].op, arg |-> call[p].arg, pc |-> "returned", answer |-> ans]

(* A call that returns is in a good state.                                 *)
LEMMA ReturnIsGood ==
  ASSUME Calls, NEW p \in Processes, call[p].pc # "returned", NEW ans, Return(p, ans)
  PROVE  call' = [call EXCEPT ![p] = Returned(p, ans)] /\ GoodCall(p, Returned(p, ans))
<1>1. call[p].op \in Operations
  BY PendingCall
<1> QED
  BY <1>1 DEF Return, Returned, GoodCall

(* Return keeps the invariant where nothing else is changed.               *)
LEMMA ReturnKeepsInv ==
  ASSUME Inv, NEW p \in Processes, call[p].pc # "returned", NEW ans, Return(p, ans),
         UNCHANGED <<now, created, tables, appended>>
  PROVE  Inv'
<1>1. call' = [call EXCEPT ![p] = Returned(p, ans)] /\ GoodCall(p, Returned(p, ans))
  BY ReturnIsGood DEF Inv
<1>2. OnlyCall(p, Returned(p, ans))
  BY <1>1 DEF OnlyCall, tables
<1> QED
  BY <1>1, <1>2, OnlyCallKeepsInv

(* So is one that has just been made.                                      *)
LEMMA CallKeepsInv ==
  ASSUME Inv, NEW p \in Processes, NEW op, NEW arg, NEW pc, Call(p, op, arg, pc),
         UNCHANGED appended, <<op, pc>> \in Stages, InHand(p, op, pc, arg)
  PROVE  Inv'
<1> DEFINE c == [op |-> op, arg |-> arg, pc |-> pc]
<1>1. OnlyCall(p, c)
  BY DEF Call, OnlyCall, tables
<1>2. GoodCall(p, c)
  <2>1. \E stage \in Stages : /\ c = [op |-> stage[1], arg |-> arg, pc |-> stage[2]]
                              /\ InHand(p, stage[1], stage[2], arg)
    <3>1. c = [op |-> <<op, pc>>[1], arg |-> arg, pc |-> <<op, pc>>[2]]
      OBVIOUS
    <3>2. InHand(p, <<op, pc>>[1], <<op, pc>>[2], arg)
      OBVIOUS
    <3> HIDE DEF c
    <3> QED
      BY <3>1, <3>2
  <2> QED
    BY <2>1 DEF GoodCall
<1> HIDE DEF c
<1> QED
  BY <1>1, <1>2, OnlyCallKeepsInv

(* The steps that change no table.                                         *)
LEMMA CallsKeepInv ==
  ASSUME Inv, NEW p \in Processes
  PROVE  /\ \A i \in Placed : put(p, i) => Inv'
         /\ \A id : get(p, id) => Inv'
         /\ \A h : isRevoked(p, h) => Inv'
         /\ \A h, t : revoke(p, h, t) => Inv'
         /\ \A f : query(p, f) => Inv'
<1>1. ASSUME NEW i \in Placed, put(p, i)
      PROVE  Inv'
  <2>1. InHand(p, "put", "select", i) /\ <<"put", "select">> \in Stages
    BY DEF InHand, Stages
  <2> QED
    BY <1>1, <2>1, CallKeepsInv DEF put
<1>2. ASSUME NEW id, get(p, id)
      PROVE  Inv'
  <2>1. InHand(p, "get", "select", id) /\ <<"get", "select">> \in Stages
    BY DEF InHand, Stages
  <2> QED
    BY <1>2, <2>1, CallKeepsInv DEF get
<1>3. ASSUME NEW h, isRevoked(p, h)
      PROVE  Inv'
  <2>1. InHand(p, "isRevoked", "select", h) /\ <<"isRevoked", "select">> \in Stages
    BY DEF InHand, Stages
  <2> QED
    BY <1>3, <2>1, CallKeepsInv DEF isRevoked
<1>4. ASSUME NEW h, NEW t, revoke(p, h, t)
      PROVE  Inv'
  <2>1. /\ InHand(p, "revoke", "insert", [hop_id |-> h, tenant_id |-> OrNull(t)])
        /\ <<"revoke", "insert">> \in Stages
    BY DEF InHand, Stages
  <2> QED
    BY <1>4, <2>1, CallKeepsInv DEF revoke
<1>5. ASSUME NEW f, query(p, f)
      PROVE  Inv'
  <2>1. InHand(p, "query", "select", f) /\ <<"query", "select">> \in Stages
    BY DEF InHand, Stages
  <2> QED
    BY <1>5, <2>1, CallKeepsInv DEF query
<1> QED
  BY <1>1, <1>2, <1>3, <1>4, <1>5

(* The statements that only read, those that fail, and a process that      *)
(* stops.                                                                  *)
LEMMA SelectsKeepInv ==
  ASSUME Inv, NEW p \in Processes,
         \/ putSelects(p) \/ getSelects(p) \/ isRevokedSelects(p) \/ querySelects(p)
         \/ StatementFails(p) \/ Crash(p)
  PROVE  Inv'
<1>1. CASE putSelects(p)
  <2>1. call[p].pc = "select" /\ call[p].op = "put"
    BY <1>1 DEF putSelects, Executes
  <2>2. CASE Return(p, Result("DuplicateIdentityError"))
    BY <1>1, <2>1, <2>2, ReturnKeepsInv DEF putSelects
  <2>3. CASE call' = [call EXCEPT ![p].pc = "insert"]
    <3> DEFINE c == [op |-> "put", arg |-> call[p].arg, pc |-> "insert"]
    <3>1. /\ call[p] = [op |-> call[p].op, arg |-> call[p].arg, pc |-> call[p].pc]
          /\ InHand(p, call[p].op, call[p].pc, call[p].arg)
      BY <2>1, PendingCall DEF Inv
    <3>2. OnlyCall(p, c)
      <4>1. [call[p] EXCEPT !.pc = "insert"] = c
        BY <2>1, <3>1
      <4> QED
        BY <1>1, <2>3, <4>1 DEF putSelects, OnlyCall, tables
    <3>3. InHand(p, "put", "insert", call[p].arg)
      BY <2>1, <3>1 DEF InHand
    <3>4. GoodCall(p, c)
      <4>1. <<"put", "insert">> \in Stages
        BY DEF Stages
      <4>2. \E arg : \E stage \in Stages : /\ c = [op |-> stage[1], arg |-> arg, pc |-> stage[2]]
                                           /\ InHand(p, stage[1], stage[2], arg)
        BY <3>3, <4>1
      <4> QED
        BY <4>2 DEF GoodCall
    <3> HIDE DEF c
    <3> QED
      BY <3>2, <3>4, OnlyCallKeepsInv
  <2> QED
    BY <1>1, <2>2, <2>3 DEF putSelects
<1>2. CASE getSelects(p)
  <2>1. call[p].pc # "returned" /\ \E ans : Return(p, ans)
    BY <1>2 DEF getSelects, Executes
  <2> QED
    BY <1>2, <2>1, ReturnKeepsInv DEF getSelects
<1>3. CASE isRevokedSelects(p)
  <2>1. call[p].pc # "returned" /\ \E ans : Return(p, ans)
    BY <1>3 DEF isRevokedSelects, Executes
  <2> QED
    BY <1>3, <2>1, ReturnKeepsInv DEF isRevokedSelects
<1>4. CASE querySelects(p)
  <2>1. call[p].pc # "returned" /\ \E ans : Return(p, ans)
    BY <1>4 DEF querySelects, Executes
  <2> QED
    BY <1>4, <2>1, ReturnKeepsInv DEF querySelects
<1>5. CASE StatementFails(p)
  BY <1>5, ReturnKeepsInv DEF StatementFails
<1>6. CASE Crash(p)
  <2>1. OnlyCall(p, NoCall) /\ GoodCall(p, NoCall)
    BY <1>6 DEF Crash, OnlyCall, tables, GoodCall
  <2> QED
    BY <2>1, OnlyCallKeepsInv
<1> QED
  BY <1>1, <1>2, <1>3, <1>4, <1>5, <1>6

-----------------------------------------------------------------------------
(* The steps that change more than a call: what the other processes have   *)
(* in hand stays good.                                                     *)
LEMMA CallsMove ==
  ASSUME Calls, NEW p \in Processes, NEW c, call' = [call EXCEPT ![p] = c], GoodCall(p, c)',
         \A q \in Processes \ {p} : \A x : GoodCall(q, x) => GoodCall(q, x)'
  PROVE  Calls'
<1>1. call' = [q \in Processes |-> IF q = p THEN c ELSE call[q]]
  BY DEF Calls
<1>2. ASSUME NEW q \in Processes, NEW x, x = call'[q]
      PROVE  GoodCall(q, x)'
  <2>1. CASE q = p
    BY <1>1, <1>2, <2>1
  <2>2. CASE q # p
    BY <1>1, <1>2, <2>2 DEF Calls
  <2> QED
    BY <2>1, <2>2
<1>3. \A q \in Processes : GoodCall(q, call[q])'
  BY <1>2
<1> QED
  BY <1>1, <1>3 DEF Calls

(* The clock is set, forwards or backwards.                                *)
LEMMA SetClockKeepsInv ==
  ASSUME Inv, NEW t \in 0 .. MaxNow, SetClock(t)
  PROVE  Inv'
<1>1. /\ now' = t /\ created' = created /\ identities' = identities /\ call' = call
      /\ revocations' = revocations /\ audit_events' = audit_events /\ appended' = appended
  BY DEF SetClock, tables
<1>2. Clock' /\ Created' /\ Tables' /\ RowsAreOwn'
  BY <1>1 DEF Inv, Clock, Created, Whole, Tables, Keyed, KeyedByHop, RowsAreOwn, Placed, row
<1>3. \A q, x : GoodCall(q, x)' <=> GoodCall(q, x)
  BY <1>1 DEF GoodCall, InHand, Placed
<1>4. Calls'
  BY <1>1, <1>3 DEF Inv, Calls
<1> QED
  BY <1>2, <1>4 DEF Inv

(* An identity is created, with an id of its own.                          *)
LEMMA CreateKeepsInv ==
  ASSUME Inv, SqliteAssumption, NEW input \in Inputs, createIdentity(input)
  PROVE  Inv'
<1> DEFINE i == [id |-> Cardinality(created) + 1, kind |-> kind(input), tenantId |-> input.tenantId,
                 name |-> input.name, createdBy |-> input.createdBy, metadata |-> input.metadata]
<1>1. /\ created' = created \cup {i} /\ now' = now /\ identities' = identities /\ call' = call
      /\ revocations' = revocations /\ audit_events' = audit_events /\ appended' = appended
  BY DEF createIdentity, tables
<1>2. Whole(i)
  BY DEF createIdentity, validInput, traceable, Whole, SqliteAssumption
<1> HIDE DEF i
<1>3. Placed \subseteq Placed'
  BY <1>1 DEF Placed
<1>4. Clock' /\ Created' /\ Tables' /\ RowsAreOwn'
  <2>1. Clock' /\ Tables'
    BY <1>1 DEF Inv, Clock, Tables, Keyed, KeyedByHop
  <2>2. Created'
    BY <1>1, <1>2 DEF Inv, Created, Whole
  <2>3. RowsAreOwn'
    BY <1>1, <1>3 DEF Inv, RowsAreOwn, row
  <2> QED
    BY <2>1, <2>2, <2>3
<1>5. \A q, x : GoodCall(q, x) => GoodCall(q, x)'
  BY <1>1, <1>3 DEF GoodCall, InHand
<1>6. Calls'
  BY <1>1, <1>5 DEF Inv, Calls
<1> QED
  BY <1>4, <1>6 DEF Inv

(* An emitter hands an event to append().                                  *)
LEMMA AppendKeepsInv ==
  ASSUME Inv, NEW p \in Processes, NEW t, append(p, t)
  PROVE  Inv'
<1>0. PICK n, e, c : /\ n = appended[p]
                     /\ e = [id |-> <<p, n + 1>>, timestamp |-> now, tenantId |-> t]
                     /\ c = [op |-> "append", arg |-> e, pc |-> "insert"]
  OBVIOUS
<1>1. /\ appended' = [appended EXCEPT ![p] = n + 1] /\ call' = [call EXCEPT ![p] = c]
      /\ now' = now /\ created' = created /\ identities' = identities
      /\ revocations' = revocations /\ audit_events' = audit_events
  BY <1>0 DEF append, Call, tables
<1>2. /\ n \in Nat /\ now \in Nat /\ appended \in [Processes -> Nat]
      /\ appended' \in [Processes -> Nat] /\ appended'[p] = n + 1
      /\ \A q \in Processes \ {p} : appended'[q] = appended[q]
  BY <1>0, <1>1 DEF Inv, Clock
<1>3. Clock' /\ Created' /\ Tables'
  BY <1>1, <1>2 DEF Inv, Clock, Created, Whole, Tables, Keyed, KeyedByHop
<1>4. Placed' = Placed
  BY <1>1 DEF Placed
<1>5. RowsAreOwn'
  <2>1. ASSUME NEW x \in ToSet(audit_events)
        PROVE  x.id \in Processes \X Nat /\ x.id[2] <= appended'[x.id[1]] /\ x.timestamp \in Nat
    <3>1. x.id \in Processes \X Nat /\ x.id[2] <= appended[x.id[1]] /\ x.timestamp \in Nat
      BY DEF Inv, RowsAreOwn
    <3>2. x.id[1] \in Processes /\ x.id[2] \in Nat
      BY <3>1
    <3>3. appended[x.id[1]] <= appended'[x.id[1]]
      BY <1>0, <1>2, <3>2
    <3> QED
      BY <1>2, <3>1, <3>2, <3>3
  <2> QED
    BY <1>1, <1>4, <2>1 DEF Inv, RowsAreOwn, row
<1>6. \A x \in ToSet(audit_events) : x.id # <<p, n + 1>>
  <2>1. ASSUME NEW x \in ToSet(audit_events), x.id = <<p, n + 1>>
        PROVE  FALSE
    <3>1. x.id[2] <= appended[x.id[1]]
      BY DEF Inv, RowsAreOwn
    <3> QED
      BY <1>0, <1>2, <2>1, <3>1
  <2> QED
    BY <2>1
<1>7. GoodCall(p, c)'
  <2>1. InHand(p, "append", "insert", e)'
    BY <1>0, <1>1, <1>2, <1>6 DEF InHand
  <2>2. <<"append", "insert">> \in Stages
    BY DEF Stages
  <2>3. \E stage \in Stages : /\ c = [op |-> stage[1], arg |-> e, pc |-> stage[2]]
                              /\ InHand(p, stage[1], stage[2], e)'
    BY <1>0, <2>1, <2>2
  <2> QED
    BY <2>3 DEF GoodCall
<1>8. \A q \in Processes \ {p} : \A x : GoodCall(q, x) => GoodCall(q, x)'
  BY <1>1, <1>2, <1>4 DEF GoodCall, InHand
<1>9. Calls'
  BY <1>1, <1>7, <1>8, CallsMove DEF Inv
<1> QED
  BY <1>3, <1>5, <1>9 DEF Inv

(* What is inserted is what the process has in hand.                       *)
LEMMA PutInsertsKeepsInv ==
  ASSUME Inv, NEW p \in Processes, putInserts(p)
  PROVE  Inv'
<1>1. call[p].op = "put" /\ call[p].pc = "insert" /\ call[p].arg \in Placed
  BY PendingCall DEF Inv, putInserts, Executes, InHand
<1>2. CASE Return(p, Result("SQLITE_CONSTRAINT_PRIMARYKEY")) /\ UNCHANGED identities
  BY <1>1, <1>2, ReturnKeepsInv DEF putInserts, tables
<1>3. CASE /\ ~conflicts(call[p].arg.id)
           /\ Return(p, Result("stored")) /\ identities' = Append(identities, row(call[p].arg))
  <2>1. PICK c : c = Returned(p, Result("stored"))
    OBVIOUS
  <2>2. /\ now' = now /\ created' = created /\ call' = [call EXCEPT ![p] = c]
        /\ revocations' = revocations /\ audit_events' = audit_events /\ appended' = appended
        /\ GoodCall(p, c)
    BY <1>1, <1>3, <2>1, ReturnIsGood DEF Inv, putInserts
  <2>3. Clock' /\ Created'
    BY <2>2 DEF Inv, Clock, Created, Whole
  <2>4. Tables'
    <3>1. \A r \in ToSet(identities) : r.id # row(call[p].arg).id
      BY <1>3 DEF conflicts, existing, row
    <3>2. IsSequence(identities') /\ Keyed(identities')
      BY <1>3, <3>1, Appended, KeysGrow DEF Inv, Tables
    <3>3. /\ IsSequence(revocations') /\ KeyedByHop(revocations')
          /\ IsSequence(audit_events') /\ Keyed(audit_events')
      BY <2>2 DEF Inv, Tables
    <3> QED
      BY <3>2, <3>3 DEF Tables, Keyed, KeyedByHop
  <2>5. RowsAreOwn'
    <3>1. ToSet(identities') = ToSet(identities) \cup {row(call[p].arg)}
      BY <1>3, Appended DEF Inv, Tables
    <3>2. \A r \in ToSet(identities') : \E i \in Placed : r = row(i)
      BY <1>1, <3>1 DEF Inv, RowsAreOwn
    <3> QED
      BY <2>2, <3>2 DEF Inv, RowsAreOwn, Placed, row
  <2>6. \A q, x : GoodCall(q, x) => GoodCall(q, x)'
    BY <2>2 DEF GoodCall, InHand, Placed
  <2>7. Calls'
    BY <2>2, <2>6, CallsMove DEF Inv
  <2> QED
    BY <2>3, <2>4, <2>5, <2>7 DEF Inv
<1> QED
  BY <1>2, <1>3 DEF putInserts

(* A revocation is inserted, or ignored if the hop has one.                *)
LEMMA RevokeInsertsKeepsInv ==
  ASSUME Inv, NEW p \in Processes, revokeInserts(p)
  PROVE  Inv'
<1>1. call[p].pc # "returned"
  BY DEF revokeInserts, Executes
<1>2. PICK c : c = Returned(p, Result("done"))
  OBVIOUS
<1>3. /\ now' = now /\ created' = created /\ call' = [call EXCEPT ![p] = c]
      /\ identities' = identities /\ audit_events' = audit_events /\ appended' = appended
      /\ GoodCall(p, c)
  BY <1>1, <1>2, ReturnIsGood DEF Inv, revokeInserts
<1>4. Clock' /\ Created' /\ RowsAreOwn'
  BY <1>3 DEF Inv, Clock, Created, Whole, RowsAreOwn, Placed, row
<1>5. IsSequence(revocations') /\ KeyedByHop(revocations')
  <2>1. CASE call[p].arg.hop_id \in revokedHops
    BY <2>1 DEF revokeInserts, Inv, Tables
  <2>2. CASE call[p].arg.hop_id \notin revokedHops
    <3>1. revocations' = Append(revocations, call[p].arg)
      BY <2>2 DEF revokeInserts
    <3>2. \A r \in ToSet(revocations) : r.hop_id # call[p].arg.hop_id
      BY <2>2 DEF revokedHops
    <3> QED
      BY <3>1, <3>2, Appended, KeysGrow DEF Inv, Tables
  <2> QED
    BY <2>1, <2>2
<1>6. Tables'
  BY <1>3, <1>5 DEF Inv, Tables, Keyed, KeyedByHop
<1>7. \A q, x : GoodCall(q, x) => GoodCall(q, x)'
  BY <1>3 DEF GoodCall, InHand, Placed
<1>8. Calls'
  BY <1>3, <1>7, CallsMove DEF Inv
<1> QED
  BY <1>4, <1>6, <1>8 DEF Inv

(* An event is inserted at the end of the table.                           *)
LEMMA AppendInsertsKeepsInv ==
  ASSUME Inv, NEW p \in Processes, appendInserts(p)
  PROVE  Inv'
<1>1. call[p].op = "append" /\ call[p].pc = "insert"
  BY DEF appendInserts, Executes
<1>2. PICK e : e = call[p].arg
  OBVIOUS
<1>3. e.id = <<p, appended[p]>> /\ e.timestamp \in Nat /\ \A x \in ToSet(audit_events) : x.id # e.id
  BY <1>1, <1>2, PendingCall DEF Inv, InHand
<1>4. PICK c : c = Returned(p, Result("done"))
  OBVIOUS
<1>5. /\ now' = now /\ created' = created /\ call' = [call EXCEPT ![p] = c]
      /\ identities' = identities /\ revocations' = revocations /\ appended' = appended
      /\ audit_events' = Append(audit_events, e) /\ GoodCall(p, c)
  BY <1>1, <1>2, <1>4, ReturnIsGood DEF Inv, appendInserts
<1>6. Clock' /\ Created'
  BY <1>5 DEF Inv, Clock, Created, Whole
<1>7. Tables'
  <2>1. IsSequence(audit_events') /\ Keyed(audit_events')
    BY <1>3, <1>5, Appended, KeysGrow DEF Inv, Tables
  <2> QED
    BY <1>5, <2>1 DEF Inv, Tables, Keyed, KeyedByHop
<1>8. ToSet(audit_events') = ToSet(audit_events) \cup {e}
  BY <1>5, Appended DEF Inv, Tables
<1>9. appended[p] \in Nat
  BY DEF Inv, Clock
<1>10. RowsAreOwn'
  <2>1. e.id \in Processes \X Nat /\ e.id[2] <= appended[e.id[1]]
    BY <1>3, <1>9
  <2>2. \A x \in ToSet(audit_events') :
          x.id \in Processes \X Nat /\ x.id[2] <= appended[x.id[1]] /\ x.timestamp \in Nat
    BY <1>3, <1>8, <2>1 DEF Inv, RowsAreOwn
  <2> QED
    BY <1>5, <2>2 DEF Inv, RowsAreOwn, Placed, row
<1>11. ASSUME NEW q \in Processes \ {p}, NEW x, GoodCall(q, x)
       PROVE  GoodCall(q, x)'
  <2>1. \A op, pc, arg : InHand(q, op, pc, arg) => InHand(q, op, pc, arg)'
    <3>1. e.id # <<q, appended[q]>>
      BY <1>3
    <3> QED
      BY <1>5, <1>8, <3>1 DEF InHand, Placed
  <2> QED
    BY <1>11, <2>1 DEF GoodCall
<1>12. GoodCall(p, c)'
  <2>1. call[p].op \in Operations
    BY <1>1 DEF Operations
  <2> QED
    BY <1>4, <2>1 DEF GoodCall, Returned
<1>13. Calls'
  BY <1>5, <1>11, <1>12, CallsMove DEF Inv
<1> QED
  BY <1>6, <1>7, <1>10, <1>13 DEF Inv

-----------------------------------------------------------------------------
(* Every step keeps the invariant.                                         *)
LEMMA InvStep ==
  ASSUME Inv, SqliteAssumption, [Next]_vars
  PROVE  Inv'
<1>1. CASE UNCHANGED vars
  <2>1. /\ now' = now /\ created' = created /\ identities' = identities /\ call' = call
        /\ revocations' = revocations /\ audit_events' = audit_events /\ appended' = appended
    BY <1>1 DEF vars, tables
  <2>2. Clock' /\ Created' /\ Tables' /\ RowsAreOwn'
    BY <2>1 DEF Inv, Clock, Created, Whole, Tables, Keyed, KeyedByHop, RowsAreOwn, Placed, row
  <2>3. Calls'
    BY <2>1 DEF Inv, Calls, GoodCall, InHand, Placed
  <2> QED
    BY <2>2, <2>3 DEF Inv
<1>2. ASSUME NEW t \in 0 .. MaxNow, SetClock(t)
      PROVE  Inv'
  BY <1>2, SetClockKeepsInv
<1>3. ASSUME NEW input \in Inputs, createIdentity(input)
      PROVE  Inv'
  BY <1>3, CreateKeepsInv
<1>4. ASSUME NEW p \in Processes,
             \/ \E i \in Placed : put(p, i)
             \/ \E identity \in created : get(p, identity.id)
             \/ \E h \in HopIds : isRevoked(p, h) \/ \E t \in Tenants : revoke(p, h, t)
             \/ \E t \in Tenants : append(p, t)
             \/ \E filter \in Filters : query(p, filter)
      PROVE  Inv'
  BY <1>4, CallsKeepInv, AppendKeepsInv
<1>5. ASSUME NEW p \in Processes,
             \/ putSelects(p) \/ putInserts(p) \/ getSelects(p)
             \/ revokeInserts(p) \/ isRevokedSelects(p)
             \/ appendInserts(p) \/ querySelects(p)
             \/ StatementFails(p) \/ Crash(p)
      PROVE  Inv'
  BY <1>5, SelectsKeepInv, PutInsertsKeepsInv, RevokeInsertsKeepsInv, AppendInsertsKeepsInv
<1> QED
  BY <1>1, <1>2, <1>3, <1>4, <1>5 DEF Next, Placed

(* And it holds initially.                                                 *)
LEMMA InitHoldsInv ==
  ASSUME Init, SqliteAssumption
  PROVE  Inv
<1>1. /\ identities = <<>> /\ revocations = <<>> /\ audit_events = <<>>
      /\ IsSequence(<<>>) /\ ToSet(<<>>) = {} /\ Len(<<>>) = 0
  BY DEF Init, IsSequence, ToSet
<1>2. \A i : i \notin 1 .. 0
  OBVIOUS
<1>3. Tables /\ RowsAreOwn
  BY <1>1, <1>2 DEF Tables, Keyed, KeyedByHop, RowsAreOwn
<1>4. Clock /\ Created /\ Calls
  BY DEF Init, Clock, Created, Calls, GoodCall, SqliteAssumption
<1> QED
  BY <1>3, <1>4 DEF Inv

(* The invariant holds throughout, whichever processes stop or fail.       *)
THEOREM InvHolds == Spec => []Inv
<1>1. Init => Inv
  BY InitHoldsInv, SqliteAssumption
<1>2. Inv /\ [Next]_vars => Inv'
  BY InvStep, SqliteAssumption
<1> QED
  BY <1>1, <1>2, PTL DEF Spec

(* The tables have their keys, and hold nothing but what createIdentity()  *)
(* or an emitter has made, unharmed by the way into a row and back.        *)
THEOREM TypeIsCorrect == Spec => []TypeOK
<1>1. ASSUME Inv
      PROVE  TypeOK
  <2>1. /\ DOMAIN identities = 1 .. Len(identities) /\ DOMAIN revocations = 1 .. Len(revocations)
        /\ DOMAIN audit_events = 1 .. Len(audit_events)
    BY <1>1, Elements DEF Inv, Tables
  <2>2. /\ IsInjective([i \in DOMAIN identities |-> identities[i].id])
        /\ IsInjective([i \in DOMAIN revocations |-> revocations[i].hop_id])
        /\ IsInjective([i \in DOMAIN audit_events |-> audit_events[i].id])
    BY <1>1, <2>1 DEF Inv, Tables, Keyed, KeyedByHop, IsInjective
  <2>3. ASSUME NEW r \in ToSet(identities)
        PROVE  toIdentity(r) \in Placed
    <3>1. PICK i \in Placed : r = row(i)
      BY <1>1 DEF Inv, RowsAreOwn
    <3> QED
      BY <1>1, <3>1, SqliteAssumption, PlacedAreWhole DEF Inv
  <2>4. now \in 0 .. MaxNow /\ \A e \in ToSet(audit_events) : e.id[2] <= appended[e.id[1]]
    BY <1>1 DEF Inv, Clock, RowsAreOwn
  <2> QED
    BY <2>2, <2>3, <2>4 DEF TypeOK, Placed
<1> QED
  BY <1>1, InvHolds, PTL

(* Every agent that is stored names its creator, whatever createIdentity() *)
(* was asked for and however the row was read back.                        *)
THEOREM AgentsAreTraceable == Spec => []StoredAgentsAreTraceable
<1>1. ASSUME Inv, NEW r \in ToSet(identities), toIdentity(r).kind = "agent"
      PROVE  toIdentity(r).createdBy \notin {Undefined, Empty}
  <2>1. PICK i \in Placed : r = row(i)
    BY <1>1 DEF Inv, RowsAreOwn
  <2>2. Whole(i) /\ toIdentity(row(i)) = i
    BY <1>1, SqliteAssumption, PlacedAreWhole DEF Inv
  <2> QED
    BY <1>1, <2>1, <2>2 DEF Whole
<1>2. Inv => StoredAgentsAreTraceable
  BY <1>1 DEF StoredAgentsAreTraceable
<1> QED
  BY <1>2, InvHolds, PTL

-----------------------------------------------------------------------------
(* What the sort returns: the rows there are, those of equal timestamps in *)
(* the order they were in.                                                 *)
Earlier(rows, i, j) ==
  \/ rows[i].timestamp < rows[j].timestamp
  \/ rows[i].timestamp = rows[j].timestamp /\ i < j
EarlierPairs(rows) ==
  {pair \in (DOMAIN rows) \X (DOMAIN rows) : Earlier(rows, pair[1], pair[2])}
RowAt(rows, k) ==
  CHOOSE i \in DOMAIN rows : Cardinality({j \in DOMAIN rows : Earlier(rows, j, i)}) + 1 = k

(* What ORDER BY timestamp returns: all the rows, by time, and rows of one *)
(* time in the order of the table.                                         *)
LEMMA RowsInOrder ==
  ASSUME NEW rows, NEW n \in Nat, DOMAIN rows = 1 .. n,
         \A i \in 1 .. n : rows[i].timestamp \in Nat
  PROVE  /\ orderByTimestamp(rows) = [k \in 1 .. n |-> rows[RowAt(rows, k)]]
         /\ \A k \in 1 .. n : RowAt(rows, k) \in 1 .. n
         /\ \A k, l \in 1 .. n : k < l => Earlier(rows, RowAt(rows, k), RowAt(rows, l))
         /\ \A i \in 1 .. n : \E k \in 1 .. n : RowAt(rows, k) = i
<1> DEFINE R == EarlierPairs(rows)
           D == 1 .. n
           before(i) == {j \in DOMAIN rows : Earlier(rows, j, i)}
<1>1. orderByTimestamp(rows) = [k \in 1 .. n |-> rows[RowAt(rows, k)]]
  BY DEF orderByTimestamp, RowAt, Earlier
<1>2. IsFiniteSet(D) /\ Cardinality(D) = n
  <2>1. 1 \in Int /\ n \in Int /\ (IF 1 > n THEN 0 ELSE n - 1 + 1) = n
    OBVIOUS
  <2> QED
    BY <2>1, FS_Interval
<1>3. \A i, j \in D : <<i, j>> \in R <=> Earlier(rows, i, j)
  BY DEF EarlierPairs
<1>4. StrictOrder(R, D)
  <2>1. \A i \in D : ~Earlier(rows, i, i)
    BY DEF Earlier
  <2>2. \A i, j \in D : i = j \/ Earlier(rows, i, j) \/ Earlier(rows, j, i)
    BY DEF Earlier
  <2>3. \A i, j, k \in D : Earlier(rows, i, j) /\ Earlier(rows, j, k) => Earlier(rows, i, k)
    BY DEF Earlier
  <2> HIDE DEF R, D
  <2> QED
    BY <1>3, <2>1, <2>2, <2>3 DEF StrictOrder
<1>5. Ranked(R, D)
  BY <1>2, <1>4, Ranks
<1>6. \A i \in D : Below(R, D, i) = before(i)
  BY <1>3 DEF Below
<1>7. /\ \A i \in D : Cardinality(before(i)) \in 0 .. n - 1
      /\ \A i, j \in D : Earlier(rows, i, j) <=> Cardinality(before(i)) < Cardinality(before(j))
      /\ \A k \in 0 .. n - 1 : \E i \in D : Cardinality(before(i)) = k
  <2> HIDE DEF R, D, before
  <2> QED
    BY <1>2, <1>3, <1>5, <1>6 DEF Ranked
<1>8. \A k : RowAt(rows, k) = CHOOSE i \in D : Cardinality(before(i)) + 1 = k
  BY DEF RowAt
<1> HIDE DEF before, R
<1>9. ASSUME NEW k \in 1 .. n
      PROVE  RowAt(rows, k) \in D /\ Cardinality(before(RowAt(rows, k))) + 1 = k
  <2>1. k - 1 \in 0 .. n - 1
    OBVIOUS
  <2>2. PICK i \in D : Cardinality(before(i)) = k - 1
    BY <1>7, <2>1
  <2>3. \E j \in D : Cardinality(before(j)) + 1 = k
    BY <2>2
  <2> QED
    BY <1>8, <2>3
<1>10. ASSUME NEW k \in 1 .. n, NEW l \in 1 .. n, k < l
       PROVE  Earlier(rows, RowAt(rows, k), RowAt(rows, l))
  <2>1. Cardinality(before(RowAt(rows, k))) < Cardinality(before(RowAt(rows, l)))
    <3>1. /\ Cardinality(before(RowAt(rows, k))) \in 0 .. n - 1
          /\ Cardinality(before(RowAt(rows, l))) \in 0 .. n - 1
      BY <1>7, <1>9
    <3> QED
      BY <1>9, <1>10, <3>1
  <2> QED
    BY <1>7, <1>9, <2>1
<1>11. ASSUME NEW i \in D
       PROVE  \E k \in 1 .. n : RowAt(rows, k) = i
  <2>1. PICK k \in 1 .. n : k = Cardinality(before(i)) + 1
    BY <1>7
  <2>2. PICK x \in D : x = RowAt(rows, k) /\ Cardinality(before(x)) + 1 = k
    BY <1>9
  <2>3. Cardinality(before(x)) \in 0 .. n - 1 /\ Cardinality(before(i)) \in 0 .. n - 1
    BY <1>7
  <2>4. ~Earlier(rows, x, i) /\ ~Earlier(rows, i, x)
    BY <1>7, <2>1, <2>2, <2>3
  <2>5. x = i
    BY <1>4, <1>3, <2>4 DEF StrictOrder
  <2> QED
    BY <2>2, <2>5
<1> QED
  BY <1>1, <1>9, <1>10, <1>11

(* What a filter finds: the events that match, at their places.            *)
Matching(filter) ==
  {i \in DOMAIN audit_events : \A field \in DOMAIN filter : audit_events[i][field] = filter[field]}

(* WHERE finds the rows that match, in the order of the table.             *)
LEMMA WhereFinds ==
  ASSUME Inv, NEW filter
  PROVE  /\ where(filter) = Picked(audit_events, Matching(filter))
         /\ Matching(filter) \in SUBSET (1 .. Len(audit_events)) /\ Len(audit_events) \in Nat
         /\ Matching(filter) \in SUBSET Int /\ IsFiniteSet(Matching(filter))
<1>1. DOMAIN audit_events = 1 .. Len(audit_events) /\ Len(audit_events) \in Nat
  BY Elements DEF Inv, Tables
<1>2. IsFiniteSet(1 .. Len(audit_events))
  BY <1>1, FS_Interval
<1>3. Matching(filter) \in SUBSET (1 .. Len(audit_events))
  BY <1>1 DEF Matching
<1>4. IsFiniteSet(Matching(filter))
  BY <1>2, <1>3, FS_Subset
<1> QED
  BY <1>1, <1>3, <1>4 DEF where, Matching

(* Sorting them adds and loses none.                                       *)
LEMMA QueryFinds ==
  ASSUME Inv, NEW filter
  PROVE  ToSet(orderByTimestamp(where(filter))) =
           {e \in ToSet(audit_events) : \A field \in DOMAIN filter : e[field] = filter[field]}
<1> DEFINE places == Matching(filter)
           n == Cardinality(places)
           rows == where(filter)
<1>1. /\ rows = Picked(audit_events, places) /\ places \in SUBSET (1 .. Len(audit_events))
      /\ places \in SUBSET Int /\ IsFiniteSet(places)
  BY WhereFinds
<1>2. n \in Nat /\ DOMAIN rows = 1 .. n /\ ToSet(rows) = {audit_events[i] : i \in places}
  <2> HIDE DEF places, rows
  <2>1. Cardinality(places) \in Nat /\ DOMAIN Picked(audit_events, places) = 1 .. Cardinality(places)
    BY <1>1, PickedElements
  <2>2. ToSet(Picked(audit_events, places)) = {audit_events[i] : i \in places}
    BY <1>1, PlacesInOrder
  <2> QED
    BY <1>1, <2>1, <2>2
<1>3. ToSet(rows) = {e \in ToSet(audit_events) : \A field \in DOMAIN filter : e[field] = filter[field]}
  BY <1>2 DEF ToSet, Matching
<1> HIDE DEF n, rows, places
<1>4. \A i \in 1 .. n : rows[i].timestamp \in Nat
  BY <1>2, <1>3 DEF ToSet, Inv, RowsAreOwn
<1>5. /\ orderByTimestamp(rows) = [k \in 1 .. n |-> rows[RowAt(rows, k)]]
      /\ \A k \in 1 .. n : RowAt(rows, k) \in 1 .. n
      /\ \A i \in 1 .. n : \E k \in 1 .. n : RowAt(rows, k) = i
  BY <1>2, <1>4, RowsInOrder
<1>6. ToSet(orderByTimestamp(rows)) = ToSet(rows)
  BY <1>2, <1>5 DEF ToSet
<1> QED
  BY <1>3, <1>6 DEF rows

-----------------------------------------------------------------------------
(* The refinement mapping, as a function of what a process is in.          *)
AbstractAnswer(ans) ==
  IF ans = Result("SQLITE_CONSTRAINT_PRIMARYKEY") THEN Result("thrown")
  ELSE IF "events" \in DOMAIN ans THEN [events |-> ToSet(ans.events)] ELSE ans
AbstractArg(op, arg) == IF op = "revoke" THEN arg.hop_id ELSE arg
AbstractCall(c) ==
  IF c = NoCall THEN [op |-> "none", done |-> TRUE]
  ELSE [ op |-> c.op, arg |-> AbstractArg(c.op, c.arg), done |-> c.pc = "returned",
         answer |-> IF c.pc = "returned" THEN AbstractAnswer(c.answer) ELSE Result("pending") ]

PendingRecord(op, arg) == [op |-> op, arg |-> arg, done |-> FALSE, answer |-> Result("pending")]
DoneRecord(op, arg, ans) == [op |-> op, arg |-> arg, done |-> TRUE, answer |-> ans]

(* The calls as the contract sees them, before and after a step.           *)
LEMMA Abstraction ==
  /\ abstractCalls = [p \in Processes |-> AbstractCall(call[p])]
  /\ abstractCalls' = [p \in Processes |-> AbstractCall(call'[p])]
BY DEF abstractCalls, abstractCall, abstractAnswer, AbstractCall, AbstractAnswer, AbstractArg

(* A call that has not returned is a pending one of the contract.          *)
LEMMA PendingAbstraction ==
  ASSUME Calls, NEW p \in Processes, call[p].pc # "returned"
  PROVE  /\ abstractCalls[p] = PendingRecord(call[p].op, AbstractArg(call[p].op, call[p].arg))
         /\ abstractCalls[p].op = call[p].op /\ ~abstractCalls[p].done
         /\ abstractCalls[p].arg = AbstractArg(call[p].op, call[p].arg)
<1>1. abstractCalls[p] = AbstractCall(call[p])
  BY Abstraction
<1>2. call[p] # NoCall
  BY DEF NoCall
<1>3. (call[p].pc = "returned") = FALSE
  OBVIOUS
<1>4. AbstractCall(call[p]) = PendingRecord(call[p].op, AbstractArg(call[p].op, call[p].arg))
  BY <1>2, <1>3 DEF AbstractCall, PendingRecord
<1> QED
  BY <1>1, <1>4 DEF PendingRecord

(* One call changes, so one abstract call does.                            *)
LEMMA CallsChange ==
  ASSUME Calls, NEW p \in Processes, NEW c, call' = [call EXCEPT ![p] = c]
  PROVE  abstractCalls' = [abstractCalls EXCEPT ![p] = AbstractCall(c)]
<1>1. call' = [q \in Processes |-> IF q = p THEN c ELSE call[q]]
  BY DEF Calls
<1>2. abstractCalls' = [q \in Processes |-> IF q = p THEN AbstractCall(c) ELSE AbstractCall(call[q])]
  BY <1>1, Abstraction
<1> QED
  BY <1>2, Abstraction

Done(c, ans) == [c EXCEPT !.done = TRUE, !.answer = ans]

(* A pending call that is done is a record of its answer.                  *)
LEMMA DoneIsARecord ==
  ASSUME NEW op, NEW arg, NEW ans, NEW c, c = PendingRecord(op, arg)
  PROVE  Done(c, ans) = DoneRecord(op, arg, ans)
<1>1. PICK t : t = TRUE
  OBVIOUS
<1>2. PICK d : d = [c EXCEPT !.done = t]
  OBVIOUS
<1>3. d = [op |-> c.op, arg |-> c.arg, done |-> t, answer |-> c.answer]
  BY <1>2 DEF PendingRecord
<1>4. [d EXCEPT !.answer = ans] = [op |-> d.op, arg |-> d.arg, done |-> d.done, answer |-> ans]
  BY <1>3
<1>5. d.op = op /\ d.arg = arg /\ d.done = t
  BY <1>3 DEF PendingRecord
<1>6. [d EXCEPT !.answer = ans] = [op |-> op, arg |-> arg, done |-> t, answer |-> ans]
  BY <1>4, <1>5, Zenon
<1> QED
  BY <1>1, <1>2, <1>6, Zenon DEF Done, DoneRecord

(* A call that returns is answered, one that is made is a call.            *)
LEMMA ReturnAnswers ==
  ASSUME Inv, NEW p \in Processes, call[p].pc # "returned", NEW ans, Return(p, ans)
  PROVE  Contract!Answer(p, AbstractAnswer(ans))
<1>1. call' = [call EXCEPT ![p] = Returned(p, ans)]
  BY ReturnIsGood DEF Inv
<1>2. AbstractCall(Returned(p, ans)) =
        DoneRecord(call[p].op, AbstractArg(call[p].op, call[p].arg), AbstractAnswer(ans))
  <2>1. Returned(p, ans) # NoCall
    <3>1. call[p].op # "none"
      BY PendingCall DEF Inv, Operations
    <3> QED
      BY <3>1 DEF Returned, NoCall
  <2>2. (Returned(p, ans).pc = "returned") = TRUE
    BY DEF Returned
  <2> QED
    BY <2>1, <2>2 DEF AbstractCall, Returned, DoneRecord
<1>3. abstractCalls' = [abstractCalls EXCEPT ![p] = AbstractCall(Returned(p, ans))]
  BY <1>1, CallsChange DEF Inv
<1>4. abstractCalls[p] = PendingRecord(call[p].op, AbstractArg(call[p].op, call[p].arg))
  BY PendingAbstraction DEF Inv
<1>5. abstractCalls' = [abstractCalls EXCEPT ![p].done = TRUE, ![p].answer = AbstractAnswer(ans)]
  <2>1. Done(abstractCalls[p], AbstractAnswer(ans)) =
          DoneRecord(call[p].op, AbstractArg(call[p].op, call[p].arg), AbstractAnswer(ans))
    BY <1>4, DoneIsARecord
  <2>2. abstractCalls' = [abstractCalls EXCEPT ![p] = Done(abstractCalls[p], AbstractAnswer(ans))]
    BY <1>2, <1>3, <2>1
  <2>3. abstractCalls = [q \in Processes |-> abstractCalls[q]]
    BY Abstraction
  <2> QED
    BY <2>2, <2>3 DEF Done
<1> QED
  BY <1>5 DEF Contract!Answer

(* Making a call is making the call of the contract.                       *)
LEMMA CallIsCall ==
  ASSUME Inv, NEW p \in Processes, NEW op \in Operations, NEW arg, NEW pc, pc # "returned",
         Call(p, op, arg, pc)
  PROVE  Contract!Call(p)
<1> DEFINE c == [op |-> op, arg |-> arg, pc |-> pc]
<1>1. call' = [call EXCEPT ![p] = c] /\ UNCHANGED tables
  BY DEF Call
<1>2. AbstractCall(c) = [op |-> op, arg |-> AbstractArg(op, arg), done |-> FALSE,
                         answer |-> Result("pending")]
  <2>1. c # NoCall /\ (c.pc = "returned") = FALSE
    BY DEF NoCall
  <2> QED
    BY <2>1 DEF AbstractCall
<1> HIDE DEF c
<1>3. abstractCalls' = [abstractCalls EXCEPT ![p] = AbstractCall(c)]
  BY <1>1, CallsChange DEF Inv
<1>4. abstractCalls'[p] = AbstractCall(c)
  BY <1>3, Abstraction
<1>5. abstractCalls[p].done
  <2>1. call[p].pc = "returned"
    BY DEF Call
  <2>2. abstractCalls[p] = AbstractCall(call[p])
    BY Abstraction
  <2>3. CASE call[p] = NoCall
    BY <2>2, <2>3 DEF AbstractCall
  <2>4. CASE call[p] # NoCall
    <3>1. (call[p].pc = "returned") = TRUE
      BY <2>1
    <3>2. AbstractCall(call[p]) = [op |-> call[p].op, arg |-> AbstractArg(call[p].op, call[p].arg),
                                   done |-> TRUE, answer |-> AbstractAnswer(call[p].answer)]
      BY <2>4, <3>1 DEF AbstractCall
    <3> QED
      BY <2>2, <3>2
  <2> QED
    BY <2>3, <2>4
<1>6. /\ ~abstractCalls'[p].done /\ abstractCalls'[p].answer = Contract!Pending
      /\ abstractCalls'[p].op \in Contract!Operations
  BY <1>2, <1>4 DEF Contract!Pending, Contract!Result, Result, Contract!Operations, Operations
<1>7. UNCHANGED <<storedIdentities, revokedHops, ToSet(audit_events)>>
  BY <1>1 DEF tables, storedIdentities, revokedHops
<1> QED
  BY <1>3, <1>4, <1>5, <1>6, <1>7 DEF Contract!Call

(* The table of identities as the map of the contract.                     *)
LEMMA StoredById ==
  ASSUME Inv, NEW id
  PROVE  /\ id \in DOMAIN storedIdentities <=> existing(id) # {}
         /\ \A r \in existing(id) : storedIdentities[id] = toIdentity(r)
<1>1. \A r, q \in ToSet(identities) : r.id = q.id => r = q
  BY Elements DEF Inv, Tables, Keyed
<1>2. \A r \in existing(id) : (CHOOSE q \in ToSet(identities) : q.id = id) = r
  BY <1>1 DEF existing
<1>3. id \in DOMAIN storedIdentities <=> existing(id) # {}
  BY DEF storedIdentities, existing
<1>4. \A r \in existing(id) : storedIdentities[id] =
                                toIdentity(CHOOSE q \in ToSet(identities) : q.id = id)
  BY DEF storedIdentities, existing
<1> QED
  BY <1>2, <1>3, <1>4

(* Tables that stay as they are stand for the same abstract stores.        *)
LEMMA TablesStay ==
  /\ identities' = identities => storedIdentities' = storedIdentities
  /\ revocations' = revocations => revokedHops' = revokedHops
  /\ UNCHANGED tables =>
       UNCHANGED <<storedIdentities, revokedHops, ToSet(audit_events)>>
<1>1. ASSUME identities' = identities
      PROVE  storedIdentities' = storedIdentities
  BY <1>1, Zenon DEF storedIdentities, toIdentity
<1>2. revocations' = revocations => revokedHops' = revokedHops
  BY DEF revokedHops
<1> QED
  BY <1>1, <1>2 DEF tables

(* Answers that stand for themselves.                                      *)
LEMMA PlainAnswers ==
  /\ \A x : x # "SQLITE_CONSTRAINT_PRIMARYKEY" => AbstractAnswer(Result(x)) = Contract!Result(x)
  /\ AbstractAnswer(Result("SQLITE_CONSTRAINT_PRIMARYKEY")) = Contract!Result("thrown")
  /\ \A x : AbstractAnswer([identity |-> x]) = [identity |-> x]
  /\ \A x : AbstractAnswer([revoked |-> x]) = [revoked |-> x]
  /\ \A x : AbstractAnswer([events |-> x]) = [events |-> ToSet(x)]
<1>1. \A x : /\ DOMAIN Result(x) = {"result"} /\ Result(x).result = x
             /\ DOMAIN [identity |-> x] = {"identity"} /\ DOMAIN [revoked |-> x] = {"revoked"}
             /\ DOMAIN [events |-> x] = {"events"} /\ [events |-> x].events = x
  BY DEF Result
<1>2. \A x, y : Result(x) = Result(y) => x = y
  BY DEF Result
<1>3. \A x, y : [identity |-> x] # Result(y) /\ [revoked |-> x] # Result(y) /\ [events |-> x] # Result(y)
  BY <1>1, Zenon
<1>4. "events" \notin {"result"} /\ "events" \notin {"identity"} /\ "events" \notin {"revoked"}
  OBVIOUS
<1> QED
  BY <1>1, <1>2, <1>3, <1>4, Zenon DEF AbstractAnswer, Contract!Result, Result

(* Each operation, in the statement that takes effect, is that of the      *)
(* contract.                                                               *)
LEMMA Pends ==
  ASSUME Inv, NEW p \in Processes, NEW op \in Operations, NEW pc, pc # "returned", Executes(p, op, pc)
  PROVE  /\ call[p].pc # "returned" /\ Contract!Does(p, op) /\ ~abstractCalls[p].done
         /\ abstractCalls[p].arg = AbstractArg(op, call[p].arg)
<1>1. call[p].pc # "returned" /\ call[p].op = op
  BY DEF Executes
<1> QED
  BY <1>1, PendingAbstraction DEF Inv, Contract!Does

(* A SELECT of put() is unseen or throws; its INSERT stores the identity   *)
(* or throws.                                                              *)
LEMMA PutIsPut ==
  ASSUME Inv, SqliteAssumption, NEW p \in Processes, putSelects(p) \/ putInserts(p)
  PROVE  \/ UNCHANGED Contract!vars
         \/ ~abstractCalls[p].done /\ (Contract!put(p) \/ Contract!Throw(p))
<1> DEFINE identity == call[p].arg
<1>1. /\ call[p].pc # "returned" /\ Contract!Does(p, "put") /\ ~abstractCalls[p].done
      /\ abstractCalls[p].arg = identity
  BY Pends DEF putSelects, putInserts, Executes, Operations, AbstractArg
<1>2. identity \in Placed
  <2>1. InHand(p, call[p].op, call[p].pc, call[p].arg) /\ call[p].op = "put"
    BY <1>1, PendingCall DEF Inv, putSelects, putInserts, Executes
  <2> QED
    BY <2>1 DEF InHand
<1> HIDE DEF identity
<1>3. identity.id \in DOMAIN storedIdentities <=> existing(identity.id) # {}
  BY StoredById
<1>4. CASE putSelects(p)
  <2>1. UNCHANGED <<storedIdentities, revokedHops, ToSet(audit_events)>>
    BY <1>4, TablesStay DEF putSelects
  <2>2. CASE existing(identity.id) # {} /\ Return(p, Result("DuplicateIdentityError"))
    <3>1. Contract!Answer(p, Contract!Result("DuplicateIdentityError"))
      BY <1>1, <2>2, ReturnAnswers, PlainAnswers
    <3> QED
      BY <1>1, <1>3, <2>1, <2>2, <3>1 DEF Contract!put
  <2>3. CASE call' = [call EXCEPT ![p].pc = "insert"]
    <3>1. PICK c : c = [op |-> call[p].op, arg |-> call[p].arg, pc |-> "insert"]
      OBVIOUS
    <3>2. call[p] = [op |-> call[p].op, arg |-> call[p].arg, pc |-> call[p].pc]
      BY <1>1, PendingCall DEF Inv
    <3>3. [call[p] EXCEPT !.pc = "insert"] = c
      BY <3>1, <3>2
    <3>4. call' = [call EXCEPT ![p] = c]
      BY <2>3, <3>3
    <3>5. abstractCalls' = [abstractCalls EXCEPT ![p] = AbstractCall(c)]
      BY <3>4, CallsChange DEF Inv
    <3>6. AbstractCall(c) = PendingRecord(call[p].op, AbstractArg(call[p].op, call[p].arg))
      <4>1. c # NoCall /\ (c.pc = "returned") = FALSE
        BY <3>1 DEF NoCall
      <4>2. c.op = call[p].op /\ c.arg = call[p].arg
        BY <3>1
      <4> QED
        BY <4>1, <4>2 DEF AbstractCall, PendingRecord
    <3>7. abstractCalls[p] = PendingRecord(call[p].op, AbstractArg(call[p].op, call[p].arg))
      BY <1>1, PendingAbstraction DEF Inv
    <3>8. abstractCalls' = abstractCalls
      <4>1. abstractCalls = [q \in Processes |-> abstractCalls[q]]
        BY Abstraction
      <4> QED
        BY <3>5, <3>6, <3>7, <4>1
    <3> QED
      BY <2>1, <3>8 DEF Contract!vars
  <2> QED
    BY <1>4, <2>2, <2>3 DEF putSelects, identity
<1>5. CASE putInserts(p)
  <2>1. CASE Return(p, Result("SQLITE_CONSTRAINT_PRIMARYKEY")) /\ UNCHANGED identities
    <3>1. Contract!Answer(p, Contract!Result("thrown"))
      BY <1>1, <2>1, ReturnAnswers, PlainAnswers
    <3>2. UNCHANGED <<storedIdentities, revokedHops, ToSet(audit_events)>>
      BY <1>5, <2>1, TablesStay DEF putInserts
    <3> QED
      BY <1>1, <3>1, <3>2 DEF Contract!Throw
  <2>2. CASE /\ ~conflicts(identity.id) /\ Return(p, Result("stored"))
             /\ identities' = Append(identities, row(identity))
    <3>1. Contract!Answer(p, Contract!Result("stored"))
      BY <1>1, <2>2, ReturnAnswers, PlainAnswers
    <3>2. revokedHops' = revokedHops /\ ToSet(audit_events') = ToSet(audit_events)
      BY <1>5, TablesStay DEF putInserts
    <3>3. identity.id \notin DOMAIN storedIdentities
      BY <1>3, <2>2 DEF conflicts
    <3>4. storedIdentities' = [id \in DOMAIN storedIdentities \cup {identity.id} |->
                                 IF id = identity.id THEN identity ELSE storedIdentities[id]]
      <4> DEFINE rows == ToSet(identities)
                 new == row(identity)
      <4>1. ToSet(identities') = rows \cup {new}
        BY <2>2, Appended DEF Inv, Tables
      <4>2. new.id = identity.id /\ toIdentity(new) = identity
        BY <1>2, PlacedAreWhole DEF Inv, row
      <4>3. \A r \in rows : r.id # identity.id
        BY <2>2 DEF conflicts, existing
      <4> HIDE DEF rows, new
      <4>4. storedIdentities' = [id \in {r.id : r \in rows \cup {new}} |->
                                   toIdentity(CHOOSE r \in rows \cup {new} : r.id = id)]
        BY <4>1 DEF storedIdentities, toIdentity
      <4>5. {r.id : r \in rows \cup {new}} = DOMAIN storedIdentities \cup {identity.id}
        BY <4>2 DEF storedIdentities, rows
      <4>6. (CHOOSE r \in rows \cup {new} : r.id = identity.id) = new
        BY <4>2, <4>3
      <4>7. ASSUME NEW id \in DOMAIN storedIdentities
            PROVE  (CHOOSE r \in rows \cup {new} : r.id = id) = CHOOSE r \in rows : r.id = id
        <5>1. id # identity.id
          BY <3>3, <4>7
        <5>2. \A r : (r \in rows \cup {new} /\ r.id = id) <=> (r \in rows /\ r.id = id)
          BY <4>2, <5>1
        <5> QED
          BY <5>2, Zenon
      <4>8. \A id \in DOMAIN storedIdentities :
              storedIdentities[id] = toIdentity(CHOOSE r \in rows : r.id = id)
        BY DEF storedIdentities, rows
      <4>9. ASSUME NEW id \in DOMAIN storedIdentities \cup {identity.id}
            PROVE  toIdentity(CHOOSE r \in rows \cup {new} : r.id = id) =
                     IF id = identity.id THEN identity ELSE storedIdentities[id]
        <5>1. CASE id = identity.id
          <6>1. PICK x : x = CHOOSE r \in rows \cup {new} : r.id = id
            OBVIOUS
          <6>2. x = new
            BY <4>6, <5>1, <6>1, Zenon
          <6>3. toIdentity(x) = identity
            BY <4>2, <6>2
          <6> QED
            BY <5>1, <6>1, <6>3, Zenon
        <5>2. CASE id # identity.id
          <6>1. id \in DOMAIN storedIdentities
            BY <5>2
          <6>2. storedIdentities[id] = toIdentity(CHOOSE r \in rows : r.id = id)
            BY <4>8, <6>1
          <6>3. (CHOOSE r \in rows \cup {new} : r.id = id) = CHOOSE r \in rows : r.id = id
            BY <4>7, <6>1
          <6> QED
            BY <5>2, <6>2, <6>3, Zenon
        <5> QED
          BY <5>1, <5>2
      <4>10. [id \in {r.id : r \in rows \cup {new}} |->
                 toIdentity(CHOOSE r \in rows \cup {new} : r.id = id)] =
             [id \in DOMAIN storedIdentities \cup {identity.id} |->
                 toIdentity(CHOOSE r \in rows \cup {new} : r.id = id)]
        BY <4>5, Zenon
      <4>11. [id \in DOMAIN storedIdentities \cup {identity.id} |->
                 toIdentity(CHOOSE r \in rows \cup {new} : r.id = id)] =
             [id \in DOMAIN storedIdentities \cup {identity.id} |->
                 IF id = identity.id THEN identity ELSE storedIdentities[id]]
        BY <4>9, Zenon
      <4> QED
        BY <4>4, <4>10, <4>11, Zenon
    <3> QED
      BY <1>1, <3>1, <3>2, <3>3, <3>4 DEF Contract!put
  <2> QED
    BY <1>5, <2>1, <2>2 DEF putInserts, identity
<1> QED
  BY <1>4, <1>5

(* The statements of the other operations are those operations.            *)
LEMMA GetIsGet ==
  ASSUME Inv, NEW p \in Processes, getSelects(p)
  PROVE  ~abstractCalls[p].done /\ Contract!get(p)
<1> DEFINE id == call[p].arg
<1>1. /\ call[p].pc # "returned" /\ Contract!Does(p, "get") /\ ~abstractCalls[p].done
      /\ abstractCalls[p].arg = id
  BY Pends DEF getSelects, Operations, AbstractArg
<1>2. UNCHANGED <<storedIdentities, revokedHops, ToSet(audit_events)>>
  BY TablesStay DEF getSelects
<1>3. /\ id \in DOMAIN storedIdentities <=> existing(id) # {}
      /\ \A r \in existing(id) : storedIdentities[id] = toIdentity(r)
  BY StoredById
<1>4. CASE existing(id) = {} /\ Return(p, Result("null"))
  <2>1. Contract!Answer(p, Contract!Result("null"))
    BY <1>1, <1>4, ReturnAnswers, PlainAnswers
  <2> QED
    BY <1>1, <1>2, <1>3, <1>4, <2>1 DEF Contract!get
<1>5. ASSUME NEW r \in existing(id), Return(p, [identity |-> toIdentity(r)])
      PROVE  Contract!get(p)
  <2>1. Contract!Answer(p, [identity |-> toIdentity(r)])
    BY <1>1, <1>5, ReturnAnswers, PlainAnswers
  <2>2. storedIdentities[id] = toIdentity(r) /\ id \in DOMAIN storedIdentities
    BY <1>3
  <2> QED
    BY <1>1, <1>2, <2>1, <2>2 DEF Contract!get
<1> QED
  BY <1>1, <1>4, <1>5 DEF getSelects

(* revoke() stores the hop, once.                                          *)
LEMMA RevokeIsRevoke ==
  ASSUME Inv, NEW p \in Processes, revokeInserts(p)
  PROVE  ~abstractCalls[p].done /\ Contract!revoke(p)
<1> DEFINE r == call[p].arg
<1>1. /\ call[p].pc # "returned" /\ Contract!Does(p, "revoke") /\ ~abstractCalls[p].done
      /\ abstractCalls[p].arg = r.hop_id
  BY Pends DEF revokeInserts, Operations, AbstractArg
<1>2. Contract!Answer(p, Contract!Result("done"))
  <2>1. Return(p, Result("done"))
    BY DEF revokeInserts
  <2> QED
    BY <1>1, <2>1, ReturnAnswers, PlainAnswers
<1>3. storedIdentities' = storedIdentities /\ ToSet(audit_events') = ToSet(audit_events)
  BY TablesStay DEF revokeInserts
<1>4. revokedHops' = revokedHops \cup {r.hop_id}
  <2>1. CASE r.hop_id \in revokedHops /\ revocations' = revocations
    BY <2>1, TablesStay
  <2>2. CASE revocations' = Append(revocations, r)
    <3>1. ToSet(revocations') = ToSet(revocations) \cup {r}
      BY <2>2, Appended DEF Inv, Tables
    <3> QED
      BY <3>1 DEF revokedHops
  <2> QED
    BY <2>1, <2>2 DEF revokeInserts
<1> QED
  BY <1>1, <1>2, <1>3, <1>4 DEF Contract!revoke

(* isRevoked() finds the hop if it was stored.                             *)
LEMMA IsRevokedIsIsRevoked ==
  ASSUME Inv, NEW p \in Processes, isRevokedSelects(p)
  PROVE  ~abstractCalls[p].done /\ Contract!isRevoked(p)
<1>1. /\ call[p].pc # "returned" /\ Contract!Does(p, "isRevoked") /\ ~abstractCalls[p].done
      /\ abstractCalls[p].arg = call[p].arg
  BY Pends DEF isRevokedSelects, Operations, AbstractArg
<1>2. Contract!Answer(p, [revoked |-> call[p].arg \in revokedHops])
  <2>1. PICK b : b = (call[p].arg \in revokedHops)
    OBVIOUS
  <2>2. Return(p, [revoked |-> b])
    BY <2>1, Zenon DEF isRevokedSelects
  <2>3. Contract!Answer(p, AbstractAnswer([revoked |-> b]))
    BY <1>1, <2>2, ReturnAnswers
  <2>4. AbstractAnswer([revoked |-> b]) = [revoked |-> b]
    BY PlainAnswers
  <2> QED
    BY <2>1, <2>3, <2>4, Zenon
<1>3. UNCHANGED <<storedIdentities, revokedHops, ToSet(audit_events)>>
  BY TablesStay DEF isRevokedSelects
<1> QED
  BY <1>1, <1>2, <1>3, Zenon DEF Contract!isRevoked

(* append() stores the event.                                              *)
LEMMA AppendIsAppend ==
  ASSUME Inv, NEW p \in Processes, appendInserts(p)
  PROVE  ~abstractCalls[p].done /\ Contract!append(p)
<1>1. /\ call[p].pc # "returned" /\ Contract!Does(p, "append") /\ ~abstractCalls[p].done
      /\ abstractCalls[p].arg = call[p].arg
  BY Pends DEF appendInserts, Operations, AbstractArg
<1>2. Contract!Answer(p, Contract!Result("done"))
  <2>1. Return(p, Result("done"))
    BY DEF appendInserts
  <2> QED
    BY <1>1, <2>1, ReturnAnswers, PlainAnswers
<1>3. storedIdentities' = storedIdentities /\ revokedHops' = revokedHops
  BY TablesStay DEF appendInserts
<1>4. ToSet(audit_events') = ToSet(audit_events) \cup {call[p].arg}
  BY Appended DEF appendInserts, Inv, Tables
<1> QED
  BY <1>1, <1>2, <1>3, <1>4 DEF Contract!append

(* query() answers the events that match.                                  *)
LEMMA QueryIsQuery ==
  ASSUME Inv, NEW p \in Processes, querySelects(p)
  PROVE  ~abstractCalls[p].done /\ Contract!query(p)
<1> DEFINE filter == call[p].arg
           found == orderByTimestamp(where(filter))
<1>1. /\ call[p].pc # "returned" /\ Contract!Does(p, "query") /\ ~abstractCalls[p].done
      /\ abstractCalls[p].arg = filter
  BY Pends DEF querySelects, Operations, AbstractArg
<1>2. Return(p, [events |-> found])
  BY DEF querySelects
<1>3. ToSet(found) = {e \in ToSet(audit_events) : Contract!matches(e, filter)}
  BY QueryFinds DEF Contract!matches
<1> HIDE DEF found
<1>4. Contract!Answer(p, [events |-> ToSet(found)])
  BY <1>1, <1>2, ReturnAnswers, PlainAnswers
<1>5. UNCHANGED <<storedIdentities, revokedHops, ToSet(audit_events)>>
  BY TablesStay DEF querySelects
<1> QED
  BY <1>1, <1>3, <1>4, <1>5 DEF Contract!query

(* A statement that fails is a call that throws, a process that stops is   *)
(* one that stops.                                                         *)
LEMMA FailureIsThrow ==
  ASSUME Inv, NEW p \in Processes, StatementFails(p)
  PROVE  ~abstractCalls[p].done /\ Contract!Throw(p)
<1>1. call[p].pc # "returned" /\ Return(p, Result("thrown"))
  BY DEF StatementFails
<1>2. ~abstractCalls[p].done
  BY <1>1, PendingAbstraction DEF Inv
<1>3. Contract!Answer(p, Contract!Result("thrown"))
  BY <1>1, ReturnAnswers, PlainAnswers
<1>4. UNCHANGED <<storedIdentities, revokedHops, ToSet(audit_events)>>
  BY TablesStay DEF StatementFails
<1> QED
  BY <1>2, <1>3, <1>4 DEF Contract!Throw

(* A process that crashes forgets its call.                                *)
LEMMA CrashIsStop ==
  ASSUME Inv, NEW p \in Processes, Crash(p)
  PROVE  Contract!Stop(p)
<1>1. abstractCalls' = [abstractCalls EXCEPT ![p] = AbstractCall(NoCall)]
  BY CallsChange DEF Crash, Inv
<1>2. AbstractCall(NoCall) = Contract!NoCall
  BY Zenon DEF AbstractCall, Contract!NoCall
<1>3. abstractCalls'[p] = AbstractCall(NoCall)
  BY <1>1, Abstraction
<1>4. UNCHANGED <<storedIdentities, revokedHops, ToSet(audit_events)>>
  BY TablesStay DEF Crash
<1> QED
  BY <1>1, <1>2, <1>3, <1>4 DEF Contract!Stop

(* A call of an operation, whichever it is.                                *)
Called(p) ==
  \E op \in Operations : \E arg, pc : pc # "returned" /\ Call(p, op, arg, pc)

(* Every way of making a call is one.                                      *)
LEMMA CallsAreMade ==
  ASSUME NEW p \in Processes,
         \/ \E i : put(p, i)
         \/ \E id : get(p, id)
         \/ \E h : isRevoked(p, h) \/ \E t : revoke(p, h, t)
         \/ \E t : append(p, t)
         \/ \E filter : query(p, filter)
  PROVE  Called(p)
<1>1. \A op \in Operations : \A arg, pc : Call(p, op, arg, pc) /\ pc # "returned" => Called(p)
  BY DEF Called
<1>2. /\ {"put", "get", "revoke", "isRevoked", "append", "query"} = Operations
      /\ "select" # "returned" /\ "insert" # "returned"
  BY DEF Operations
<1>3. ASSUME NEW i, put(p, i)
      PROVE  Called(p)
  BY <1>1, <1>2, <1>3 DEF put
<1>4. ASSUME NEW id, get(p, id)
      PROVE  Called(p)
  BY <1>1, <1>2, <1>4 DEF get
<1>5. ASSUME NEW h, isRevoked(p, h)
      PROVE  Called(p)
  BY <1>1, <1>2, <1>5 DEF isRevoked
<1>6. ASSUME NEW h, NEW t, revoke(p, h, t)
      PROVE  Called(p)
  BY <1>1, <1>2, <1>6 DEF revoke
<1>7. ASSUME NEW t, append(p, t)
      PROVE  Called(p)
  BY <1>1, <1>2, <1>7 DEF append
<1>8. ASSUME NEW filter, query(p, filter)
      PROVE  Called(p)
  BY <1>1, <1>2, <1>8 DEF query
<1> QED
  BY <1>3, <1>4, <1>5, <1>6, <1>7, <1>8

(* What concerns no call and no table does not show in the contract.       *)
LEMMA NothingShows ==
  ASSUME UNCHANGED <<tables, call>>
  PROVE  UNCHANGED Contract!vars
<1>1. abstractCalls' = abstractCalls
  BY Abstraction
<1>2. UNCHANGED <<storedIdentities, revokedHops, ToSet(audit_events)>>
  BY TablesStay
<1> QED
  BY <1>1, <1>2 DEF Contract!vars

(* The tables are created empty, as the stores of the contract are.        *)
LEMMA InitImplements ==
  ASSUME Init
  PROVE  Contract!Init
<1>1. ToSet(<<>>) = {}
  BY DEF ToSet
<1>2. storedIdentities = <<>>
  <2>1. {r.id : r \in ToSet(identities)} = {}
    BY <1>1 DEF Init
  <2>2. DOMAIN storedIdentities = {} /\ storedIdentities = [id \in {} |-> storedIdentities[id]]
    BY <2>1 DEF storedIdentities
  <2>3. [id \in {} |-> storedIdentities[id]] = <<>>
    OBVIOUS
  <2> QED
    BY <2>2, <2>3
<1>3. revokedHops = {} /\ ToSet(audit_events) = {}
  BY <1>1 DEF Init, revokedHops
<1>4. AbstractCall(NoCall) = Contract!NoCall
  BY Zenon DEF AbstractCall, Contract!NoCall
<1>5. abstractCalls = [p \in Processes |-> Contract!NoCall]
  BY <1>4, Abstraction DEF Init
<1> QED
  BY <1>2, <1>3, <1>5 DEF Contract!Init

(* Every step is one of the contract, or unseen by it.                     *)
LEMMA StepImplements ==
  ASSUME Inv, SqliteAssumption, [Next]_vars
  PROVE  [Contract!Next]_(Contract!vars)
<1>1. CASE UNCHANGED vars
  BY <1>1, NothingShows DEF vars
<1>2. ASSUME NEW t, SetClock(t)
      PROVE  UNCHANGED Contract!vars
  BY <1>2, NothingShows DEF SetClock
<1>3. ASSUME NEW input, createIdentity(input)
      PROVE  UNCHANGED Contract!vars
  BY <1>3, NothingShows DEF createIdentity
<1>4. ASSUME NEW p \in Processes,
             \/ \E i : put(p, i)
             \/ \E id : get(p, id)
             \/ \E h : isRevoked(p, h) \/ \E t : revoke(p, h, t)
             \/ \E t : append(p, t)
             \/ \E filter : query(p, filter)
      PROVE  Contract!Next
  <2>1. PICK op \in Operations : \E arg, pc : pc # "returned" /\ Call(p, op, arg, pc)
    BY <1>4, CallsAreMade DEF Called
  <2>2. Contract!Call(p)
    BY <2>1, CallIsCall
  <2> QED
    BY <2>2 DEF Contract!Next
<1>5. ASSUME NEW p \in Processes, putSelects(p) \/ putInserts(p)
      PROVE  Contract!Next \/ UNCHANGED Contract!vars
  BY <1>5, PutIsPut DEF Contract!Next
<1>6. ASSUME NEW p \in Processes, getSelects(p)
      PROVE  Contract!Next
  BY <1>6, GetIsGet DEF Contract!Next
<1>7. ASSUME NEW p \in Processes, revokeInserts(p)
      PROVE  Contract!Next
  BY <1>7, RevokeIsRevoke DEF Contract!Next
<1>8. ASSUME NEW p \in Processes, isRevokedSelects(p)
      PROVE  Contract!Next
  BY <1>8, IsRevokedIsIsRevoked DEF Contract!Next
<1>9. ASSUME NEW p \in Processes, appendInserts(p)
      PROVE  Contract!Next
  BY <1>9, AppendIsAppend DEF Contract!Next
<1>10. ASSUME NEW p \in Processes, querySelects(p)
       PROVE  Contract!Next
  BY <1>10, QueryIsQuery DEF Contract!Next
<1>11. ASSUME NEW p \in Processes, StatementFails(p)
       PROVE  Contract!Next
  BY <1>11, FailureIsThrow DEF Contract!Next
<1>12. ASSUME NEW p \in Processes, Crash(p)
       PROVE  Contract!Next
  BY <1>12, CrashIsStop DEF Contract!Next
<1> QED
  BY <1>1, <1>2, <1>3, <1>4, <1>5, <1>6, <1>7, <1>8, <1>9, <1>10, <1>11, <1>12 DEF Next

(* The adapters implement the stores they replace: two processes that put  *)
(* one id do not overwrite each other, no crash loses what was             *)
(* acknowledged, and each answer is that of one moment of the call.        *)
THEOREM StoresAreImplemented == Spec => ImplementsStores
<1>1. Init => Contract!Init
  BY InitImplements
<1>2. Inv /\ [Next]_vars => [Contract!Next]_(Contract!vars)
  BY StepImplements, SqliteAssumption
<1> QED
  BY <1>1, <1>2, InvHolds, PTL DEF Spec, ImplementsStores, Contract!Spec

-----------------------------------------------------------------------------
(* Trails are read in order.  What one process has appended rises in its   *)
(* ids; where each of its events is no earlier than the one before, each   *)
(* is no earlier than any before, which follows as the table grows.        *)
Times(s) == [i \in DOMAIN s |-> s[i].timestamp]
Numbers(s) == [i \in DOMAIN s |-> s[i].id[2]]
Stored(p) == By(p, audit_events)

Rising ==
  \A i, j \in 1 .. Len(audit_events) :
    i < j /\ audit_events[i].id[1] = audit_events[j].id[1] =>
      audit_events[i].id[2] < audit_events[j].id[2]

Steady(s) == \A i, j \in DOMAIN s : i < j => s[i].timestamp <= s[j].timestamp
Paced == \A p \in Processes : Ascending(Times(Stored(p))) => Steady(Stored(p))

InOrder == Rising /\ Paced /\ TrailsReadInOrder

(* A sequence ascends if it does from each element to the next.            *)
LEMMA StepByStep ==
  ASSUME NEW s, NEW n \in Nat, DOMAIN s = 1 .. n
  PROVE  /\ Ascending(Times(s)) <=> \A i \in 2 .. n : s[i - 1].timestamp <= s[i].timestamp
         /\ Ascending(Numbers(s)) <=> \A i \in 2 .. n : s[i - 1].id[2] <= s[i].id[2]
<1>1. /\ Len(Times(s)) = n /\ \A i \in 1 .. n : Times(s)[i] = s[i].timestamp
      /\ Len(Numbers(s)) = n /\ \A i \in 1 .. n : Numbers(s)[i] = s[i].id[2]
  BY DEF Times, Numbers
<1>2. \A i \in 2 .. n : i \in 1 .. n /\ i - 1 \in 1 .. n
  OBVIOUS
<1> QED
  BY <1>1, <1>2 DEF Ascending

(* The events of one process in a trail, and in one that grows.            *)
LEMMA TrailOfOne ==
  ASSUME NEW t, IsSequence(t), NEW p
  PROVE  /\ By(p, t) \in Seq(ToSet(t)) /\ Len(By(p, t)) \in Nat
         /\ DOMAIN By(p, t) = 1 .. Len(By(p, t))
         /\ \A e : /\ e.id[1] = p => By(p, Append(t, e)) = Append(By(p, t), e)
                   /\ e.id[1] # p => By(p, Append(t, e)) = By(p, t)
<1> DEFINE places == {i \in DOMAIN t : t[i].id[1] = p}
           c == Cardinality(places)
           n == Len(t)
<1>1. n \in Nat /\ DOMAIN t = 1 .. n /\ \A i \in 1 .. n : t[i] \in ToSet(t)
  BY Elements
<1>2. places \in SUBSET (1 .. n) /\ places \in SUBSET Int
  BY <1>1
<1>3. IsFiniteSet(places)
  <2>1. IsFiniteSet(1 .. n)
    BY <1>1, FS_Interval
  <2> QED
    BY <1>2, <2>1, FS_Subset
<1>4. By(p, t) = Picked(t, places)
  BY DEF By
<1>5. By(p, t) \in Seq(ToSet(t)) /\ Len(By(p, t)) = c /\ c \in Nat /\ DOMAIN By(p, t) = 1 .. c
  <2> HIDE DEF places
  <2>1. /\ c \in Nat /\ DOMAIN Picked(t, places) = 1 .. c
        /\ \A k \in 1 .. c : Picked(t, places)[k] \in ToSet(t)
    BY <1>1, <1>2, <1>3, PickedElements
  <2>2. Picked(t, places) = [k \in 1 .. c |-> Picked(t, places)[k]]
    BY <2>1 DEF Picked
  <2> QED
    BY <1>4, <2>1, <2>2
<1>6. ASSUME NEW e
      PROVE  /\ e.id[1] = p => By(p, Append(t, e)) = Append(By(p, t), e)
             /\ e.id[1] # p => By(p, Append(t, e)) = By(p, t)
  <2>1. /\ DOMAIN Append(t, e) = 1 .. n + 1 /\ Append(t, e)[n + 1] = e
        /\ \A i \in 1 .. n : Append(t, e)[i] = t[i]
    BY Appended
  <2>2. \A i : i \in 1 .. n + 1 <=> i \in 1 .. n \/ i = n + 1
    BY <1>1
  <2>3. {i \in DOMAIN Append(t, e) : Append(t, e)[i].id[1] = p} =
          IF e.id[1] = p THEN places \cup {n + 1} ELSE places
    BY <1>1, <2>1, <2>2
  <2>4. t \in Seq(ToSet(t))
    BY DEF IsSequence
  <2> HIDE DEF places
  <2>5. /\ Picked(Append(t, e), places) = Picked(t, places)
        /\ Picked(Append(t, e), places \cup {n + 1}) = Append(Picked(t, places), e)
    BY <1>2, <2>4, PickedGrows
  <2> QED
    BY <1>4, <2>3, <2>5 DEF By
<1> QED
  BY <1>5, <1>6

(* Appending an event no older than the last keeps what was steady steady. *)
LEMMA PacedGrows ==
  ASSUME NEW s, NEW n \in Nat, DOMAIN s = 1 .. n, NEW e,
         NEW t, DOMAIN t = 1 .. n + 1, \A i \in 1 .. n : t[i] = s[i], t[n + 1] = e,
         \A i \in 1 .. n + 1 : t[i].timestamp \in Nat,
         Ascending(Times(t))
  PROVE  /\ Ascending(Times(s))
         /\ Steady(s) => Steady(t)
<1>1. \A i \in 2 .. n + 1 : t[i - 1].timestamp <= t[i].timestamp
  BY StepByStep
<1>2. \A i \in 2 .. n : i \in 2 .. n + 1 /\ i \in 1 .. n /\ i - 1 \in 1 .. n
  OBVIOUS
<1>3. Ascending(Times(s))
  <2>1. \A i \in 2 .. n : s[i - 1].timestamp <= s[i].timestamp
    BY <1>1, <1>2
  <2> QED
    BY <2>1, StepByStep
<1>4. ASSUME Steady(s), NEW i \in 1 .. n + 1, NEW j \in 1 .. n + 1, i < j
      PROVE  t[i].timestamp <= t[j].timestamp
  <2>1. CASE j \in 1 .. n
    BY <1>4, <2>1 DEF Steady
  <2>2. CASE j = n + 1
    <3>1. i \in 1 .. n /\ n \in 1 .. n /\ n \in 1 .. n + 1 /\ n + 1 \in 2 .. n + 1 /\ n + 1 - 1 = n
      BY <1>4, <2>2
    <3>2. t[n].timestamp <= t[n + 1].timestamp
      BY <1>1, <3>1
    <3>3. t[i].timestamp <= t[n].timestamp
      <4>1. i < n \/ i = n
        BY <3>1
      <4> QED
        BY <1>4, <3>1, <4>1 DEF Steady
    <3> QED
      BY <2>2, <3>1, <3>2, <3>3
  <2> QED
    BY <2>1, <2>2
<1> QED
  BY <1>3, <1>4 DEF Steady

(* An event inserted is the last its emitter has stored.                   *)
LEMMA AppendsInOrder ==
  ASSUME Inv, Rising, Paced, NEW p \in Processes, appendInserts(p)
  PROVE  /\ Rising' /\ Paced'
         /\ \A q \in Processes : Ascending(Times(By(q, audit_events'))) => Ascending(Times(Stored(q)))
<1>1. PICK e : e = call[p].arg
  OBVIOUS
<1>2. PICK n : n = Len(audit_events)
  OBVIOUS
<1>3. e.id = <<p, appended[p]>> /\ e.timestamp \in Nat /\ \A x \in ToSet(audit_events) : x.id # e.id
  BY <1>1, PendingCall DEF Inv, InHand, appendInserts, Executes
<1>4. audit_events' = Append(audit_events, e) /\ appended' = appended
  BY <1>1 DEF appendInserts
<1>5. /\ n \in Nat /\ Len(audit_events') = n + 1 /\ audit_events'[n + 1] = e
      /\ \A i \in 1 .. n : audit_events'[i] = audit_events[i] /\ audit_events[i] \in ToSet(audit_events)
      /\ \A i : i \in 1 .. n + 1 <=> i \in 1 .. n \/ i = n + 1
      /\ ToSet(audit_events') = ToSet(audit_events) \cup {e}
  BY <1>2, <1>4, Appended, Elements DEF Inv, Tables
<1>6. Rising'
  <2>1. ASSUME NEW i \in 1 .. n, audit_events[i].id[1] = p
        PROVE  audit_events[i].id[2] < e.id[2]
    <3>1. PICK x : x = audit_events[i]
      OBVIOUS
    <3>2. x.id \in Processes \X Nat /\ x.id[2] <= appended[x.id[1]] /\ x.id # <<p, appended[p]>>
      BY <1>3, <1>5, <3>1 DEF Inv, RowsAreOwn
    <3>3. x.id = <<p, x.id[2]>> /\ x.id[2] \in Nat /\ appended[p] \in Nat /\ x.id[1] = p
      BY <2>1, <3>1, <3>2 DEF Inv, Clock
    <3>4. x.id[2] # appended[p]
      BY <3>2, <3>3
    <3> QED
      BY <1>3, <3>1, <3>2, <3>3, <3>4
  <2>2. e.id[1] = p
    BY <1>3
  <2>3. ASSUME NEW i \in 1 .. n + 1, NEW j \in 1 .. n + 1, i < j,
               audit_events'[i].id[1] = audit_events'[j].id[1]
        PROVE  audit_events'[i].id[2] < audit_events'[j].id[2]
    <3>1. i \in 1 .. n
      BY <1>5, <2>3
    <3>2. CASE j \in 1 .. n
      BY <1>2, <1>5, <2>3, <3>1, <3>2 DEF Rising
    <3>3. CASE j = n + 1
      BY <1>5, <2>1, <2>2, <2>3, <3>1, <3>3
    <3> QED
      BY <1>5, <3>2, <3>3
  <2> QED
    BY <1>5, <2>3 DEF Rising
<1>7. ASSUME NEW q \in Processes
      PROVE  /\ Ascending(Times(By(q, audit_events'))) => Ascending(Times(Stored(q)))
             /\ Ascending(Times(By(q, audit_events'))) => Steady(By(q, audit_events'))
  <2> DEFINE s == Stored(q)
             t == By(q, audit_events')
             m == Len(s)
  <2>1. /\ s \in Seq(ToSet(audit_events)) /\ m \in Nat /\ DOMAIN s = 1 .. m
        /\ e.id[1] = q => t = Append(s, e)
        /\ e.id[1] # q => t = s
    BY <1>4, TrailOfOne DEF Inv, Tables, Stored
  <2>2. Ascending(Times(s)) => Steady(s)
    BY DEF Paced
  <2> HIDE DEF s, t
  <2>3. CASE t = s
    BY <2>2, <2>3 DEF s, t
  <2>4. CASE t = Append(s, e)
    <3>1. /\ DOMAIN t = 1 .. m + 1 /\ t[m + 1] = e /\ \A i \in 1 .. m : t[i] = s[i]
          /\ \A i \in 1 .. m : s[i] \in ToSet(audit_events)
          /\ \A i : i \in 1 .. m + 1 <=> i \in 1 .. m \/ i = m + 1
      <4>1. IsSequence(s)
        BY <2>1 DEF IsSequence, ToSet
      <4>2. DOMAIN t = 1 .. m + 1 /\ t[m + 1] = e /\ \A i \in 1 .. m : t[i] = s[i]
        BY <2>4, <4>1, Appended
      <4>3. \A i \in 1 .. m : s[i] \in ToSet(audit_events)
        BY <2>1
      <4> QED
        BY <2>1, <4>2, <4>3
    <3>2. \A i \in 1 .. m + 1 : t[i].timestamp \in Nat
      BY <1>3, <3>1 DEF Inv, RowsAreOwn
    <3> HIDE DEF m
    <3>3. ASSUME Ascending(Times(t))
          PROVE  Ascending(Times(s)) /\ (Steady(s) => Steady(t))
      BY <2>1, <3>1, <3>2, <3>3, PacedGrows
    <3> QED
      BY <2>2, <3>3 DEF s, t
  <2> QED
    BY <2>1, <2>3, <2>4
<1>8. Paced'
  BY <1>7 DEF Paced, Stored, Times, Steady
<1> QED
  BY <1>6, <1>7, <1>8

(* What a query finds: the event at each place of the answer is one of the *)
(* table, and of two, the second is the later or is no earlier and further *)
(* down in the table.                                                      *)
Found(filter) == orderByTimestamp(where(filter))
TablePlace(filter, k) == PlaceOf(Matching(filter), RowAt(where(filter), k))

(* The rows that query() finds are at places of the table, ordered by time *)
(* and then by place.                                                      *)
LEMMA QuerySorts ==
  ASSUME Inv, NEW filter
  PROVE  \E n \in Nat :
           /\ DOMAIN Found(filter) = 1 .. n
           /\ \A k \in 1 .. n : /\ TablePlace(filter, k) \in 1 .. Len(audit_events)
                              /\ Found(filter)[k] = audit_events[TablePlace(filter, k)]
           /\ \A k, l \in 1 .. n : k < l =>
                \/ Found(filter)[k].timestamp < Found(filter)[l].timestamp
                \/ TablePlace(filter, k) < TablePlace(filter, l)
<1> DEFINE places == Matching(filter)
           n == Cardinality(places)
           rows == where(filter)
<1>1. /\ rows = Picked(audit_events, places) /\ places \in SUBSET (1 .. Len(audit_events))
      /\ places \in SUBSET Int /\ IsFiniteSet(places) /\ Len(audit_events) \in Nat
  BY WhereFinds
<1> HIDE DEF places, rows
<1>2. /\ n \in Nat /\ DOMAIN rows = 1 .. n
      /\ \A k \in 1 .. n : PlaceOf(places, k) \in places /\ rows[k] = audit_events[PlaceOf(places, k)]
  BY <1>1, PickedElements
<1>3. \A k, l \in 1 .. n : k < l => PlaceOf(places, k) < PlaceOf(places, l)
  BY <1>1, PlacesInOrder
<1> HIDE DEF n
<1>4. \A k \in 1 .. n : rows[k].timestamp \in Nat
  <2>1. \A i \in 1 .. Len(audit_events) : audit_events[i].timestamp \in Nat
    BY Elements DEF Inv, Tables, RowsAreOwn
  <2> QED
    BY <1>1, <1>2, <2>1
<1>5. /\ orderByTimestamp(rows) = [k \in 1 .. n |-> rows[RowAt(rows, k)]]
      /\ \A k \in 1 .. n : RowAt(rows, k) \in 1 .. n
      /\ \A k, l \in 1 .. n : k < l => Earlier(rows, RowAt(rows, k), RowAt(rows, l))
  BY <1>2, <1>4, RowsInOrder
<1>6. /\ Found(filter) = orderByTimestamp(rows)
      /\ \A k : TablePlace(filter, k) = PlaceOf(places, RowAt(rows, k))
  BY DEF Found, TablePlace, rows, places
<1>7. ASSUME NEW k \in 1 .. n
      PROVE  /\ TablePlace(filter, k) \in 1 .. Len(audit_events)
             /\ Found(filter)[k] = audit_events[TablePlace(filter, k)]
             /\ Found(filter)[k] = rows[RowAt(rows, k)]
  <2>1. PICK r \in 1 .. n : r = RowAt(rows, k)
    BY <1>5
  <2>2. Found(filter)[k] = rows[r] /\ TablePlace(filter, k) = PlaceOf(places, r)
    BY <1>5, <1>6, <2>1
  <2>3. PlaceOf(places, r) \in places /\ rows[r] = audit_events[PlaceOf(places, r)]
    BY <1>2
  <2> QED
    BY <1>1, <2>1, <2>2, <2>3
<1>8. ASSUME NEW k \in 1 .. n, NEW l \in 1 .. n, k < l
      PROVE  \/ Found(filter)[k].timestamp < Found(filter)[l].timestamp
             \/ TablePlace(filter, k) < TablePlace(filter, l)
  <2>1. CASE rows[RowAt(rows, k)].timestamp < rows[RowAt(rows, l)].timestamp
    BY <1>7, <2>1
  <2>2. CASE RowAt(rows, k) < RowAt(rows, l)
    BY <1>3, <1>5, <1>6, <2>2
  <2> QED
    BY <1>5, <1>8, <2>1, <2>2 DEF Earlier
<1>9. DOMAIN Found(filter) = 1 .. n
  BY <1>5, <1>6
<1> QED
  BY <1>2, <1>7, <1>8, <1>9

(* Two rows of a steady emitter are in the order of their times.           *)
LEMMA SteadyInTheTable ==
  ASSUME Inv, NEW p \in Processes, Steady(Stored(p)),
         NEW x \in 1 .. Len(audit_events), NEW y \in 1 .. Len(audit_events), x < y,
         audit_events[x].id[1] = p, audit_events[y].id[1] = p
  PROVE  audit_events[x].timestamp <= audit_events[y].timestamp
<1> DEFINE places == {i \in DOMAIN audit_events : audit_events[i].id[1] = p}
           c == Cardinality(places)
<1>1. Len(audit_events) \in Nat /\ DOMAIN audit_events = 1 .. Len(audit_events)
  BY Elements DEF Inv, Tables
<1>2. /\ places \in SUBSET (1 .. Len(audit_events)) /\ places \in SUBSET Int
      /\ x \in places /\ y \in places
  BY <1>1
<1>3. IsFiniteSet(places)
  <2>1. IsFiniteSet(1 .. Len(audit_events))
    BY <1>1, FS_Interval
  <2> QED
    BY <1>2, <2>1, FS_Subset
<1>4. Stored(p) = Picked(audit_events, places)
  BY DEF Stored, By
<1> HIDE DEF places
<1>5. /\ c \in Nat /\ DOMAIN Stored(p) = 1 .. c
      /\ \A k \in 1 .. c : Stored(p)[k] = audit_events[PlaceOf(places, k)]
  BY <1>2, <1>3, <1>4, PickedElements
<1>6. /\ \A k, l \in 1 .. c : k < l => PlaceOf(places, k) < PlaceOf(places, l)
      /\ \A i \in places : \E k \in 1 .. c : PlaceOf(places, k) = i
  BY <1>2, <1>3, PlacesInOrder
<1> HIDE DEF c
<1>7. PICK k \in 1 .. c : PlaceOf(places, k) = x
  BY <1>2, <1>6
<1>8. PICK l \in 1 .. c : PlaceOf(places, l) = y
  BY <1>2, <1>6
<1>9. k < l
  <2>1. ~(l < k)
    BY <1>6, <1>7, <1>8
  <2>2. l # k
    BY <1>7, <1>8
  <2> QED
    BY <1>5, <2>1, <2>2
<1> QED
  BY <1>5, <1>7, <1>8, <1>9 DEF Steady

(* So query() returns the events of such an emitter as it emitted them.    *)
LEMMA QueriesReadInOrder ==
  ASSUME Inv, Rising, Paced, NEW filter, NEW p \in Processes, Ascending(Times(Stored(p)))
  PROVE  Ascending(Numbers(By(p, Found(filter))))
<1>1. Steady(Stored(p))
  BY DEF Paced
<1>2. PICK n \in Nat :
           /\ DOMAIN Found(filter) = 1 .. n
           /\ \A k \in 1 .. n : /\ TablePlace(filter, k) \in 1 .. Len(audit_events)
                              /\ Found(filter)[k] = audit_events[TablePlace(filter, k)]
           /\ \A k, l \in 1 .. n : k < l =>
                \/ Found(filter)[k].timestamp < Found(filter)[l].timestamp
                \/ TablePlace(filter, k) < TablePlace(filter, l)
  BY QuerySorts
<1> DEFINE found == Found(filter)
           places == {k \in DOMAIN found : found[k].id[1] = p}
           c == Cardinality(places)
           read == By(p, found)
<1>3. places \in SUBSET (1 .. n) /\ places \in SUBSET Int /\ IsFiniteSet(places)
  <2>1. places \in SUBSET (1 .. n) /\ IsFiniteSet(1 .. n)
    BY <1>2, FS_Interval
  <2> QED
    BY <2>1, FS_Subset
<1>4. read = Picked(found, places)
  BY DEF By
<1>5. \A k \in places : k \in 1 .. n /\ found[k].id[1] = p
  BY <1>2
<1> HIDE DEF places, found, read
<1>6. /\ c \in Nat /\ DOMAIN read = 1 .. c
      /\ \A m \in 1 .. c : PlaceOf(places, m) \in places /\ read[m] = found[PlaceOf(places, m)]
  BY <1>3, <1>4, PickedElements
<1>7. \A k, l \in 1 .. c : k < l => PlaceOf(places, k) < PlaceOf(places, l)
  BY <1>3, PlacesInOrder
<1> HIDE DEF c
<1>8. ASSUME NEW k \in places, NEW l \in places, k < l
      PROVE  found[k].id[2] <= found[l].id[2]
  <2>1. PICK x \in 1 .. Len(audit_events) : x = TablePlace(filter, k) /\ found[k] = audit_events[x]
    BY <1>2, <1>5 DEF found
  <2>2. PICK y \in 1 .. Len(audit_events) : y = TablePlace(filter, l) /\ found[l] = audit_events[y]
    BY <1>2, <1>5 DEF found
  <2>3. audit_events[x].id[1] = p /\ audit_events[y].id[1] = p
    BY <1>5, <2>1, <2>2
  <2>4. /\ audit_events[x].id[2] \in Nat /\ audit_events[x].timestamp \in Nat
        /\ audit_events[y].id[2] \in Nat /\ audit_events[y].timestamp \in Nat
    BY Elements DEF Inv, Tables, RowsAreOwn
  <2>5. audit_events[x].timestamp < audit_events[y].timestamp \/ x < y
    BY <1>2, <1>5, <1>8, <2>1, <2>2 DEF found
  <2>6. y < x => audit_events[y].timestamp <= audit_events[x].timestamp
    BY <1>1, <2>3, SteadyInTheTable
  <2>7. x < y \/ x = y
    BY <2>4, <2>5, <2>6
  <2>8. audit_events[x].id[2] <= audit_events[y].id[2]
    BY <2>3, <2>4, <2>7 DEF Rising
  <2> QED
    BY <2>1, <2>2, <2>8
<1>9. \A m \in 2 .. c : read[m - 1].id[2] <= read[m].id[2]
  <2>1. ASSUME NEW m \in 2 .. c
        PROVE  read[m - 1].id[2] <= read[m].id[2]
    <3>1. m \in 1 .. c /\ m - 1 \in 1 .. c /\ m - 1 < m
      BY <1>6
    <3> QED
      BY <1>6, <1>7, <1>8, <3>1
  <2> QED
    BY <2>1
<1> QED
  BY <1>6, <1>9, StepByStep DEF read, found

(* What a process has read stays in order until it reads again.            *)
ReadWell(trail, c) ==
  c.op = "query" /\ c.pc = "returned" /\ "events" \in DOMAIN c.answer =>
    \A p \in Processes :
      Ascending(Times(By(p, trail))) => Ascending(Numbers(By(p, c.answer.events)))

(* The property, reader by reader.                                         *)
LEMMA AllReadWell ==
  /\ TrailsReadInOrder <=> \A reader \in Processes : ReadWell(audit_events, call[reader])
  /\ TrailsReadInOrder' <=> \A reader \in Processes : ReadWell(audit_events', call'[reader])
BY DEF TrailsReadInOrder, Read, ReadWell, Times, Numbers

(* It is kept when one reader reads well and no trail became steady.       *)
LEMMA OneReads ==
  ASSUME Calls, TrailsReadInOrder, NEW p \in Processes, NEW c, call' = [call EXCEPT ![p] = c],
         ReadWell(audit_events', c),
         \A q \in Processes :
           Ascending(Times(By(q, audit_events'))) => Ascending(Times(By(q, audit_events)))
  PROVE  TrailsReadInOrder'
<1>1. call' = [q \in Processes |-> IF q = p THEN c ELSE call[q]]
  BY DEF Calls
<1>2. ASSUME NEW q \in Processes
      PROVE  ReadWell(audit_events', call'[q])
  <2>1. CASE q = p
    BY <1>1, <2>1
  <2>2. CASE q # p
    <3>1. call'[q] = call[q] /\ ReadWell(audit_events, call[q])
      BY <1>1, <2>2, AllReadWell
    <3> QED
      BY <3>1 DEF ReadWell
  <2> QED
    BY <2>1, <2>2
<1> QED
  BY <1>2, AllReadWell

(* Where the table of events stays, one call that moves on leaves all in   *)
(* order unless it has read badly.                                         *)
LEMMA OrderStays ==
  ASSUME Calls, InOrder, audit_events' = audit_events,
         call' = call \/ \E p \in Processes : \E c :
                          ReadWell(audit_events, c) /\ call' = [call EXCEPT ![p] = c]
  PROVE  InOrder'
<1>1. Rising' /\ Paced'
  BY DEF InOrder, Rising, Paced, Stored, Times, Steady
<1>2. CASE call' = call
  <2>1. TrailsReadInOrder'
    BY <1>2, AllReadWell DEF InOrder
  <2> QED
    BY <1>1, <2>1 DEF InOrder
<1>3. ASSUME NEW p \in Processes, NEW c, ReadWell(audit_events, c), call' = [call EXCEPT ![p] = c]
      PROVE  InOrder'
  <2>1. ReadWell(audit_events', c)
    BY <1>3
  <2>2. TrailsReadInOrder'
    BY <1>3, <2>1, OneReads DEF InOrder
  <2> QED
    BY <1>1, <2>2 DEF InOrder
<1> QED
  BY <1>2, <1>3

(* Calls that are made keep the order.                                     *)
LEMMA CallsKeepOrder ==
  ASSUME Calls, InOrder, NEW p \in Processes, NEW op, NEW arg, NEW pc, pc # "returned",
         Call(p, op, arg, pc), audit_events' = audit_events
  PROVE  InOrder'
<1>1. PICK c : c = [op |-> op, arg |-> arg, pc |-> pc]
  OBVIOUS
<1>2. ReadWell(audit_events, c) /\ call' = [call EXCEPT ![p] = c]
  BY <1>1 DEF Call, ReadWell
<1> QED
  BY <1>2, OrderStays

(* No answer but that of a query has events in it.                         *)
LEMMA AnswersKeepOrder ==
  ASSUME Inv, InOrder, NEW p \in Processes, call[p].pc # "returned", audit_events' = audit_events,
         NEW ans, Return(p, ans), call[p].op # "query" \/ "events" \notin DOMAIN ans
  PROVE  InOrder'
<1>1. PICK c : c = Returned(p, ans)
  OBVIOUS
<1>2. call' = [call EXCEPT ![p] = c]
  BY <1>1, ReturnIsGood DEF Inv
<1>3. ReadWell(audit_events, c)
  BY <1>1 DEF Returned, ReadWell
<1> QED
  BY <1>2, <1>3, OrderStays DEF Inv

(* So do the statements that neither query nor append.                     *)
LEMMA StatementsKeepOrder ==
  ASSUME Inv, InOrder, NEW p \in Processes,
         \/ putSelects(p) \/ putInserts(p) \/ getSelects(p)
         \/ revokeInserts(p) \/ isRevokedSelects(p) \/ StatementFails(p)
  PROVE  InOrder'
<1>1. call[p].pc # "returned" /\ audit_events' = audit_events
  BY DEF putSelects, putInserts, getSelects, revokeInserts, isRevokedSelects, StatementFails,
         Executes, tables
<1>2. CASE putSelects(p) /\ call' = [call EXCEPT ![p].pc = "insert"]
  <2>1. PICK c : c = [op |-> call[p].op, arg |-> call[p].arg, pc |-> "insert"]
    OBVIOUS
  <2>2. call[p] = [op |-> call[p].op, arg |-> call[p].arg, pc |-> call[p].pc]
    BY <1>1, PendingCall DEF Inv
  <2>3. [call[p] EXCEPT !.pc = "insert"] = c
    BY <2>1, <2>2
  <2>4. call' = [call EXCEPT ![p] = c]
    BY <1>2, <2>3
  <2>5. ReadWell(audit_events, c)
    BY <2>1 DEF ReadWell
  <2> QED
    BY <1>1, <2>4, <2>5, OrderStays DEF Inv
<1>3. ASSUME NEW ans, Return(p, ans), call[p].op # "query" \/ "events" \notin DOMAIN ans
      PROVE  InOrder'
  BY <1>1, <1>3, AnswersKeepOrder
<1>4. "events" \notin DOMAIN Result("thrown")
  BY DEF Result
<1> QED
  BY <1>2, <1>3, <1>4 DEF putSelects, putInserts, getSelects, revokeInserts, isRevokedSelects,
                          StatementFails, Executes

(* query() returns what is in order.                                       *)
LEMMA QueriesKeepOrder ==
  ASSUME Inv, InOrder, NEW p \in Processes, querySelects(p)
  PROVE  InOrder'
<1> DEFINE found == Found(call[p].arg)
<1>1. PICK c : c = Returned(p, [events |-> found])
  OBVIOUS
<1>2. /\ call[p].pc # "returned" /\ Return(p, [events |-> found]) /\ audit_events' = audit_events
  BY DEF querySelects, Executes, tables, Found
<1>3. call' = [call EXCEPT ![p] = c]
  BY <1>1, <1>2, ReturnIsGood DEF Inv
<1>4. \A q \in Processes : Ascending(Times(Stored(q))) => Ascending(Numbers(By(q, found)))
  BY QueriesReadInOrder DEF InOrder
<1> HIDE DEF found
<1>5. c.answer.events = found
  BY <1>1 DEF Returned
<1>6. ReadWell(audit_events, c)
  BY <1>4, <1>5 DEF ReadWell, Stored
<1> QED
  BY <1>2, <1>3, <1>6, OrderStays DEF Inv

(* append() adds at the end.                                               *)
LEMMA AppendsKeepOrder ==
  ASSUME Inv, InOrder, NEW p \in Processes, appendInserts(p)
  PROVE  InOrder'
<1>1. PICK c : c = Returned(p, Result("done"))
  OBVIOUS
<1>2. call[p].op = "append" /\ call[p].pc # "returned" /\ Return(p, Result("done"))
  BY DEF appendInserts, Executes
<1>3. call' = [call EXCEPT ![p] = c]
  BY <1>1, <1>2, ReturnIsGood DEF Inv
<1>4. ReadWell(audit_events', c)
  BY <1>1, <1>2 DEF ReadWell, Returned
<1>5. /\ Rising' /\ Paced'
      /\ \A q \in Processes : Ascending(Times(By(q, audit_events'))) => Ascending(Times(Stored(q)))
  BY AppendsInOrder DEF InOrder
<1>6. TrailsReadInOrder'
  BY <1>3, <1>4, <1>5, OneReads DEF Inv, InOrder, Stored
<1> QED
  BY <1>5, <1>6 DEF InOrder

(* Every step keeps the order.                                             *)
LEMMA OrderStep ==
  ASSUME Inv, InOrder, [Next]_vars
  PROVE  InOrder'
<1>1. ASSUME audit_events' = audit_events, call' = call
      PROVE  InOrder'
  BY <1>1, OrderStays DEF Inv
<1>2. CASE \/ UNCHANGED vars
           \/ \E t : SetClock(t)
           \/ \E input : createIdentity(input)
  BY <1>1, <1>2 DEF vars, tables, SetClock, createIdentity
<1>3. ASSUME NEW p \in Processes,
             \/ \E i : put(p, i)
             \/ \E id : get(p, id)
             \/ \E h : isRevoked(p, h) \/ \E t : revoke(p, h, t)
             \/ \E t : append(p, t)
             \/ \E filter : query(p, filter)
      PROVE  InOrder'
  <2>1. PICK op \in Operations : \E arg, pc : pc # "returned" /\ Call(p, op, arg, pc)
    BY <1>3, CallsAreMade DEF Called
  <2>2. audit_events' = audit_events
    BY <2>1 DEF Call, tables
  <2> QED
    BY <2>1, <2>2, CallsKeepOrder DEF Inv
<1>4. ASSUME NEW p \in Processes,
             \/ putSelects(p) \/ putInserts(p) \/ getSelects(p)
             \/ revokeInserts(p) \/ isRevokedSelects(p) \/ StatementFails(p)
      PROVE  InOrder'
  BY <1>4, StatementsKeepOrder
<1>5. ASSUME NEW p \in Processes, appendInserts(p)
      PROVE  InOrder'
  BY <1>5, AppendsKeepOrder
<1>6. ASSUME NEW p \in Processes, querySelects(p)
      PROVE  InOrder'
  BY <1>6, QueriesKeepOrder
<1>7. ASSUME NEW p \in Processes, Crash(p)
      PROVE  InOrder'
  <2>1. ReadWell(audit_events, NoCall)
    BY DEF NoCall, ReadWell
  <2>2. call' = [call EXCEPT ![p] = NoCall] /\ audit_events' = audit_events
    BY <1>7 DEF Crash, tables
  <2> QED
    BY <2>1, <2>2, OrderStays DEF Inv
<1> QED
  BY <1>2, <1>3, <1>4, <1>5, <1>6, <1>7 DEF Next

(* And it holds of the empty table.                                        *)
LEMMA InitInOrder ==
  ASSUME Init, Inv
  PROVE  InOrder
<1>1. audit_events = <<>> /\ IsSequence(<<>>) /\ Len(<<>>) = 0 /\ \A i : i \notin 1 .. 0
  BY DEF Init, IsSequence, ToSet
<1>2. Rising
  BY <1>1 DEF Rising
<1>3. Paced
  <2>1. ASSUME NEW p
        PROVE  Stored(p) = <<>>
    <3>1. {i \in DOMAIN <<>> : <<>>[i].id[1] = p} = {}
      BY <1>1, Elements
    <3> QED
      BY <1>1, <3>1, NothingIsPicked DEF Stored, By
  <2>2. Steady(<<>>)
    BY <1>1, Elements DEF Steady
  <2> QED
    BY <2>1, <2>2 DEF Paced
<1>4. TrailsReadInOrder
  <2>1. \A p \in Processes : call[p].op # "query"
    BY DEF Init, NoCall
  <2> QED
    BY <2>1 DEF TrailsReadInOrder, Read
<1> QED
  BY <1>2, <1>3, <1>4 DEF InOrder

(* What one process has appended is read back in the order in which it was *)
(* appended, unless the clock was set back between two of its events.      *)
THEOREM TrailsAreReadInOrder == Spec => []TrailsReadInOrder
<1>1. Init /\ Inv => InOrder
  BY InitInOrder
<1>2. Inv /\ InOrder /\ [Next]_vars => InOrder'
  BY OrderStep
<1>3. InOrder => TrailsReadInOrder
  BY DEF InOrder
<1> QED
  BY <1>1, <1>2, <1>3, InvHolds, PTL DEF Spec
=============================================================================
