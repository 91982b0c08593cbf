---------------------------- MODULE SqliteStores ----------------------------
(***************************************************************************)
(* The SQLite adapters of packages/storage-sqlite: several processes over  *)
(* one database file, each of which may stop at any moment and open the    *)
(* file again.  A statement reads or commits at once; between two          *)
(* statements of one operation, other processes go on.  A process runs its *)
(* operations one after another, since none of them gives up control.      *)
(* Identities come from createIdentity(), and may be moved to another      *)
(* tenant before they are put.                                             *)
(*                                                                         *)
(* A table is the sequence of its rows in the order of their insertion; a  *)
(* field that is left out is Undefined, and NULL in a row.  JSON columns   *)
(* return what was put into them.                                          *)
(***************************************************************************)
EXTENDS SequencesExt, Trails

CONSTANTS
  Processes,
  Inputs,                   \* what createIdentity() is called with
  ForbiddenKeys,            \* FORBIDDEN_KEYS, of metadata
  MAX_METADATA_KEYS,
  HopIds,                   \* what may be revoked
  Tenants,                  \* values of a tenantId
  Filters,                  \* of queries
  MaxIdentities, MaxEvents, MaxNow,     \* bounds
  Undefined, NULL, Empty    \* a field left out, the SQL value, the empty string

VALID_KINDS == {"human", "application", "agent"}

ASSUME SqliteAssumption ==
  /\ Undefined # NULL /\ NULL \notin Tenants
  /\ \A input \in Inputs : NULL \notin {input.tenantId, input.name, input.createdBy, input.metadata}
  /\ MAX_METADATA_KEYS \in Nat /\ MaxIdentities \in Nat /\ MaxEvents \in Nat /\ MaxNow \in Nat

VARIABLES
  now,                      \* the wall clock, which may be set
  created,                  \* the identities createIdentity() has returned
  identities, revocations, audit_events,      \* the tables
  appended,                 \* the number of events each process has built
  call                      \* the operation each process is in
tables == <<identities, revocations, audit_events>>
vars == <<now, created, tables, appended, call>>

NoCall == [op |-> "none", pc |-> "returned"]
Result(string) == [result |-> string]

Init ==
  /\ now = 0
  /\ created = {}
  /\ identities = <<>> /\ revocations = <<>> /\ audit_events = <<>>
  /\ appended = [p \in Processes |-> 0]
  /\ call = [p \in Processes |-> NoCall]

SetClock(t) == now' = t /\ UNCHANGED <<created, tables, appended, call>>

-----------------------------------------------------------------------------
(* createIdentity(): the kind defaults to agent, and an agent has to name  *)
(* its creator.  The slip looks at the kind as it was given.               *)
kind(input) == IF input.kind = Undefined THEN "agent" ELSE input.kind

assertSafeMetadata(metadata) ==
  Cardinality(metadata) <= MAX_METADATA_KEYS /\ metadata \cap ForbiddenKeys = {}

SlipKindAsGiven(input) == input.kind = "agent" => input.createdBy \notin {Undefined, Empty}
traceable(input) == kind(input) = "agent" => input.createdBy \notin {Undefined, Empty}

validInput(input) ==
  /\ kind(input) \in VALID_KINDS
  /\ input.name # Empty
  /\ input.hasKty
  /\ traceable(input)
  /\ input.metadata # Undefined => assertSafeMetadata(input.metadata)

createIdentity(input) ==
  /\ Cardinality(created) < MaxIdentities
  /\ validInput(input)
  /\ created' = created \cup
       {[id |-> Cardinality(created) + 1, kind |-> kind(input), tenantId |-> input.tenantId,
         name |-> input.name, createdBy |-> input.createdBy, metadata |-> input.metadata]}
  /\ UNCHANGED <<now, tables, appended, call>>

-----------------------------------------------------------------------------
(* Rows of identities: what is left out is written as NULL, and toIdentity *)
(* leaves out what is NULL.  The slip returns the NULL.                    *)
SlipNullLeaks(value) == value
OrNull(value) == IF value = Undefined THEN NULL ELSE value
OrUndefined(value) == IF value = NULL THEN Undefined ELSE value

row(identity) ==
  [ id |-> identity.id, tenant_id |-> OrNull(identity.tenantId), kind |-> identity.kind,
    name |-> OrNull(identity.name), created_by |-> OrNull(identity.createdBy),
    metadata |-> OrNull(identity.metadata) ]

toIdentity(r) ==
  [ id |-> r.id, tenantId |-> OrUndefined(r.tenant_id), kind |-> r.kind,
    name |-> OrUndefined(r.name), createdBy |-> OrUndefined(r.created_by),
    metadata |-> OrUndefined(r.metadata) ]

existing(id) == {r \in ToSet(identities) : r.id = id}

(* The operations: one is called, executes its statements and returns.     *)
Call(p, op, arg, pc) ==
  /\ call[p].pc = "returned"
  /\ call' = [call EXCEPT ![p] = [op |-> op, arg |-> arg, pc |-> pc]]
  /\ UNCHANGED <<now, created, tables>>

Executes(p, op, pc) == call[p].op = op /\ call[p].pc = pc
Return(p, answer) ==
  call' = [call EXCEPT ![p] = [op |-> @.op, arg |-> @.arg, pc |-> "returned", answer |-> answer]]

(* SQLITE_BUSY, a full disk: the statement throws and changes nothing.     *)
StatementFails(p) ==
  /\ call[p].pc # "returned"
  /\ Return(p, Result("thrown"))
  /\ UNCHANGED <<now, created, tables, appended>>

put(p, identity) == Call(p, "put", identity, "select") /\ UNCHANGED appended

putSelects(p) ==
  /\ Executes(p, "put", "select")
  /\ IF existing(call[p].arg.id) # {}
     THEN Return(p, Result("DuplicateIdentityError"))
     ELSE call' = [call EXCEPT ![p].pc = "insert"]
  /\ UNCHANGED <<now, created, tables, appended>>

(* The primary key: the row is there by now and the insertion throws.  The *)
(* slip is a table without one.                                            *)
SlipNoPrimaryKey(id) == FALSE
conflicts(id) == existing(id) # {}

putInserts(p) ==
  LET identity == call[p].arg
  IN  /\ Executes(p, "put", "insert")
      /\ \/ /\ conflicts(identity.id)
            /\ Return(p, Result("SQLITE_CONSTRAINT_PRIMARYKEY")) /\ UNCHANGED identities
         \/ /\ ~conflicts(identity.id)
            /\ Return(p, Result("stored")) /\ identities' = Append(identities, row(identity))
      /\ UNCHANGED <<now, created, revocations, audit_events, appended>>

get(p, id) == Call(p, "get", id, "select") /\ UNCHANGED appended

getSelects(p) ==
  /\ Executes(p, "get", "select")
  /\ \/ existing(call[p].arg) = {} /\ Return(p, Result("null"))
     \/ \E r \in existing(call[p].arg) : Return(p, [identity |-> toIdentity(r)])
  /\ UNCHANGED <<now, created, tables, appended>>

-----------------------------------------------------------------------------
(* Revocations: a hop that is there already is left as it is.              *)
revokedHops == {r.hop_id : r \in ToSet(revocations)}

revoke(p, hopId, tenantId) ==
  Call(p, "revoke", [hop_id |-> hopId, tenant_id |-> OrNull(tenantId)], "insert") /\ UNCHANGED appended

revokeInserts(p) ==
  /\ Executes(p, "revoke", "insert")
  /\ revocations' = IF call[p].arg.hop_id \in revokedHops THEN revocations
                    ELSE Append(revocations, call[p].arg)
  /\ Return(p, Result("done"))
  /\ UNCHANGED <<now, created, identities, audit_events, appended>>

isRevoked(p, hopId) == Call(p, "isRevoked", hopId, "select") /\ UNCHANGED appended

isRevokedSelects(p) ==
  /\ Executes(p, "isRevoked", "select")
  /\ Return(p, [revoked |-> call[p].arg \in revokedHops])
  /\ UNCHANGED <<now, created, tables, appended>>

-----------------------------------------------------------------------------
(* Audit events: the emitter of a process stamps them with the time and    *)
(* with a fresh id, here the process and a count.                          *)
append(p, tenantId) ==
  /\ FoldFunction(+, 0, appended) < MaxEvents
  /\ appended' = [appended EXCEPT ![p] = @ + 1]
  /\ Call(p, "append", [id |-> <<p, appended[p] + 1>>, timestamp |-> now, tenantId |-> tenantId],
          "insert")

appendInserts(p) ==
  /\ Executes(p, "append", "insert")
  /\ audit_events' = Append(audit_events, call[p].arg)
  /\ Return(p, Result("done"))
  /\ UNCHANGED <<now, created, identities, revocations, appended>>

(* WHERE has a clause for each field the filter has.                       *)
where(filter) ==
  Picked(audit_events, {i \in DOMAIN audit_events :
                          \A field \in DOMAIN filter : audit_events[i][field] = filter[field]})

(* ORDER BY timestamp ASC, rows with equal timestamps as they were         *)
(* inserted.  The slip has the last first.                                 *)
SlipDescending(rows) ==
  SortSeq(rows, LAMBDA e, f : e.timestamp > f.timestamp)
orderByTimestamp(rows) ==
  LET before(i, j) == \/ rows[i].timestamp < rows[j].timestamp
                      \/ rows[i].timestamp = rows[j].timestamp /\ i < j
      place(i) == Cardinality({j \in DOMAIN rows : before(j, i)}) + 1
  IN  [k \in DOMAIN rows |-> rows[CHOOSE i \in DOMAIN rows : place(i) = k]]

query(p, filter) == Call(p, "query", filter, "select") /\ UNCHANGED appended

querySelects(p) ==
  /\ Executes(p, "query", "select")
  /\ Return(p, [events |-> orderByTimestamp(where(call[p].arg))])
  /\ UNCHANGED <<now, created, tables, appended>>

(* A process stops and opens the file again: CREATE TABLE IF NOT EXISTS    *)
(* leaves the rows that have been committed.                               *)
Crash(p) ==
  /\ call' = [call EXCEPT ![p] = NoCall]
  /\ UNCHANGED <<now, created, tables, appended>>

Moved(identity) == {identity} \cup {[identity EXCEPT !.tenantId = t] : t \in Tenants}

Next ==
  \/ \E t \in 0 .. MaxNow : t # now /\ SetClock(t)
  \/ \E input \in Inputs : createIdentity(input)
  \/ \E p \in Processes :
       \/ \E identity \in UNION {Moved(i) : i \in created} : put(p, identity)
       \/ \E identity \in created : get(p, identity.id)
       \/ \E hopId \in HopIds : isRevoked(p, hopId) \/ \E t \in Tenants : revoke(p, hopId, t)
       \/ \E t \in Tenants : append(p, t)
       \/ \E filter \in Filters : query(p, filter)
       \/ putSelects(p) \/ putInserts(p) \/ getSelects(p)
       \/ revokeInserts(p) \/ isRevokedSelects(p)
       \/ appendInserts(p) \/ querySelects(p)
       \/ StatementFails(p) \/ Crash(p)

Spec == Init /\ [][Next]_vars

-----------------------------------------------------------------------------
(* The tables have their keys, and no process, working or restarted, finds *)
(* in them anything but what createIdentity() or an emitter has made.      *)
TypeOK ==
  /\ now \in 0 .. MaxNow
  /\ IsInjective([i \in DOMAIN identities |-> identities[i].id])
  /\ IsInjective([i \in DOMAIN revocations |-> revocations[i].hop_id])
  /\ IsInjective([i \in DOMAIN audit_events |-> audit_events[i].id])
  /\ \A r \in ToSet(identities) : toIdentity(r) \in UNION {Moved(i) : i \in created}
  /\ \A e \in ToSet(audit_events) : e.id[2] <= appended[e.id[1]]

(* Every agent that is stored names its creator, whatever createIdentity() *)
(* was asked for and however the row was read back.                        *)
StoredAgentsAreTraceable ==
  \A r \in ToSet(identities) :
    toIdentity(r).kind = "agent" => toIdentity(r).createdBy \notin {Undefined, Empty}

(* What one process has appended is read back in the order in which it was *)
(* appended, unless the clock was set back between two of its own events:  *)
(* the clock of one and the failed appends of another do not matter.       *)
By(p, trail) == Picked(trail, {i \in DOMAIN trail : trail[i].id[1] = p})
Ascending(numbers) == \A i \in 2 .. Len(numbers) : numbers[i - 1] <= numbers[i]

Read(p) == call[p].op = "query" /\ call[p].pc = "returned" /\ "events" \in DOMAIN call[p].answer

TrailsReadInOrder ==
  \A reader \in {p \in Processes : Read(p)}, p \in Processes :
    LET stored == By(p, audit_events)
        read == By(p, call[reader].answer.events)
    IN  Ascending([i \in DOMAIN stored |-> stored[i].timestamp]) =>
          Ascending([i \in DOMAIN read |-> read[i].id[2]])

(* The adapters implement the stores they replace: between two processes   *)
(* that put one id, and over any number of crashes, no identity is         *)
(* overwritten, nothing acknowledged is lost, and each answer is that of   *)
(* one moment of the call.                                                 *)
abstractAnswer(p) ==
  IF call[p].answer = Result("SQLITE_CONSTRAINT_PRIMARYKEY") THEN Result("thrown")
  ELSE IF "events" \in DOMAIN call[p].answer THEN [events |-> ToSet(call[p].answer.events)]
  ELSE call[p].answer

abstractCall(p) ==
  IF call[p] = NoCall THEN [op |-> "none", done |-> TRUE]
  ELSE [ op |-> call[p].op, arg |-> IF call[p].op = "revoke" THEN call[p].arg.hop_id ELSE call[p].arg,
         done |-> call[p].pc = "returned",
         answer |-> IF call[p].pc = "returned" THEN abstractAnswer(p) ELSE Result("pending") ]

storedIdentities ==
  [id \in {r.id : r \in ToSet(identities)} |-> toIdentity(CHOOSE r \in ToSet(identities) : r.id = id)]
abstractCalls == [p \in Processes |-> abstractCall(p)]

Contract == INSTANCE Stores WITH
  identities <- storedIdentities, revoked <- revokedHops, events <- ToSet(audit_events),
  call <- abstractCalls
ImplementsStores == Contract!Spec
=============================================================================
