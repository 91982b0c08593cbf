# Attent in TLA+

Attent lets a principal issue a signed, expiring credential to an agent, lets the
agent delegate a narrower one, verifies a chain of such hops, and decides whether a
chain allows a request. This directory specifies that behaviour: what each part
keeps, what each operation does step by step, what the steps of concurrent callers
may and may not bring about, and which of that is proved for every instance.

Paths below are relative to the repository; `src/` there holds the core library and
`packages/` the adapters.

## The system

| Component | State | Operations | Talks to |
|---|---|---|---|
| grammar (`src/authorization/grammar.ts`) | none | parse, match and compare colon separated names and patterns | used by narrowing and authorization |
| narrowing (`src/delegation/narrow.ts`) | none | does a parent's authority cover a child's | used by `delegate` and by `verifyChain` |
| credentials (`src/credentials`) | none; a clock is read | `issueCredential`, `verifyCredential` | key provider, trusted key store |
| delegation (`src/delegation`) | chains, held by callers | `delegate`, `verifyChain` | narrowing, credentials, key store |
| crypto (`src/crypto`) | trusted keys per issuer and kid | `addKey`, `getKey`, `removeKey`, sign, hash | library `jose` |
| authorization (`src/authorization`) | none; a clock is read | `authorize` | revocation store, policy |
| revocation (`src/revocation`) | revoked hop ids | `revoke`, `isRevoked` | used by `authorize` |
| policy (`src/policy`) | none | `evaluate` one capability in a context | called by `authorize` |
| audit (`src/audit`) | listeners, last hash, the sink's events | four `audited*` wrappers, `emit`, `onAuditEvent`, `verifyHashChain` | wraps the operations above |
| identity (`src/identity`) | identities by id | `createIdentity`, `put`, `get` | none |
| SQLite stores (`packages/storage-sqlite`) | three tables of one file | the three store interfaces | several processes |
| MCP middleware (`packages/mcp`) | none | resolve, verify, authorize, run the tool | all of the above |
| MCP server (`examples/mcp-stdio/server.ts`) | trusted keys, and stores that are gone with the process or are a database | read the trusted keys, serve requests | the middleware |

The hard behaviours are those of asynchronous calls: everything runs in one event
loop, so a step between two awaits is atomic and anything may happen at an await.
`authorize` awaits the store once per hop, `verifyChain` the key store once per hop,
a wrapper the wrapped operation and then the sink. The second difficulty is that
correctness rests on an argument the code never runs: `authorize` reads the leaf
alone because narrowing between adjacent hops is supposed to add up, and revocation
reaches descendants only because a presented chain cannot hide an ancestor. The third
is what outlives a process: a database file shared by processes that may stop between
two statements, next to stores and caches that start empty: the in-memory stores forget
what was revoked when their process stops.

What makes each component correct:

- narrowing: the pattern check is exactly inclusion; covering is sound for requests
  and transitive; claims that are well formed cover themselves.
- delegation: an accepted chain narrows end to end, has a single lineage, was signed
  under keys trusted for the right holder during the call, and its hops were all alive at
  one moment of it; what `delegate` returns passes the walk exactly if what it started
  from does; every call ends.
- authorization: an allow was right when asked and alive when returned, a denial has a
  cause, a failing store never leads to an allow, every call returns, and all of it
  together behaves like one atomic decision.
- audit: no event is lost in silence, every result is on record, and the hash chain
  tells exactly what is missing or altered.
- stores: an operation takes effect at once or not at all, nothing is overwritten or
  forgotten, agents stay traceable, and a trail is read back in its order.
- MCP: a request runs the tool only if it was entitled to it, is refused only for a
  cause, is answered, and leaves its record first; revocation reaches all descendants,
  across restarts if the stores are durable, and until the restart if they are not.

`PROJECT.json` lists every hazard at its line with the properties that would catch it.

## The modules

| Module | Models | Rests on |
|---|---|---|
| `Grammar` | `grammar.ts` | |
| `Narrowing` | `narrow.ts`, the default policy, the matching of `authorize` | `Grammar` |
| `NarrowingWalk` | a lineage of claims grown by `delegate`, over the whole language of patterns and constraints | `Narrowing` |
| `Delegation` | minting and verifying chains, the key store and the clock | `Narrowing` |
| `Eligibility` | what an authorization is about; shared vocabulary | `Narrowing` |
| `AtomicAuthorization` | what `authorize` promises, as one step (abstract) | `Eligibility` |
| `Authorization` | `authorize` with its awaits, `revoke`, the store | `Eligibility`, implements `AtomicAuthorization` |
| `Trails` | the elements of a sequence at some of its places (`filter`, `WHERE`) | |
| `AuditTrail` | emitter, hash chain, sink, wrappers | `Trails` |
| `ConstraintValues` | constraints that are objects, in memory and signed | |
| `Stores` | what the three stores promise, from the in-memory ones (abstract) | |
| `SqliteStores` | `createIdentity` and the three SQLite adapters, statement by statement | `Trails`, implements `Stores` |
| `ToolRequests` | what a request to a guarded tool is about; shared vocabulary | `Narrowing` |
| `GuardedTool` | what the middleware promises, as one step (abstract) | `ToolRequests` |
| `ToolServer` | one server with its requests, from arrival to answer | composes `Delegation`, `Authorization`, `AuditTrail`; implements `GuardedTool` |
| `MC*` | instances for TLC | the module of that name |
| `NarrowingProofs`, `NarrowingWalkProofs`, `DelegationProofs`, `AuthorizationProofs`, `TrailsProofs`, `AuditTrailProofs`, `SqliteStoresProofs`, `ToolServerProofs` | theorems | the module of that name |

### How state and actions correspond to the code

**Grammar and Narrowing.** A string is its split at `:`, a sequence of segments, and
the empty string is the empty sequence. Of a segment the code asks only whether it is
concrete, the wildcard, or neither, so there is one value `Malformed` for "neither".
Constraints and contexts are functions on a set of keys, their values finite numbers
or something else compared by equality; a key whose value is `undefined` is not
distinguished from an absent one. Values compared by equality are primitive there;
for objects, which the code compares by identity, see `ConstraintValues`. Lists of
capabilities and of audience patterns are sets, since order and repetition only change
the reported reasons (and which matching capability an allow names, which no property is
about).

**Delegation.** `trusted` is the key store's map from issuer and kid, `signed` the tokens
that any key has signed, in order. A token's place in that order stands for its text, its
sha256 and its `jti`: signatures are taken to be unforgeable, hashes free of collisions,
uuids unique. Hence a string nobody signed, which `jwtVerify` rejects, does not occur; but
`sign` lets *any* claims be signed, so `verifyChain` meets hops neither `issueCredential`
nor `delegate` would make, in any sequence. `chains` and `verified` are what callers have
been handed. A call of `verifyChain` is at a hop `i` and waits for the key store (`GetKey`),
then for the key to be imported, after which it reads the clock (`ImportKey`), then for
`jwtVerify`, which judges the expiry by the moment read (`JwtVerify`); after the last hop
the walk over adjacent hops follows without giving up control. So a hop, the leaf included,
may expire between the clock read and the acceptance: `AcceptedHopsLivedTogether` speaks of
the moment of the last read, and `authorize` reads the clock again. `delegate` starts from
*any* sequence of signed hops, of which it looks at the length and the leaf only. An object
whose claims are not those of its `jws` is left out there (`verifyChain` reads the `jws`
alone). Signing is one step: nothing `issueCredential` and `delegate` read after their await
can have changed, and what they return appears when it is signed. The claim `iat` is never
read and is left out. `unsafeAssumeVerified` checks nothing and is left out.

**Authorization.** A call is at a hop `i`, waiting for the store (`StoreAnswers`,
`StoreFails`: the store reads at a moment of its own) or resumed (`Resume`: next hop, or all
that follows the last await, as one step). The clock does not run back there, nor in
`Delegation` and `ToolServer`; only the stores meet one that does. `revoke` may be given a
truncated chain, so any hop can be revoked. A denial keeps the reason of the code.

**AuditTrail.** A call is waiting for the wrapped operation, about to observe its
result, or waiting for `append`. `emit` runs up to its first await in one step: the
event, the hash, the listeners until one throws, `append`. The shipped sinks insert
or throw before they return a promise. An emitter is one object of one process:
`Crash` ends it with its calls, the sink stays. The emitter has a sink; `onSinkError`
does not itself throw; contents of events other than their result are abstracted.

**ConstraintValues.** One constraint of each hop, whose value is primitive or an object.
The holder's chain refers to objects of whoever granted it, which nobody froze; what was
signed keeps their contents at that time; each parse of a hop makes a new object, named by
the hop it was parsed from. `===` compares references. The module serves one question, put
by the run `constraint_restated`.

**Stores and SqliteStores.** A process calls an operation and executes its statements
one after the other; other processes go on between the `SELECT` and the `INSERT` of `put`.
A statement reads or commits at once (WAL; no operation opens a transaction), or throws
and changes nothing (`StatementFails`: a locked file, a full disk). `Crash` ends a process
anywhere, also between the commit and the answer, and leaves the tables as they are:
loss of power under the machine is SQLite's business and is left out. A table is its rows
in insertion order, which is the order SQLite returns rows with equal timestamps in. What
is left out of an identity is written as NULL and left out again. The wall clock may be
set to any value at any time. `Stores` is the same interface with the in-memory bodies and
without forgetting; a process answers in one step. The refinement maps the error of the
primary key to a call that throws, and does not promise an order of what `query` returns:
that is `TrailsReadInOrder`. An audit event keeps its id, its timestamp and its tenant.

**ToolServer.** A request is resolving (a call of `verifyChain` is in flight, or there is
nothing to verify), resolved, authorizing (inside `auditedAuthorize`) or answered. The
steps in between are actions of the instances `V`, `A` and `T` of the three component
modules, over the shared `trusted`, `revoked`, `now` and `sink`; the joining actions say
when `withAttent` starts each, and with what. `authorize` throws before its first await if
the tool's arguments give a malformed resource; then `withAttent` rejects. No audit
listener is subscribed: what one does that throws is a matter of `AuditTrail`. `Crash`
loses keys, requests and emitter; with `Restart` another process reads the keys file and
opens its stores.

What it finds there depends on the application. `withAttent` takes its stores as
arguments, and no program of the repository hands it the SQLite ones, nor an emitter with
a sink: the server of `examples/mcp-stdio/server.ts` has `memoryRevocationStore()` and no
emitter, `examples/mcp/index.ts` has stores in memory and an emitter without a sink. The
constant `Durable` says which kind it is. If it is `FALSE`, as in those programs, revocations
and sink start empty, and so does the history `revokedEver`, because the new store has
heard of none; a revocation from before the restart is not enforced, and no property says
it is. If it is `TRUE`, the stores are those of `packages/storage-sqlite`, which `README.md`
presents as a drop-in, and a restart finds what was there (`openAttentDatabase` creates
tables only if they do not exist). `GuardedTool` makes the same difference: its `Start`
forgets what was revoked unless `Durable`.

`server[c].once` and `.always` (the keys trusted at some moment
since the request arrived, and throughout) are history, with which `GuardedTool` states
its guards: with an answer in one step, a request is run if it was entitled when it
arrived, and refused only if it no longer is, or never was, when it is answered. The
tool's own code is the application's.

Variables marked history in the modules are not in the code and no action reads them.

## What TLC checks

| Run | Question | Properties |
|---|---|---|
| `narrowing_walk` | do adjacent comparisons add up, over patterns and constraints? | `AuthorityNeverGrows`, `SubsetIsInclusion`, `FullGrantCanBePassedOn` |
| `delegation_lineage` | what can be presented to `verifyChain` and accepted, and what does `delegate` make of it? | `TypeOK`, `VerifiedNarrows`, `OneLineage`, `DelegationKeepsTheWalk` |
| `delegation_clock` | what if keys and time change between its awaits? | `AcceptedUnderTrustedKeys`, `AcceptedHopsLivedTogether`, `CallsEnd` |
| `authorization` | is each decision right, when, and does it amount to one step? | `TypeOK`, `AllowedWasEligible`, `DeniedForACause`, `AllowedWhileEveryHopLives`, `ImplementsAtomic`, `CallsReturn` |
| `audit` | can an event or a result slip through, and what does the hash chain tell? | `TypeOK`, `EventsAreAccountedFor`, `ResultsAreOnRecord`, `ChainTellsGaps`, `TamperingIsDetected` |
| `sqlite` | are the adapters drop-in replacements, and what comes back from them? | `TypeOK`, `StoredAgentsAreTraceable`, `TrailsReadInOrder`, `ImplementsStores` |
| `tool_guard` | does a server over a database, with all its awaits, rotations and restarts, guard its tool like one step, and does it answer? | `TypeOK`, `ImplementsGuardedTool`, `RevocationCascades`, `RequestsAreAnswered` |
| `tool_shared` | do concurrent requests keep apart, and the record straight, with stores in memory and a restart? | `AnswersAreOnRecord`, `ImplementsGuardedTool` |

### Bounds, and why they suffice

- Narrowing: two concrete segments (with one, the wildcard and the segment match the
  same names), names of one and two segments, limits 1 and 2 against amounts 0 to 3 so
  that each limit has amounts below, at and above it, one malformed pattern, lineages
  of three hops (the shortest with hops that are never compared). The run stops when
  the depth is used up and does not check for deadlock.
- Delegation: two identities and one kid, so that each identity can be confused with the
  other. In `delegation_lineage` any three tokens, signed by hand or by `delegate` from
  any sequence of those before, presented in any sequence of up to three, with a constant
  clock; `delegate` is asked for one grant, to either identity, and passes the audience on.
  In `delegation_clock` two tokens, minted or signed by hand, expiries 1 to 4 under a
  clock up to 2, and every sequence of additions and removals of keys: two hops are the
  fewest between which something can happen. Longer chains are left to the proofs.
- Authorization: one call, on a chain of three hops or one of two that share a root and
  expire one after the other; requests that are allowed, and that fail for each of the
  reasons; one hop's audience allows less than its parent's, one hop has two matching
  capabilities of which the policy accepts one; the clock passes the last expiry. Two
  calls meet in the store alone, where revocations by others stand for each other's.
  They run side by side in `tool_shared`, and the theorems are about any number.
- Audit: two callers, two emitters over one sink, one listener, three events in all: the
  fewest with a first, a middle and a last, or with an event of another emitter between
  two of one.
- Stores: two processes, since every race is one of a pair, which are interchangeable
  (symmetry); one identity that is put with and without a tenant, and inputs rejected for
  each reason; one hop; three events in all, under a clock of two values and two filters,
  of which one finds nothing: the fewest events for which what one process appended, and
  when, could disturb the order of two events of the other.
- Tool server: three hops: a root hop, a second one equal to it but for its place, and one
  delegated from the first that expires earlier; presented as signed, after the wrong
  parent, without its parent, and one hop too many. In `tool_guard` a request to each of two
  processes, which may stop at any step, meets everything around it, among three resources
  of which one is malformed and one not granted; the key that is removed and added is the
  root's (`Rotated`). In `tool_shared` two clients' requests of one hop, or of none, run
  through one process or through two, one after the other; clients are interchangeable, and
  so are processes (symmetry). Both, and `tool_attempts`, stop when the requests, or the
  processes, are used up, and do not check for deadlock.

The bounds `MaxNow`, `MaxTokens`, `MaxEvents`, `MaxRequests`, `MaxIdentities` and
`MaxObjects`, and the sets `Rotated`, `Handmade` and `Presented`, limit the actions they
stand in and have no counterpart in the code. `MaxEvents` bounds the events of all emitters,
or of all processes, together.

### Fairness

A call whose await is over is eventually resumed, and the stores a call awaits eventually
settle: `WF` on `GetKey`, `ImportKey`, `JwtVerify`, on a store's answer or failure, and on
`Resume`. The first is what an event loop does, the second what the code itself needs, since
it sets no timeout: with a store that never settles `authorize` never returns.
`RequestsAreAnswered` assumes `WF` on `withAttent(c)`, the steps of one client's request,
for the same two reasons: they include what its awaits on key store, revocation store and
sink settle with. Nothing else is fair: nobody has to call, revoke, or let time pass.

### Where the repository says otherwise

Four runs state what a document or comment says and end in a counterexample.

- `delegation_limits` (`ReturnedHopsAreIssuable`): `delegate` signs what `issueCredential`
  refuses. Asked for an empty audience, it returns a hop that `verifyCredential` rejects as
  malformed; and it does not bound the two lists.
- `audit_listener` (`ResultIsNeverDiscarded`): a listener that throws makes a wrapper
  reject although the wrapped operation has settled, and keeps the event from the sink.
  `withAttent` then rejects as well, also on a denial.
- `tool_attempts` (`EveryAttemptIsRecorded`): a request without a usable credential is
  refused without an event.
- `constraint_restated` (`RestatedConstraintsPass`): two hops signed with the same object
  as a constraint fail the walk of `verifyChain`, though `delegate` accepts the parent's
  own object. `DelegationKeepsTheWalk` is therefore a statement about primitive values.

The passing runs hold with, and partly because they allow for, four more facts a reader of
the documents would not expect. No link of the hash chain covers the last event of a trail,
so an edit there is not noticed (`TamperingIsDetected` excepts it). Of two processes that
put one id at once, one gets the error of the primary key and not
`DuplicateIdentityError` (the refinement of `Stores` counts it as a call that throws). The
tenant is no part of the key of the identity store, so an id used by one tenant is a
duplicate for another (as it is in memory). And a clock that is set back changes the order
in which a trail is read (`TrailsReadInOrder` excepts it).

## What is proved

Every invariant and every refinement that a passing run checks is a theorem for every
value of the constants that meets the stated assumptions: any number of clients,
processes, tokens, events and rows, chains of any length, any interleaving. A module
`XProofs` holds the theorems about module `X`, each along the same lines: an invariant
`Inv` (or the strengthening named below) that TLC has checked on the runs' instances
before, one lemma per action that keeps it, and the property from it.

**Narrowing**

- *The pattern check is exact* (`SubsetIsExact`, `SubsetIsInclusionHolds`): given two
  concrete segments to tell apart, `patternIsSubsetOf` holds if and only if every name the
  child matches the parent matches. One direction instantiates the child's wildcards; for
  the other, the witness name takes at a wildcard of the child the segment the parent does
  not have.
- *Covering is sound* (`NarrowingIsSound`), transitive (`CoversIsTransitive`) and, on
  claims that are well formed, reflexive (`FullGrantCanBePassedOnHolds`): the three layers,
  patterns, constraints, policy, each preserve "allows".
- *Authority never grows* (`AuthorityNeverGrowsHolds`), for lineages of any length. The
  property is not inductive: the invariant is that every hop covers every later one
  (`EarlierCoversLater`), which a step preserves by transitivity.

**Delegation**

- *Verified chains narrow and have one lineage* (`VerifiedNarrowsHolds`,
  `OneLineageHolds`), for any claims anybody signs. The invariant is that every chain
  handed out has passed the walk, which stays true because what was signed stays as it
  is. Narrowing end to end follows by descent over the hops (`AdjacentCoversAll`, from the
  well-order of the naturals, as induction principles cannot be instantiated here), and
  the single lineage from the first place where two chains that meet would differ
  (`WalkDeterminesLineage`).
- *Delegation keeps the walk* (`DelegationKeepsTheWalkHolds`): from whatever signed hops
  `delegate` starts, verified, truncated, spliced or made by hand, what it returns passes
  the walk exactly if they do, since the one pair it adds is one it has compared.
- *Acceptance is under trusted keys and of hops that lived together*
  (`AcceptedUnderTrustedKeysHolds`, `AcceptedHopsLivedTogetherHolds`): the invariant also
  says that a call has seen the keys of the hops behind it trusted since it started. Each
  hop is judged at a clock read of its own; since the leaf, read last, is the first to
  expire, all were alive at that last read. Nothing is claimed of the time from there to the
  answer.

**Authorization**

- *Decisions are right* (`AllowedWasEligibleHolds`, `DeniedForACauseHolds`,
  `AllowedWhileEveryHopLivesHolds`). The invariant `Established` says what a call in
  flight knows: the hops already looked up were unrevoked *when the call was made*
  (since nothing leaves the store, "not revoked now" implies "not revoked then"), and a
  positive answer is true from then on. The three properties follow with the lemma that
  the leaf speaks for all hops, which rests on `NarrowingIsSound`.
- *`authorize` implements the atomic decision* (`Refinement`): each step maps to a step
  of `AtomicAuthorization` or to a stutter, under the same invariant.

What `Authorization` assumes of its chains, that adjacent hops cover and expire in
order, is what `ChainsPass` establishes of the chains `verifyChain` returns, and what the
tool server's invariant establishes of the chain it hands to `authorize`.

**Audit** (`NoEventIsLost`, `ResultsReachTheRecord`, `TheChainTellsGaps`, `TamperingShows`)

The invariant has four parts beside types. `BuiltInOrder`: the i-th event of an emitter has
the number i and carries the hash of the one built before it, which the emitter holds
whether or not that one was stored. `StoredInOrder`: what the sink has of one emitter are
events it built, in that order. `UnbrokenIfVerified`: if what is stored verifies, it is a
window of what was built; this is what makes `ChainTellsGaps` inductive, since the next
event extends the window or breaks the chain, and a broken chain stays broken.
`CallsAreOnRecord`: a call whose event was handed over has it in the sink or among the
reported. A process may stop between any two steps, but building an event and handing it to
the sink are one, as in the event loop, so none is half handed over. The steps split into
the quiet ones, which leave trail and record alone, and `observe`, of which one lemma per
outcome says what it adds. That tampering shows needs no invariant but that hashes differ
where events do and ids are not repeated.

**SQLite stores** (`TypeIsCorrect`, `AgentsAreTraceable`, `StoresAreImplemented`,
`TrailsAreReadInOrder`)

The invariant says that keys are unique, that a row of identities is the row of something
`createIdentity` has made (moved to a tenant by the caller at most), that events carry
numbers their process has given out, and, of a process between two statements, that what it
is about to insert is of that kind: in particular the event it holds is the last it built
and is not in the table. With it each statement maps to a step of `Stores` or to a stutter
(`StepImplements`): the `SELECT` of `put` is unseen unless it finds a duplicate, its
`INSERT` is the operation or, on a conflict, a call that throws. The order of trails takes
two more invariants: the numbers of one process rise along the table (`Rising`), and where
each of its events is no earlier than the one before, each is no earlier than any before
(`Paced`, the transitivity that cannot be had by induction and is kept as the table grows).
That `ORDER BY` is a stable sort is proved of its definition by ranks (`RowsInOrder`, on
`TrailsProofs`: in a finite set under a strict order the numbers of elements below are
exactly the ranks).

**Tool server** (`TypeIsCorrect`, `AnswersAreRecorded`, `RevocationReachesDescendants`,
`ToolIsGuarded`, `AuditsAsATrail`)

The invariant is per client, four parts, each about one of the calls made on behalf of the
request. `Received`: what a request remembers of its arrival has only been added to since
(later time, more revocations, keys in between). `Verified`: the hops a call of
`verifyChain` has behind it are readable and were signed under keys seen trusted, and once
it has returned, all of them make a chain. `Decided`: what `authorize` has established of
the hops behind it, and that an allow was right when the request arrived and a denial is
right now. `Recorded`: the wrapper holds that very decision, and once it has awaited the
sink, an event of it is on record. `Onward` says what the steps of others do to a client
(time passes, revocations, verified chains and the record grow); each part survives it, so
that a step of one client is looked at for that client only (`ClientStep`).

`ToolIsGuarded` then maps each step to one of `GuardedTool` or to a stutter: the whole of
`verifyChain`, `authorize` and the audit wrapper is unseen, but for a store that fails,
until the answer, which is a `Run` or a `Refuse` whose guard the invariant provides. It is
proved for both values of `Durable`: over a database the abstract tool remembers every
revocation across restarts, in memory it forgets them as the code does. The definitions of
the instances (`V!`, `A!`, `Guarded!`) are shown to read claims alike (`SameCovering`,
`SameAllowing`, `SameGuards`). The cascade of revocation follows from the same invariant: a
chain that was verified is closed under parents, so it contains every ancestor of its last
hop (`LineageHoldsAncestors`), and an allow was right at arrival about each of its hops. It
holds of the revocations the stores at hand have been told of: all of them over a database,
those since the start in memory. `AuditsAsATrail` says that, over a durable sink, the
instance `T` is a behaviour of `AuditTrail`: emitters, audited calls and sink change by its
steps only, also when a process stops. The instances `V` and `A` are no behaviours of their
modules, because the server does what these leave out: it clears calls when it stops and
reads its keys again when it starts, which is why its invariant says of these calls anew
what theirs say.

### Assumptions

Named in the modules that declare the constants, and evaluated by the runs: the three kinds
of segment are distinct and numbers are integers; inputs are typed; chains given to
`Authorization` are such as `verifyChain` accepts; keys come from the given pairs; a token
refers to an earlier one as its parent; `NULL` is not a tenant or a field of an input (the
adapters write it for `undefined` alone); the process `Down` is none.
`NamesAssumption`, needed for one direction of `SubsetIsInclusion` only, asks for two
concrete segments and for a request with every name up to the limit, without which requests
could not tell patterns apart.

### Only model-checked

- What holds under fairness (`CallsEnd`, `CallsReturn`, `RequestsAreAnswered`): the prover
  treats neither `WF` nor `ENABLED`.
- The four runs that end in a counterexample, and with them the module `ConstraintValues`,
  which exists for one of them.

## Not modelled, and the plan

Left out for good: error messages, JSON and JWS encoding, cryptography, the redaction of
audit events, custom policy evaluators, the MCP protocol and its transports, the tool that
is guarded, the durability of SQLite itself, the example programs other than the server.

Planned: a theorem that chains whose constraint values are all primitive have the property
the run of `ConstraintValues` refutes for objects.
