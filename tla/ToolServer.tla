----------------------------- MODULE ToolServer -----------------------------
(***************************************************************************)
(* An MCP server whose tool is wrapped by withAttent(), with the resolver  *)
(* resolveVerifiedCredential().  A tools/call request passes through       *)
(* verifyChain(), authorize() and the audit wrapper around it, one client  *)
(* in the awaits of another, while keys come and go, hops are revoked and  *)
(* time passes.  The process may stop, and another one starts and reads    *)
(* its trusted keys from a file.                                           *)
(*                                                                         *)
(* withAttent() takes its stores from the application.  They are in memory *)
(* in the programs of examples/mcp and examples/mcp-stdio, and gone with   *)
(* the process; or they are those of storage-sqlite, the durable drop-in   *)
(* replacements.  Both are modelled, and so is the emitter the application *)
(* may pass, which the server of examples/mcp-stdio does without.          *)
(*                                                                         *)
(* The steps of a request are those of the modules Delegation,             *)
(* Authorization and AuditTrail, joined here as withAttent() joins them,   *)
(* without audit listeners.                                                *)
(***************************************************************************)
EXTENDS ToolRequests, SequencesExt

CONSTANTS
  Processes,                \* the server's processes, one after the other
  keysFile,                 \* what loadTrustedKeys() reads
  Durable,                  \* whether the stores are a database, or in memory
  Rotated,                  \* bound on the keys that come and go
  MaxRequests,              \* bound on the requests a process receives
  Down                      \* no process is running

ASSUME ToolServerAssumption ==
  /\ keysFile \subseteq KeyPairs /\ Rotated \subseteq KeyPairs
  /\ Down \notin Processes /\ Durable \in BOOLEAN
  /\ MaxRequests \in Nat

VARIABLES
  now, trusted, revoked,    \* as in Delegation and in Authorization
  verified, verifying,      \* verifyChain(): its results, its calls
  authorizing,              \* authorize(): its calls
  running, sink, auditing,  \* AuditTrail: emitters, sink, calls
  built, reported,          \* AuditTrail: its history
  process,                  \* the process that is running
  server,                   \* the request of each client
  received,                 \* the number of requests the process received
  revokedEver               \* history: the hops ever revoked in these stores

verifierVars == <<verified, verifying>>
auditVars == <<running, sink, auditing, built, reported>>
serverVars == <<process, server, received, revokedEver>>
vars == <<now, trusted, revoked, verifierVars, authorizing, auditVars, serverVars>>

V == INSTANCE Delegation WITH
       Verifiers <- Clients, signed <- Tokens, chains <- {}, calls <- verifying,
       Grants <- {}, Auds <- {}, Ttls <- {}, Handmade <- {}, MAX_TTL_SECONDS <- 0,
       MAX_CAPABILITIES_PER_HOP <- 0, MAX_AUD_ENTRIES <- 0, MaxTokens <- Len(Tokens),
       AskedRequests <- {}

(* A VerifiedCredentialChain, as authorize() reads it.                     *)
Credential(hops) ==
  [i \in DOMAIN hops |-> [jti |-> hops[i], exp |-> claims(hops[i]).exp, aud |-> claims(hops[i]).aud,
                          capabilities |-> claims(hops[i]).capabilities]]
Credentials == {Credential(hops) : hops \in {h \in Presented : WellMade(h)}}

A == INSTANCE Authorization WITH
       Jtis <- DOMAIN Tokens, Chains <- Credentials, Callers <- Clients, call <- authorizing

T == INSTANCE AuditTrail WITH
       Callers <- Clients, Emitters <- Processes, HashChaining <- {}, Types <- {"authorization"},
       Listeners <- {}, Throwing <- {}, listeners <- [p \in Processes |-> <<>>], heard <- <<>>,
       MaxEvents <- MaxRequests * Cardinality(Processes),
       calls <- auditing, lastHash <- [p \in Processes |-> <<>>]

Idle == [pc |-> "idle"]
InFlight(c) == server[c].pc \in {"resolving", "resolved", "authorizing"}

Init ==
  /\ now = 0 /\ trusted = keysFile /\ verified = {} /\ verifying = [c \in Clients |-> V!Idle]
  /\ revoked = {} /\ authorizing = [c \in Clients |-> A!NoCall]
  /\ running = Processes /\ sink = <<>> /\ auditing = [c \in Clients |-> T!Idle]
  /\ built = [p \in Processes |-> <<>>] /\ reported = {}
  /\ process \in Processes
  /\ server = [c \in Clients |-> Idle]
  /\ received = 0
  /\ revokedEver = {}

-----------------------------------------------------------------------------
(* Around the server.  `once` and `always` are history: the keys trusted   *)
(* at some moment since the request arrived, and throughout.               *)
Tick == A!Tick /\ UNCHANGED <<trusted, verifierVars, auditVars, serverVars>>

Seen(keys) ==
  server' = [c \in Clients |->
               IF InFlight(c) THEN [server[c] EXCEPT !.once = @ \cup keys, !.always = @ \cap keys]
               ELSE server[c]]

RotateKeys(issuer, kid) ==
  /\ process # Down
  /\ V!addKey(issuer, kid) \/ V!removeKey(issuer, kid)
  /\ Seen(trusted')
  /\ UNCHANGED <<revoked, authorizing, auditVars, process, received, revokedEver>>

(* revoke(), by the process or, in a database, by any other.               *)
Revoke(token) ==
  /\ Durable \/ process # Down
  /\ A!revoke(<<[jti |-> token]>>)
  /\ revokedEver' = revokedEver \cup {token}
  /\ UNCHANGED <<trusted, verifierVars, auditVars, process, server, received>>

Crash ==
  /\ process # Down
  /\ T!Crash(process)
  /\ process' = Down /\ received' = 0
  /\ trusted' = {} /\ verified' = {}
  /\ verifying' = [c \in Clients |-> V!Idle]
  /\ authorizing' = [c \in Clients |-> A!NoCall]
  /\ server' = [c \in Clients |-> Idle]
  /\ UNCHANGED <<now, revoked, revokedEver>>

(* What a process finds in its stores when it starts: opening the database *)
(* leaves the tables that are there alone, and memory starts empty, with a *)
(* history of its own.  The slip creates the tables afresh.                *)
SlipAfresh(rows, empty) == empty
opened(rows, empty) == IF Durable THEN rows ELSE empty

Restart ==
  /\ process = Down
  /\ process' \in running
  /\ trusted' = keysFile
  /\ revoked' = opened(revoked, {}) /\ sink' = opened(sink, <<>>)
  /\ revokedEver' = IF Durable THEN revokedEver ELSE {}
  /\ UNCHANGED <<now, verifierVars, authorizing, running, auditing, built, reported, server, received>>

-----------------------------------------------------------------------------
(* One request.  It is answered by the tool's result ("ran"), by a tool    *)
(* error, or by an exception.                                              *)
Answered(response) == [pc |-> "answered", response |-> response]
NO_CREDENTIAL == Answered("no_credential")

(* A request arrives and its credential is looked for.                     *)
receive(c, hops, asked) ==
  LET pending == [pc |-> "resolving", hops |-> hops, asked |-> asked,
                  arrived |-> A!Moment, once |-> trusted, always |-> trusted,
                  revokedBefore |-> revokedEver]
  IN  /\ process # Down /\ ~InFlight(c)
      /\ received < MaxRequests /\ received' = received + 1
      /\ server' = [server EXCEPT ![c] = pending]
      /\ \/ V!verifyChain(c, hops)
         \/ Len(hops) \notin 1 .. maxDelegationDepth /\ UNCHANGED <<now, trusted, verifierVars>>
      /\ UNCHANGED <<revoked, authorizing, auditVars, process, revokedEver>>

(* verifyChain() goes on.  When it returns there is a credential, when it  *)
(* throws there is none, and none without hops or with too many.  The slip *)
(* takes the hops as they were presented.                                  *)
SlipUnverified(c) == TRUE
verifies(c) == V!Accepts(c)

resolveCredential(c) ==
  /\ server[c].pc = "resolving"
  /\ \/ V!GetKey(c) \/ V!ImportKey(c) \/ V!JwtVerify(c)
     \/ verifying[c] = V!Idle /\ UNCHANGED <<now, trusted, verifierVars>>
  /\ server' = [server EXCEPT ![c] = IF verifying'[c] # V!Idle THEN @
                                     ELSE IF verifies(c) THEN [@ EXCEPT !.pc = "resolved"]
                                     ELSE NO_CREDENTIAL]
  /\ UNCHANGED <<revoked, authorizing, auditVars, process, received, revokedEver>>

(* auditedAuthorize() is called and calls authorize(), which throws at     *)
(* once if the action or the resource is malformed.                        *)
auditedAuthorize(c) ==
  /\ server[c].pc = "resolved"
  /\ T!audited(c, "authorization", process)
  /\ \/ A!authorize(c, Credential(server[c].hops), server[c].asked)
     \/ ~WellFormed(server[c].asked) /\ UNCHANGED <<now, revoked, authorizing>>
  /\ server' = [server EXCEPT ![c].pc = "authorizing"]
  /\ UNCHANGED <<trusted, verifierVars, process, received, revokedEver>>

authorize(c) ==
  /\ A!StoreAnswers(c) \/ A!StoreFails(c) \/ A!Resume(c)
  /\ UNCHANGED <<trusted, verifierVars, auditVars, serverVars>>

outcome(decision) == IF decision = "allow" THEN "allow" ELSE "deny"

decided(c) ==
  /\ server[c].pc = "authorizing"
  /\ \/ A!Returned(c) /\ T!WrappedSettles(c, outcome(authorizing[c].decision))
     \/ ~WellFormed(server[c].asked) /\ T!WrappedSettles(c, "thrown")
  /\ UNCHANGED <<now, trusted, revoked, verifierVars, authorizing, serverVars>>

record(c) ==
  /\ T!AppendSettles(c) \/ \E stored \in BOOLEAN : T!Observe(c, stored)
  /\ UNCHANGED <<now, trusted, revoked, verifierVars, authorizing, serverVars>>

(* The decision is there: a denial is a tool error, an allow runs the      *)
(* tool, an exception of auditedAuthorize() passes through.                *)
answer(c) ==
  /\ server[c].pc = "authorizing" /\ auditing[c].pc = "returned"
  /\ \/ auditing[c].outcome = "thrown" /\ server' = [server EXCEPT ![c] = Answered("thrown")]
     \/ auditing[c].outcome = "deny" /\ server' = [server EXCEPT ![c] = Answered("denied")]
     \/ auditing[c].outcome = "allow" /\ server' = [server EXCEPT ![c] = Answered("ran")]
  /\ authorizing' = [authorizing EXCEPT ![c] = A!NoCall]
  /\ UNCHANGED <<now, trusted, revoked, verifierVars, auditVars, process, received, revokedEver>>

withAttent(c) ==
  resolveCredential(c) \/ auditedAuthorize(c) \/ authorize(c) \/ decided(c) \/ record(c) \/ answer(c)

Next ==
  \/ Tick \/ Crash \/ Restart
  \/ \E pair \in Rotated : RotateKeys(pair[1], pair[2])
  \/ \E token \in DOMAIN Tokens : Revoke(token)
  \/ \E c \in Clients, hops \in Presented, asked \in AskedRequests : receive(c, hops, asked)
  \/ \E c \in Clients : withAttent(c)

Spec == Init /\ [][Next]_vars

(* What a request awaits settles, and the runtime resumes it.              *)
Fairness == \A c \in Clients : WF_vars(withAttent(c))
FairSpec == Spec /\ Fairness

-----------------------------------------------------------------------------
(* Only what verifyChain() has verified reaches authorize(), under the     *)
(* name of the client that presented it, and each call in flight is that   *)
(* of a request in the same stage.                                         *)
TypeOK ==
  /\ process \in running \cup {Down}
  /\ revoked \subseteq DOMAIN Tokens /\ trusted \subseteq KeyPairs
  /\ \A c \in Clients :
       /\ verifying[c] # V!Idle =>
            server[c].pc = "resolving" /\ verifying[c].hops = server[c].hops
       /\ authorizing[c] # A!NoCall =>
            /\ server[c].pc = "authorizing" /\ server[c].hops \in verified
            /\ authorizing[c].hops = Credential(server[c].hops)
            /\ authorizing[c].hops \in Credentials
            /\ authorizing[c].request = server[c].asked
       /\ server[c].pc = "authorizing" => auditing[c].emitter = process

(* The server as a whole implements a tool guarded in one step: no         *)
(* interleaving of its requests with each other, with rotated keys, with   *)
(* revocations, with time and with restarts runs the tool for a request    *)
(* that was not entitled to it, nor refuses one that was all along.  What  *)
(* entitles is judged by the revocations the server has: over a database   *)
(* all there ever were, in memory those since it started.                  *)
abstractRequest(c) ==
  IF InFlight(c)
  THEN [ state |-> "pending", hops |-> server[c].hops, asked |-> server[c].asked,
         arrived |-> server[c].arrived, once |-> server[c].once, always |-> server[c].always,
         failed |-> authorizing[c] # A!NoCall /\ authorizing[c].failed ]
  ELSE [ state |-> CASE server[c].pc = "idle" -> "none"
                     [] server[c] = Answered("ran") -> "ran"
                     [] OTHER -> "refused" ]

abstractRequests == [c \in Clients |-> abstractRequest(c)]

Guarded == INSTANCE GuardedTool WITH
             KeysAtStart <- keysFile, request <- abstractRequests, up <- process # Down
ImplementsGuardedTool == Guarded!Spec

(* Revocation reaches all that was delegated: a request that arrives after *)
(* a hop was revoked never runs the tool if the last hop it presents       *)
(* descends from the revoked one, whatever it presents before it.  Over a  *)
(* database this holds of every revocation, also when the server was       *)
(* restarted in between; in memory, of those the running process was told. *)
ancestors(token) ==
  {t \in DOMAIN Tokens : \A S \in SUBSET DOMAIN Tokens :
     token \in S /\ (\A s \in S : claims(s).parentHopHash \in S \cup {NoParent}) => t \in S}

runs(c) == server[c].pc = "authorizing" /\ server'[c] = Answered("ran")

RevocationCascades ==
  [][ \A c \in Clients : runs(c) =>
        LET hops == server[c].hops
        IN  ancestors(hops[Len(hops)]) \cap server[c].revokedBefore = {} ]_vars

(* The tool never runs off the record: before it does, and before a denial *)
(* is answered, the event of that very decision has been stored or was     *)
(* reported as not stored.                                                 *)
AnswersAreOnRecord ==
  \A c \in Clients : server[c] \in {Answered("ran"), Answered("denied")} =>
    \E event \in T!Events :
      /\ event.id = auditing[c].id /\ event.id[1] = process
      /\ event.content[2] = IF server[c] = Answered("ran") THEN "allow" ELSE "deny"
      /\ event \in ToSet(sink) \/ event.id \in reported

(* Every request is answered, unless the process stops first.              *)
RequestsAreAnswered ==
  \A c \in Clients : InFlight(c) ~> server[c].pc = "answered" \/ process = Down

-----------------------------------------------------------------------------
(* src/packages/mcp/src/withAttent.ts: with an emitter "the audit event is *)
(* recorded regardless of outcome", so that one "sees every attempt".      *)
(* Stated of the requests answered: as many events were built.             *)
EveryAttemptIsRecorded ==
  process # Down =>
    Cardinality({c \in Clients : server[c].pc = "answered"}) <= Len(built[process])
=============================================================================
