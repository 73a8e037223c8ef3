-------------------------------- MODULE Gateway --------------------------------
(***************************************************************************)
(* Admission in front of the four transports, and the direct database      *)
(* read: require_auth of src/auth.rs, the handlers of src/routes.rs,       *)
(* TransportGateway::read and status of src/data_plane.rs and              *)
(* events_for_subject of src/db.rs.                                        *)
(*                                                                         *)
(* A read takes one of MaxInFlight permits, or is refused, and keeps it    *)
(* until its handler ends.  A direct read borrows a connection of a pool   *)
(* of PoolSize, opens a read-only transaction, runs one query under a      *)
(* timer, and commits; only the wait for the connection and the query are  *)
(* timed.  A connection that is given back is rolled back and tested, so   *)
(* the database decides when it is free again.  The other modes are calls  *)
(* that end by themselves: MtlsClient and JetStreamSubmit say why.         *)
(***************************************************************************)
EXTENDS Integers, FiniteSets

CONSTANTS Requests,        \* requests to protected routes
          MaxInFlight,     \* MAX_IN_FLIGHT_OPERATIONS
          PoolSize,        \* max_connections
          Direct, Http, Tcp, JetStream    \* the four WebApiModes

ASSUME RequestsAssumption == IsFiniteSet(Requests)
ASSUME LimitsAssumption ==     \* 64 and 10 in the code
    MaxInFlight \in Nat /\ PoolSize \in Nat /\ PoolSize < MaxInFlight
ASSUME ModesAssumption == Direct \notin {Http, Tcp, JetStream}

Modes == {Direct, Http, Tcp, JetStream}

VARIABLES
    verifierConfigured,    \* AppState.shared_auth is Some
    configured,            \* the modes the gateway was built with
    pc,                    \* the await at which a request is suspended
    outcome,               \* what its handler returned
    permits,               \* the semaphore
    returning              \* connections on their way back to the pool

vars == <<verifierConfigured, configured, pc, outcome, permits, returning>>

\* The awaits of a direct read that use a connection.
Borrowing == {"beginning", "querying", "committing"}
\* The awaits under a permit.
InFlight == Borrowing \cup {"acquiring", "calling"}
Awaits == InFlight \cup {"verifying", "status"}

Errors == {"Unauthorized", "InvalidRequest", "NotConfigured", "Backpressure",
           "Timeout", "Upstream", "InvalidResponse", "VerifierUnavailable"}

HoldsPermit(r) == pc[r] \in InFlight
Borrowed == Cardinality({r \in Requests : pc[r] \in Borrowing})

\* Fault: the pool may grow to the size of the semaphore.
ConnectionLimit_AsPermits == MaxInFlight

ConnectionLimit == PoolSize

\* What Config::from_env lets through: an API transport needs Shared Auth, and
\* JetStream needs ACT_API_URL for the status of its operations.
Init ==
    /\ verifierConfigured \in BOOLEAN
    /\ configured \in SUBSET Modes
    /\ configured \subseteq {Direct} \/ verifierConfigured
    /\ JetStream \in configured => Http \in configured
    /\ pc = [r \in Requests |-> "idle"]
    /\ outcome = [r \in Requests |-> "none"]
    /\ permits = MaxInFlight
    /\ returning = 0

Await(r, where) == pc' = [pc EXCEPT ![r] = where] /\ UNCHANGED outcome

Respond(r, result) ==
    /\ pc' = [pc EXCEPT ![r] = "done"]
    /\ outcome' = [outcome EXCEPT ![r] = result]

Static == UNCHANGED <<verifierConfigured, configured>>

-------------------------------------------------------------------------------
\* Fault: without a verifier nobody asks for one.
Authenticate_Open(r) ==
    /\ pc[r] = "idle"
    /\ Respond(r, "Unauthorized") \/ Await(r, "verifying")
    /\ Static /\ UNCHANGED <<permits, returning>>

\* require_auth: closed without a verifier, and to a malformed bearer; the
\* token is introspected by Shared Auth.
Authenticate(r) ==
    /\ pc[r] = "idle"
    /\ \/ ~verifierConfigured /\ Respond(r, "VerifierUnavailable")
       \/ verifierConfigured /\ Respond(r, "Unauthorized")
       \/ verifierConfigured /\ Await(r, "verifying")
    /\ Static /\ UNCHANGED <<permits, returning>>

\* The introspection fails, or does not vouch for the token.
Refuse(r) ==
    /\ pc[r] = "verifying"
    /\ \E error \in {"Unauthorized", "VerifierUnavailable"} : Respond(r, error)
    /\ Static /\ UNCHANGED <<permits, returning>>

\* GET /api/me answers from the identity.
Me(r) ==
    /\ pc[r] = "verifying"
    /\ Respond(r, "ok")
    /\ Static /\ UNCHANGED <<permits, returning>>

\* GET /api/operations/:id is forwarded to the HTTP API, without a permit.
Status(r) ==
    /\ pc[r] = "verifying"
    /\ \/ Respond(r, "InvalidRequest")
       \/ Http \notin configured /\ Respond(r, "NotConfigured")
       \/ Http \in configured /\ Await(r, "status")
    /\ Static /\ UNCHANGED <<permits, returning>>

\* GET /api/data/:mode with no such mode, or with an authorization the gateway
\* refuses: it wants "Bearer " exactly, where require_auth does not.
RefuseAuthorization(r) ==
    /\ pc[r] = "verifying"
    /\ \E error \in {"InvalidRequest", "Unauthorized"} : Respond(r, error)
    /\ Static /\ UNCHANGED <<permits, returning>>

\* try_acquire_owned finds no permit.
Backpressure(r) ==
    /\ pc[r] = "verifying"
    /\ permits = 0
    /\ Respond(r, "Backpressure")
    /\ Static /\ UNCHANGED <<permits, returning>>

\* A permit is taken and given back at once: the mode is not configured, or
\* refuses the subject (events_for_subject reports that as any other failure).
RefuseMode(r) ==
    /\ pc[r] = "verifying"
    /\ permits > 0
    /\ \E mode \in Modes :
          \/ mode \notin configured /\ Respond(r, "NotConfigured")
          \/ mode \in configured
             /\ Respond(r, IF mode = Direct THEN "Upstream" ELSE "InvalidRequest")
    /\ Static /\ UNCHANGED <<permits, returning>>

\* Fault: the permit is dropped as soon as it is taken.
Admit_DropsPermit(r) ==
    /\ pc[r] = "verifying"
    /\ permits > 0
    /\ \E mode \in configured :
          Await(r, IF mode = Direct THEN "acquiring" ELSE "calling")
    /\ Static /\ UNCHANGED <<permits, returning>>

\* A permit is taken and the mode's first await reached.
Admit(r) ==
    /\ pc[r] = "verifying"
    /\ permits > 0
    /\ permits' = permits - 1
    /\ \E mode \in configured :
          Await(r, IF mode = Direct THEN "acquiring" ELSE "calling")
    /\ Static /\ UNCHANGED returning

\* The handler ends: the permit and any connection are dropped.
EndRead(r, result) ==
    /\ Respond(r, result)
    /\ permits' = permits + 1
    /\ returning' = IF pc[r] \in Borrowing THEN returning + 1 ELSE returning
    /\ Static

\* A call to another transport ends.
CallEnds(r) ==
    /\ pc[r] = "calling"
    /\ \E result \in {"ok", "InvalidRequest", "Timeout", "Upstream", "InvalidResponse"} :
          EndRead(r, result)

\* bounded_http_get ends, as BoundedBody shows.
StatusEnds(r) ==
    /\ pc[r] = "status"
    /\ \E result \in {"ok", "Timeout", "Upstream", "InvalidResponse"} : Respond(r, result)
    /\ Static /\ UNCHANGED <<permits, returning>>

-------------------------------------------------------------------------------
\* begin_with_config: a connection of the pool first, within its acquire
\* timeout.
Borrow(r) ==
    /\ pc[r] = "acquiring"
    /\ Borrowed + returning < ConnectionLimit
    /\ Await(r, "beginning")
    /\ Static /\ UNCHANGED <<permits, returning>>

BorrowTimeout(r) == pc[r] = "acquiring" /\ EndRead(r, "Upstream")

\* The transaction has begun.
Begun(r) ==
    /\ pc[r] = "beginning"
    /\ Await(r, "querying")
    /\ Static /\ UNCHANGED <<permits, returning>>

\* The rows arrive, and there are no more than MAX_DIRECT_ROWS of them.
Rows(r) ==
    /\ pc[r] = "querying"
    /\ Await(r, "committing")
    /\ Static /\ UNCHANGED <<permits, returning>>

Committed(r) == pc[r] = "committing" /\ EndRead(r, "ok")

\* Fault: a commit that fails runs the transaction again.
DatabaseError_Retries(r) ==
    \/ pc[r] \in {"beginning", "querying"} /\ EndRead(r, "Upstream")
    \/ /\ pc[r] = "committing"
       /\ Await(r, "beginning")
       /\ Static /\ UNCHANGED <<permits, returning>>

\* The database reports an error, or rows that do not decode.
DatabaseError(r) == pc[r] \in Borrowing /\ EndRead(r, "Upstream")

\* Fault: the deadline runs while the transaction commits, not during the query.
QueryTimeout_OnCommit(r) == pc[r] = "committing" /\ EndRead(r, "Upstream")

\* DIRECT_READ_TIMEOUT elapses during the query; the transaction is dropped.
QueryTimeout(r) == pc[r] = "querying" /\ EndRead(r, "Upstream")

\* The database (external) confirms the rollback of a connection given back,
\* which is free again.
ConnectionFree ==
    /\ returning > 0
    /\ returning' = returning - 1
    /\ Static /\ UNCHANGED <<pc, outcome, permits>>

\* Fault: an abandoned handler forgets its permit.
Cancel_LosesPermit(r) ==
    /\ pc[r] \in InFlight
    /\ Respond(r, "cancelled")
    /\ returning' = IF pc[r] \in Borrowing THEN returning + 1 ELSE returning
    /\ Static /\ UNCHANGED permits

\* axum drops the handler's future at one of its awaits.
Cancel(r) ==
    \/ pc[r] \in InFlight /\ EndRead(r, "cancelled")
    \/ /\ pc[r] \in {"verifying", "status"}
       /\ Respond(r, "cancelled")
       /\ Static /\ UNCHANGED <<permits, returning>>

-------------------------------------------------------------------------------
\* What ends without the database: the other transports and the timers.
WebProgress(r) ==
    \/ CallEnds(r) \/ StatusEnds(r)
    \/ Borrow(r) \/ BorrowTimeout(r) \/ QueryTimeout(r)

\* What ends when the database answers.
DatabaseAnswers(r) == Begun(r) \/ Rows(r) \/ Committed(r) \/ DatabaseError(r)

RequestNext(r) ==
    \/ Authenticate(r) \/ Refuse(r) \/ Me(r) \/ Status(r) \/ RefuseAuthorization(r)
    \/ Backpressure(r) \/ RefuseMode(r) \/ Admit(r)
    \/ WebProgress(r) \/ DatabaseAnswers(r) \/ Cancel(r)

Finished ==
    /\ \A r \in Requests : pc[r] = "done"
    /\ returning = 0
    /\ UNCHANGED vars

Next == (\E r \in Requests : RequestNext(r)) \/ ConnectionFree \/ Finished

Spec == Init /\ [][Next]_vars

\* The timers fire and the other transports return; the database may stall.
WebFairSpec == Spec /\ \A r \in Requests : WF_vars(WebProgress(r))

-------------------------------------------------------------------------------
\* The shape of the state.
TypeOK ==
    /\ verifierConfigured \in BOOLEAN
    /\ configured \subseteq Modes
    /\ pc \in [Requests -> Awaits \cup {"idle", "done"}]
    /\ outcome \in [Requests -> Errors \cup {"none", "ok", "cancelled"}]
    /\ permits \in Nat
    /\ returning \in Nat

\* Every permit is in the semaphore or held by a read that is in flight: no
\* error path, timeout or abandoned handler loses one or gives it back twice,
\* and a read is refused only when MaxInFlight others are in flight.
PermitConservation ==
    permits + Cardinality({r \in Requests : HoldsPermit(r)}) = MaxInFlight

\* The pool has no more connections out than it may have.
ConnectionsInv == Borrowed + returning <= PoolSize

\* What makes these invariants inductive.
IndInv == TypeOK /\ PermitConservation /\ ConnectionsInv

\* Direct reads alone cannot use up the permits: when none is left, some read
\* in flight is at an await that ends without the database.
DatabaseNeverHoldsAllPermits ==
    permits = 0 => \E r \in Requests : HoldsPermit(r) /\ pc[r] \notin Borrowing

\* A stalled database does not starve the other modes: at most PoolSize reads
\* hang on it, the rest give up waiting for a connection, and a permit is free
\* again and again.
StalledDatabaseLeavesPermits == []<>(permits > 0)

\* A read that was admitted returns.
EveryReadReturns == \A r \in Requests : HoldsPermit(r) ~> pc[r] = "done"

\* It does if PostgreSQL answers what it is asked, BEGIN and COMMIT as well.
ReadsReturnIfTheDatabaseAnswers ==
    /\ WF_vars(ConnectionFree)
    /\ \A r \in Requests : WF_vars(DatabaseAnswers(r))
    => EveryReadReturns
===============================================================================
