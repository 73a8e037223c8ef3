---------------------------- MODULE WebServerProofs ----------------------------
(***************************************************************************)
(* Proofs about WebServer: the composition is a Startup, so that what      *)
(* StartupProofs shows holds of it, and it hands the gateway over as       *)
(* Gateway assumes it.  From then on it is a Gateway, so that what          *)
(* GatewayProofs shows holds of it, for any requests, limits and           *)
(* deployments; it fails closed, and it exits with everybody answered.     *)
(***************************************************************************)
EXTENDS WebServer, TLAPS

P == INSTANCE StartupProofs WITH pc <- IF stage = "draining" THEN "serving" ELSE stage

\* main's steps up to axum::serve are the same, seen without the requests.
LEMMA StartIsStartup == Start => P!StartupStep
  <1> SUFFICES ASSUME S!StartupStep PROVE P!StartupStep
    BY DEF Start
  <1> USE DEF S!Found, P!Found, S!Abort, P!Abort, S!Outside, P!Outside, S!Ok, P!Ok,
              S!Set, P!Set
  <1>1. CASE S!FromEnv
    <2>1. S!EnvironmentValid <=> P!EnvironmentValid
      BY DEF S!EnvironmentValid, P!EnvironmentValid, S!ApiUrlValid, P!ApiUrlValid,
             S!OthersValid, P!OthersValid, S!SharedAuthValid, P!SharedAuthValid,
             S!DirectDatabaseValid, P!DirectDatabaseValid, S!AsyncValid, P!AsyncValid
    <2>2. S!EnvironmentParts = P!EnvironmentParts
      BY DEF S!EnvironmentParts, P!EnvironmentParts, S!Parts, P!Parts
    <2>3. P!FromEnv
      BY <1>1, <2>1, <2>2 DEF S!FromEnv, P!FromEnv
    <2>4. QED
      BY <2>3 DEF P!StartupStep
  <1>2. CASE S!InitTelemetry
    BY <1>2 DEF S!InitTelemetry, P!InitTelemetry, P!StartupStep
  <1>3. CASE S!BuildVerifier
    BY <1>3 DEF S!BuildVerifier, P!BuildVerifier, P!StartupStep
  <1>4. CASE S!ConnectDatabase
    BY <1>4 DEF S!ConnectDatabase, P!ConnectDatabase, P!StartupStep
  <1>9. CASE S!ProveRole
    BY <1>9 DEF S!ProveRole, P!ProveRole, P!StartupStep
  <1>5. CASE S!LoadClientIdentity
    BY <1>5 DEF S!LoadClientIdentity, P!LoadClientIdentity, P!StartupStep
  <1>6. CASE S!ConnectBroker
    BY <1>6 DEF S!ConnectBroker, P!ConnectBroker, P!StartupStep
  <1>7. CASE S!Serve
    BY <1>7 DEF S!Serve, P!Serve, P!StartupStep, S!ReadyModes, P!ReadyModes,
                S!OptionOf, P!OptionOf, S!Modes, P!Modes
  <1>8. QED
    BY <1>1, <1>2, <1>3, <1>4, <1>5, <1>6, <1>7, <1>9 DEF S!StartupStep

\* The steps of requests and of the pool change nothing Startup knows of.
LEMMA RequestsStutter ==
    ASSUME NEW r \in Requests,
           Arrive(r) \/ Serve(r) \/ Query(r) \/ Abandon(r) \/ PoolRecovers
    PROVE  UNCHANGED startupVars
  BY DEF Arrive, Serve, Query, Abandon, PoolRecovers

\* Every step of the composition is a step of Startup or none.
LEMMA StepMaps == [Next]_vars => [P!Next]_(P!vars)
  <1> SUFFICES ASSUME [Next]_vars PROVE [P!Next]_(P!vars)
    OBVIOUS
  <1>1. CASE Start
    BY <1>1, StartIsStartup DEF P!Next
  <1>2. CASE UNCHANGED startupVars
    BY <1>2 DEF startupVars, P!vars
  <1>3. CASE Signal
    BY <1>3 DEF Signal, P!vars
  <1>4. CASE Exit
    BY <1>4 DEF Exit, P!Next, P!Shutdown, P!Outside
  <1>5. CASE Outage
    BY <1>5 DEF Outage, S!Outage, P!Next, P!Outage, S!Databases, P!Databases,
                S!Brokers, P!Brokers
  <1>6. QED
    BY <1>1, <1>2, <1>3, <1>4, <1>5, RequestsStutter DEF Next, vars, PoolRecovers

\* The process that serves requests and drains them is a Startup.
LEMMA Maps == Spec => P!Spec
  <1>1. Init => P!Init
    BY DEF Init, S!Init, P!Init, S!Environments, P!Environments, S!Value, P!Value,
           S!Databases, P!Databases, S!Brokers, P!Brokers
  <1>2. QED
    BY <1>1, StepMaps, PTL DEF Spec, P!Spec

\* P and Life are instances of the same module.
LEMMA SameStep == [P!Next]_(P!vars) => [Life!Next]_(Life!vars)
  BY DEF P!Next, Life!Next, P!vars, Life!vars, P!StartupStep, Life!StartupStep,
     P!FromEnv, Life!FromEnv, P!InitTelemetry, Life!InitTelemetry,
     P!BuildVerifier, Life!BuildVerifier, P!ConnectDatabase, Life!ConnectDatabase,
     P!ProveRole, Life!ProveRole,
     P!LoadClientIdentity, Life!LoadClientIdentity, P!ConnectBroker, Life!ConnectBroker,
     P!Serve, Life!Serve, P!Shutdown, Life!Shutdown, P!Outage, Life!Outage,
     P!Found, Life!Found, P!Abort, Life!Abort, P!Outside, Life!Outside,
     P!Ok, Life!Ok, P!Set, Life!Set, P!EnvironmentValid, Life!EnvironmentValid,
     P!ApiUrlValid, Life!ApiUrlValid, P!OthersValid, Life!OthersValid,
     P!SharedAuthValid, Life!SharedAuthValid, P!AsyncValid, Life!AsyncValid,
     P!DirectDatabaseValid, Life!DirectDatabaseValid,
     P!EnvironmentParts, Life!EnvironmentParts, P!Parts, Life!Parts,
     P!ReadyModes, Life!ReadyModes, P!OptionOf, Life!OptionOf, P!Modes, Life!Modes,
     P!Databases, Life!Databases, P!Brokers, Life!Brokers

\* The same of the instance the run checks.
THEOREM StartupSpecHolds == Spec => StartupSpec
  <1>1. P!Init => Life!Init
    BY DEF P!Init, Life!Init, P!Environments, Life!Environments, P!Value, Life!Value,
           P!Databases, Life!Databases, P!Brokers, Life!Brokers
  <1>2. QED
    BY <1>1, Maps, SameStep, PTL DEF P!Spec, Life!Spec, StartupSpec

-------------------------------------------------------------------------------
\* No request has arrived before the listener is served.
QuietInv ==
    stage \notin {"serving", "draining", "exited"} =>
        /\ pc = [r \in Requests |-> "idle"]
        /\ outcome = [r \in Requests |-> "none"]
        /\ permits = MaxInFlight
        /\ returning = 0

\* Every step keeps QuietInv.
LEMMA QuietNext == QuietInv /\ [Next]_vars => QuietInv'
  <1> SUFFICES ASSUME QuietInv, [Next]_vars PROVE QuietInv'
    OBVIOUS
  <1>1. CASE Start
    <2>1. stage \notin {"serving", "draining", "exited"}
      BY <1>1 DEF Start, S!StartupStep, S!FromEnv, S!InitTelemetry, S!BuildVerifier,
                  S!ConnectDatabase, S!ProveRole, S!LoadClientIdentity, S!ConnectBroker, S!Serve
    <2>2. QED
      BY <1>1, <2>1 DEF Start, requestVars, QuietInv
  <1>2. CASE Outage
    BY <1>2 DEF Outage, S!Outage, requestVars, QuietInv
  <1>3. CASE Signal \/ Exit
    BY <1>3 DEF Signal, Exit, QuietInv
  <1>4. ASSUME NEW r \in Requests,
               Arrive(r) \/ Serve(r) \/ Query(r) \/ Abandon(r) \/ PoolRecovers
        PROVE  QuietInv'
    BY <1>4 DEF Arrive, Serve, Query, Abandon, PoolRecovers, Up, startupVars, QuietInv
  <1>5. CASE PoolRecovers
    BY <1>5 DEF PoolRecovers, Up, startupVars, QuietInv
  <1>6. CASE UNCHANGED vars
    BY <1>6 DEF vars, startupVars, requestVars, QuietInv
  <1>7. QED
    BY <1>1, <1>2, <1>3, <1>4, <1>5, <1>6 DEF Next

\* QuietInv holds in every reachable state.
LEMMA QuietHolds == Spec => []QuietInv
  <1>1. Init => QuietInv
    BY DEF Init, QuietInv
  <1>2. QED
    BY <1>1, QuietNext, PTL DEF Spec

\* The gateway that main serves is one Gateway starts from.
LEMMA HandOver ==
    QuietInv /\ P!IndInv /\ P!IndInv' /\ [Next]_vars
        => (stage # "serving" /\ stage' = "serving" => G!Init')
  <1> SUFFICES ASSUME QuietInv, P!IndInv', [Next]_vars,
                      stage # "serving", stage' = "serving"
               PROVE  G!Init'
    OBVIOUS
  <1>1. Start /\ UNCHANGED requestVars
    BY DEF Next, Start, Signal, Exit, Outage, S!Outage, PoolRecovers, Arrive, Serve,
           Query, Abandon, startupVars, vars
  <1>2. stage \notin {"serving", "draining", "exited"}
    BY <1>1 DEF Start, S!StartupStep, S!FromEnv, S!InitTelemetry, S!BuildVerifier,
                S!ConnectDatabase, S!ProveRole, S!LoadClientIdentity, S!ConnectBroker, S!Serve
  <1>3. /\ pc' = [r \in Requests |-> "idle"]
        /\ outcome' = [r \in Requests |-> "none"]
        /\ permits' = MaxInFlight
        /\ returning' = 0
    BY <1>1, <1>2 DEF QuietInv, requestVars
  <1>4. /\ "jetstream" \in gateway' => "api_url" \in gateway'
        /\ gateway' \cap {"api_url", "tcp", "jetstream"} # {} => "shared_auth" \in gateway'
    BY DEF P!IndInv, P!PartsInv, P!EnvironmentValid, P!OthersValid, P!AsyncValid
  <1> DEFINE served == {mode \in S!Modes : S!Served(mode)}
  <1>5. \A mode \in S!Modes : mode \in served' <=>
          \/ mode = "direct_read_only_database" /\ "direct" \in gateway'
          \/ mode = "stateless_http" /\ "api_url" \in gateway'
          \/ mode = "stateful_mtls_tcp" /\ "tcp" \in gateway'
          \/ mode = "jet_stream_async"
             /\ {"jetstream", "operation_attestation_key"} \subseteq gateway'
    BY DEF S!Served, S!Modes
  <1>6. /\ served' \subseteq {"direct_read_only_database"} \/ "shared_auth" \in gateway'
        /\ "jet_stream_async" \in served' => "stateless_http" \in served'
    BY <1>4, <1>5 DEF S!Modes
  <1>7. served' \in SUBSET G!Modes
    BY DEF S!Modes, G!Modes
  <1>8. QED
    BY <1>3, <1>6, <1>7 DEF G!Init

\* Startup leaves the gateway as Gateway assumes to find it.
THEOREM GatewayAssumptionHolds == Spec => GatewayAssumption
  <1>1. QuietInv /\ P!IndInv /\ P!IndInv' /\ [Next]_vars
          => [stage # "serving" /\ stage' = "serving" => G!Init']_vars
    BY HandOver
  <1>2. Spec => []P!IndInv
    BY Maps, P!Inductive, PTL
  <1>3. QED
    BY <1>1, <1>2, QuietHolds, PTL DEF Spec, GatewayAssumption

-------------------------------------------------------------------------------
Q == INSTANCE GatewayProofs WITH
        Direct <- "direct_read_only_database", Http <- "stateless_http",
        Tcp <- "stateful_mtls_tcp", JetStream <- "jet_stream_async",
        verifierConfigured <- "shared_auth" \in gateway,
        configured <- {mode \in S!Modes : S!Served(mode)}

\* A composition's step that is a request's or the pool's.
RequestStep ==
    \/ PoolRecovers
    \/ \E r \in Requests : Arrive(r) \/ Serve(r) \/ Query(r) \/ Abandon(r)

\* Such a step is one of Gateway.
LEMMA RequestStepMaps == RequestStep => G!Next
  <1>1. ASSUME NEW r \in Requests, Arrive(r) \/ Serve(r) \/ Query(r) \/ Abandon(r)
        PROVE  G!RequestNext(r)
    BY <1>1 DEF Arrive, Serve, Route, Query, Abandon, G!RequestNext
  <1>2. QED
    BY <1>1 DEF RequestStep, PoolRecovers, G!Next

\* The other steps leave the requests alone, and start from or lead to a process
\* that is not up, or change nothing the gateway is built with.
LEMMA OtherSteps ==
    ASSUME [Next]_vars, ~RequestStep
    PROVE  UNCHANGED requestVars /\ (Up => UNCHANGED gateway)
  <1>1. CASE Start
    BY <1>1 DEF Start, S!StartupStep, S!FromEnv, S!InitTelemetry, S!BuildVerifier,
                S!ConnectDatabase, S!ProveRole, S!LoadClientIdentity, S!ConnectBroker, S!Serve, Up
  <1>2. CASE Signal \/ Exit
    BY <1>2 DEF Signal, Exit, requestVars
  <1>3. CASE Outage
    BY <1>3 DEF Outage, S!Outage
  <1>4. CASE UNCHANGED vars
    BY <1>4 DEF vars, startupVars
  <1>5. QED
    BY <1>1, <1>2, <1>3, <1>4 DEF Next, RequestStep

\* The verifier and the modes follow from the parts of the gateway.
LEMMA SameGateway ==
    ASSUME UNCHANGED gateway
    PROVE  UNCHANGED <<"shared_auth" \in gateway, {mode \in S!Modes : S!Served(mode)}>>
  BY DEF S!Modes, S!Served

\* From the moment it is served the process is a Gateway.
THEOREM ServedIsGatewayHolds == Spec => ServedIsGateway
  <1>1. [Next]_vars => [Up => [G!Next]_(G!vars)]_vars
    <2> SUFFICES ASSUME [Next]_vars, Up PROVE [G!Next]_(G!vars)
      OBVIOUS
    <2>1. CASE RequestStep
      BY <2>1, RequestStepMaps
    <2>2. CASE ~RequestStep
      BY <2>2, OtherSteps, SameGateway DEF requestVars, G!vars
    <2>3. QED
      BY <2>1, <2>2
  <1>2. QED
    BY <1>1, PTL DEF Spec, ServedIsGateway

\* The two instances count as this module does.
LEMMA SameCounting ==
    ASSUME NEW T
    PROVE  /\ G!Cardinality(T) = Q!Cardinality(T) /\ Cardinality(T) = Q!Cardinality(T)
           /\ IsFiniteSet(T) <=> Q!IsFiniteSet(T)
  BY DEF Cardinality, G!Cardinality, Q!Cardinality, IsFiniteSet, Q!IsFiniteSet

\* Q and G are instances of the same module.
LEMMA SameRequestNext ==
    ASSUME NEW r \in Requests
    PROVE  G!RequestNext(r) => Q!RequestNext(r)
  <1> USE DEF G!Await, Q!Await, G!Respond, Q!Respond, G!Static, Q!Static,
              G!EndRead, Q!EndRead, G!Borrowing, Q!Borrowing, G!InFlight, Q!InFlight
  <1>1. \/ G!Authenticate(r) \/ G!Refuse(r) \/ G!Me(r) \/ G!Status(r)
        \/ G!RefuseAuthorization(r) \/ G!Backpressure(r) \/ G!RefuseMode(r) \/ G!Admit(r)
        => Q!RequestNext(r)
    BY DEF Q!RequestNext, G!Authenticate, Q!Authenticate, G!Refuse, Q!Refuse, G!Me, Q!Me,
           G!Status, Q!Status, G!RefuseAuthorization, Q!RefuseAuthorization,
           G!Backpressure, Q!Backpressure, G!RefuseMode, Q!RefuseMode, G!Admit, Q!Admit,
           G!Modes, Q!Modes
  <1>2. G!WebProgress(r) => Q!WebProgress(r)
    BY SameCounting DEF G!WebProgress, Q!WebProgress, G!CallEnds, Q!CallEnds, G!StatusEnds,
           Q!StatusEnds, G!Borrow, Q!Borrow, G!BorrowTimeout, Q!BorrowTimeout,
           G!QueryTimeout, Q!QueryTimeout, G!Borrowed, Q!Borrowed,
           G!ConnectionLimit, Q!ConnectionLimit
  <1>3. G!DatabaseAnswers(r) => Q!DatabaseAnswers(r)
    BY DEF G!DatabaseAnswers, Q!DatabaseAnswers, G!Begun, Q!Begun, G!Rows, Q!Rows,
           G!Committed, Q!Committed, G!DatabaseError, Q!DatabaseError
  <1>4. G!Cancel(r) => Q!Cancel(r)
    BY DEF G!Cancel, Q!Cancel
  <1>5. QED
    BY <1>1, <1>2, <1>3, <1>4 DEF G!RequestNext, Q!RequestNext

\* Every step of requests and of the pool is one Q!IndNext speaks of.
LEMMA SameGatewayNext == RequestStep => Q!Next
  <1>1. ASSUME NEW r \in Requests, Arrive(r) \/ Serve(r) \/ Query(r) \/ Abandon(r)
        PROVE  Q!RequestNext(r)
    BY <1>1, SameRequestNext DEF Arrive, Serve, Route, Query, Abandon, G!RequestNext
  <1>2. PoolRecovers => Q!ConnectionFree
    BY DEF PoolRecovers, G!ConnectionFree, Q!ConnectionFree, G!Static, Q!Static
  <1>3. QED
    BY <1>1, <1>2 DEF RequestStep, Q!Next

\* What GatewayProofs shows to be inductive is so in the composition: Startup
\* builds the gateway while no request is there to notice.
LEMMA PermitsNext == Q!IndInv /\ [Next]_vars => Q!IndInv'
  <1> SUFFICES ASSUME Q!IndInv, [Next]_vars PROVE Q!IndInv'
    OBVIOUS
  <1>1. CASE RequestStep
    BY <1>1, SameGatewayNext, SameCounting, Q!IndNext, RequestsAssumption, LimitsAssumption
  <1>2. CASE ~RequestStep
    <2>1. UNCHANGED requestVars
      BY <1>2, OtherSteps
    <2>2. ("shared_auth" \in gateway)' \in BOOLEAN
          /\ {mode \in S!Modes : S!Served(mode)}' \subseteq Q!Modes
      BY DEF S!Modes, Q!Modes
    <2>3. Q!TypeOK'
      BY <2>1, <2>2 DEF requestVars, Q!IndInv, Q!TypeOK
    <2>4. QED
      BY <2>1, <2>3 DEF requestVars, Q!IndInv, Q!PermitConservation, Q!ConnectionsInv,
                        Q!Borrowed, Q!HoldsPermit
  <1>3. QED
    BY <1>1, <1>2

\* Q!IndInv holds in every reachable state of the process.
LEMMA PermitsHold == Spec => []Q!IndInv
  <1>1. Init => Q!IndInv
    <2>1. SUFFICES ASSUME Init PROVE Q!IndInv
      OBVIOUS
    <2>2. Q!TypeOK
      BY <2>1, LimitsAssumption DEF Init, Q!TypeOK, S!Modes, Q!Modes
    <2>3. {r \in Requests : Q!HoldsPermit(r)} = {}
          /\ {r \in Requests : pc[r] \in Q!Borrowing} = {}
      BY <2>1 DEF Init, Q!HoldsPermit, Q!InFlight, Q!Borrowing
    <2>4. Q!Cardinality({r \in Requests : Q!HoldsPermit(r)}) = 0
          /\ Q!Cardinality({r \in Requests : pc[r] \in Q!Borrowing}) = 0
      BY <2>3, SameCounting, Q!FS_EmptySet, RequestsAssumption, LimitsAssumption
    <2>5. QED
      BY <2>1, <2>2, <2>4, LimitsAssumption
      DEF Init, Q!IndInv, Q!PermitConservation, Q!ConnectionsInv, Q!Borrowed
  <1>2. QED
    BY <1>1, PermitsNext, PTL DEF Spec

\* No error path, timeout, abandoned handler or shutdown loses a permit or gives
\* one back twice, from the start of the process to its end.
THEOREM ProcessConservesPermits == Spec => []G!PermitConservation
  <1>1. Q!IndInv => G!PermitConservation
    BY SameCounting
    DEF Q!IndInv, Q!PermitConservation, G!PermitConservation, Q!HoldsPermit,
        G!HoldsPermit, Q!InFlight, G!InFlight, Q!Borrowing, G!Borrowing
  <1>2. QED
    BY <1>1, PermitsHold, PTL

\* Whatever outages there are, direct reads never hold all the permits.
THEOREM ProcessKeepsPermitsFromDatabase == Spec => []G!DatabaseNeverHoldsAllPermits
  <1>1. Q!IndInv => Q!DatabaseNeverHoldsAllPermits
    BY SameCounting, Q!PermitsLeft, RequestsAssumption, LimitsAssumption
  <1>2. Q!DatabaseNeverHoldsAllPermits => G!DatabaseNeverHoldsAllPermits
    BY DEF Q!DatabaseNeverHoldsAllPermits, G!DatabaseNeverHoldsAllPermits, Q!HoldsPermit,
           G!HoldsPermit, Q!InFlight, G!InFlight, Q!Borrowing, G!Borrowing
  <1>3. QED
    BY <1>1, <1>2, PermitsHold, PTL

-------------------------------------------------------------------------------
\* What a request in flight or an answered one says of the process: it is past
\* startup with the parts they went through, and nobody is in flight at its end.
ServedInv ==
    /\ stage = "exited" => InFlight = {}
    /\ \A r \in Requests :
          /\ pc[r] \in G!Awaits \/ outcome[r] = "ok" => "shared_auth" \in gateway
          /\ pc[r] \in G!Borrowing \cup {"acquiring"} => "direct" \in gateway

\* The parts of the gateway were asked for in an environment that is valid.
SourcesInv ==
    /\ "shared_auth" \in gateway => S!EnvironmentValid /\ S!Set("SHARED_AUTH_URL")
    /\ "direct" \in gateway =>
          S!EnvironmentValid /\ S!Set("ACT_READONLY_DATABASE_URL")

\* One request moves as the gateway's parts allow.
LEMMA ServedMove ==
    ASSUME Q!TypeOK, ServedInv, Up, UNCHANGED <<stage, gateway>>, NEW r \in Requests,
           NEW w \in G!Awaits \cup {"done"}, NEW result,
           pc' = [pc EXCEPT ![r] = w], outcome' = [outcome EXCEPT ![r] = result],
           w \in G!Awaits \/ result = "ok" => "shared_auth" \in gateway,
           w \in G!Borrowing \cup {"acquiring"} => "direct" \in gateway
    PROVE  ServedInv'
  BY DEF ServedInv, Up, Q!TypeOK

\* Every step of a request does.
LEMMA ServedNext == Q!TypeOK /\ ServedInv /\ RequestStep => ServedInv'
  <1> SUFFICES ASSUME Q!TypeOK, ServedInv, RequestStep PROVE ServedInv'
    OBVIOUS
  <1> DEFINE Results == G!Errors \cup {"none", "ok", "cancelled"}
  <1>0. \A r \in Requests : outcome[r] \in Results
    BY DEF Q!TypeOK, Q!Errors, G!Errors
  <1> USE DEF G!Awaits, G!InFlight, G!Borrowing
  <1>1. Up /\ UNCHANGED startupVars
    BY DEF RequestStep, PoolRecovers, Arrive, Serve, Query, Abandon, Up
  <1>2. ASSUME NEW r \in Requests, G!RequestNext(r) PROVE ServedInv'
    <2>1. "shared_auth" \in gateway \/ pc[r] = "idle"
      BY <1>2 DEF ServedInv, Q!TypeOK, Q!Awaits, Q!InFlight, Q!Borrowing, G!RequestNext,
                  G!Authenticate, G!Refuse, G!Me, G!Status, G!RefuseAuthorization,
                  G!Backpressure, G!RefuseMode, G!Admit, G!WebProgress, G!CallEnds,
                  G!StatusEnds, G!Borrow, G!BorrowTimeout, G!QueryTimeout,
                  G!DatabaseAnswers, G!Begun, G!Rows, G!Committed, G!DatabaseError, G!Cancel
    <2>2. "direct_read_only_database" \in {mode \in S!Modes : S!Served(mode)}
             <=> "direct" \in gateway
      BY DEF S!Modes, S!Served
    <2>3. CASE G!Authenticate(r)
      <3>1. PICK w \in {"verifying", "done"}, result \in Results :
               /\ pc' = [pc EXCEPT ![r] = w] /\ outcome' = [outcome EXCEPT ![r] = result]
               /\ w = "verifying" => "shared_auth" \in gateway
               /\ result = "ok" => "shared_auth" \in gateway
        BY <2>3, <1>0 DEF G!Authenticate, G!Respond, G!Await, G!Errors, Q!TypeOK, ServedInv
      <3>2. QED
        BY <1>1, <3>1, ServedMove DEF startupVars
    <2>4. CASE "shared_auth" \in gateway /\ ~G!Authenticate(r)
      <3>1. PICK w \in G!Awaits \cup {"done"}, result \in Results :
               /\ pc' = [pc EXCEPT ![r] = w] /\ outcome' = [outcome EXCEPT ![r] = result]
               /\ w \in G!Borrowing \cup {"acquiring"} => "direct" \in gateway
        BY <1>0, <1>2, <2>2, <2>4
        DEF G!Errors, G!RequestNext, G!Refuse, G!Me, G!Status, G!RefuseAuthorization,
            G!Backpressure, G!RefuseMode, G!Admit, G!WebProgress, G!CallEnds,
            G!StatusEnds, G!Borrow, G!BorrowTimeout, G!QueryTimeout, G!DatabaseAnswers,
            G!Begun, G!Rows, G!Committed, G!DatabaseError, G!Cancel, G!EndRead,
            G!Respond, G!Await, Q!TypeOK, ServedInv
      <3>2. QED
        BY <1>1, <2>4, <3>1, ServedMove DEF startupVars
    <2>5. QED
      BY <1>2, <2>1, <2>3, <2>4
      DEF G!RequestNext, G!Refuse, G!Me, G!Status, G!RefuseAuthorization, G!Backpressure,
          G!RefuseMode, G!Admit, G!WebProgress, G!CallEnds, G!StatusEnds, G!Borrow,
          G!BorrowTimeout, G!QueryTimeout, G!DatabaseAnswers, G!Begun, G!Rows, G!Committed,
          G!DatabaseError, G!Cancel
  <1>3. CASE PoolRecovers
    BY <1>1, <1>3 DEF PoolRecovers, G!ConnectionFree, ServedInv, InFlight, startupVars
  <1>4. QED
    BY <1>2, <1>3 DEF RequestStep, Arrive, Serve, Route, Query, Abandon, G!RequestNext

\* The steps that are none of a request's take no part of the gateway away.
LEMMA GatewayGrows == [Next]_vars /\ ~RequestStep => gateway \subseteq gateway'
  <1>1. Start => gateway \subseteq gateway'
    BY DEF Start, S!StartupStep, S!FromEnv, S!InitTelemetry, S!BuildVerifier,
           S!ConnectDatabase, S!ProveRole, S!LoadClientIdentity, S!ConnectBroker, S!Serve, S!Found,
           S!Abort
  <1>2. QED
    BY <1>1 DEF Next, RequestStep, Signal, Exit, Outage, S!Outage, vars, startupVars

\* ServedInv holds in every reachable state.
LEMMA ServedHolds == Spec => []ServedInv
  <1>1. Init => ServedInv
    BY DEF Init, S!Init, ServedInv, G!Awaits, G!InFlight, G!Borrowing
  <1>2. Q!IndInv /\ ServedInv /\ [Next]_vars => ServedInv'
    <2> SUFFICES ASSUME Q!IndInv, ServedInv, [Next]_vars PROVE ServedInv'
      OBVIOUS
    <2>1. CASE RequestStep
      BY <2>1, ServedNext DEF Q!IndInv
    <2>2. CASE ~RequestStep
      <3>1. gateway \subseteq gateway' /\ UNCHANGED requestVars
        BY <2>2, GatewayGrows, OtherSteps
      <3>2. stage' = "exited" => stage = "exited" \/ InFlight = {}
        BY <2>2 DEF Next, RequestStep, Start, S!StartupStep, S!FromEnv, S!InitTelemetry,
                    S!BuildVerifier, S!ConnectDatabase, S!ProveRole, S!LoadClientIdentity,
                    S!ConnectBroker, S!Serve, S!Found, S!Abort, Signal, Exit, Outage,
                    S!Outage, vars, startupVars
      <3>3. QED
        BY <3>1, <3>2 DEF requestVars, ServedInv, InFlight
    <2>3. QED
      BY <2>1, <2>2
  <1>3. QED
    BY <1>1, <1>2, PermitsHold, PTL DEF Spec

\* S and P agree on what Config::from_env accepts.
LEMMA SameEnvironment == S!EnvironmentValid <=> P!EnvironmentValid
  BY DEF S!EnvironmentValid, P!EnvironmentValid, S!ApiUrlValid, P!ApiUrlValid,
         S!OthersValid, P!OthersValid, S!SharedAuthValid, P!SharedAuthValid,
         S!DirectDatabaseValid, P!DirectDatabaseValid, S!AsyncValid, P!AsyncValid,
         S!Set, P!Set

\* SourcesInv holds in every reachable state.
LEMMA SourcesHold == Spec => []SourcesInv
  <1>1. Init => SourcesInv
    BY DEF Init, S!Init, SourcesInv
  <1>2. P!IndInv /\ SourcesInv /\ [Next]_vars => SourcesInv'
    <2> SUFFICES ASSUME P!IndInv, SourcesInv, [Next]_vars PROVE SourcesInv'
      OBVIOUS
    <2>1. env' = env
      BY DEF Next, Start, S!StartupStep, S!FromEnv, S!InitTelemetry, S!BuildVerifier,
             S!ConnectDatabase, S!ProveRole, S!LoadClientIdentity, S!ConnectBroker, S!Serve, S!Found,
             S!Abort, S!Outside, Signal, Exit, Outage, S!Outage, PoolRecovers, Arrive,
             Serve, Query, Abandon, startupVars, vars
    <2>2. /\ S!EnvironmentValid' <=> S!EnvironmentValid
          /\ S!Set("SHARED_AUTH_URL")' <=> S!Set("SHARED_AUTH_URL")
          /\ S!Set("ACT_READONLY_DATABASE_URL")' <=> S!Set("ACT_READONLY_DATABASE_URL")
      BY <2>1 DEF S!EnvironmentValid, S!ApiUrlValid, S!OthersValid, S!SharedAuthValid,
                  S!DirectDatabaseValid, S!AsyncValid, S!Set
    <2>3. "shared_auth" \in gateway' \ gateway =>
             S!EnvironmentValid /\ S!Set("SHARED_AUTH_URL")
      <3>1. SUFFICES ASSUME "shared_auth" \in gateway' \ gateway
                     PROVE  stage = "shared_auth" /\ S!Set("SHARED_AUTH_URL")
        BY SameEnvironment DEF P!IndInv, P!PartsInv
      <3>2. Start
        BY <3>1 DEF Next, Signal, Exit, Outage, S!Outage, PoolRecovers, Arrive, Serve,
                    Query, Abandon, startupVars, vars
      <3>3. QED
        BY <3>1, <3>2 DEF Start, S!StartupStep, S!FromEnv, S!InitTelemetry,
             S!BuildVerifier, S!ConnectDatabase, S!ProveRole, S!LoadClientIdentity, S!ConnectBroker,
             S!Serve, S!Found, S!Abort, S!EnvironmentParts, S!Parts, S!Ok, S!Set
    <2>4. "direct" \in gateway' \ gateway =>
             S!EnvironmentValid /\ S!Set("ACT_READONLY_DATABASE_URL")
      <3>1. SUFFICES ASSUME "direct" \in gateway' \ gateway
                     PROVE  stage = "role"
        BY SameEnvironment DEF P!IndInv, P!PartsInv, P!Set, S!Set
      <3>2. Start
        BY <3>1 DEF Next, Signal, Exit, Outage, S!Outage, PoolRecovers, Arrive, Serve,
                    Query, Abandon, startupVars, vars
      <3>3. QED
        BY <3>1, <3>2 DEF Start, S!StartupStep, S!FromEnv, S!InitTelemetry,
             S!BuildVerifier, S!ConnectDatabase, S!ProveRole, S!LoadClientIdentity, S!ConnectBroker,
             S!Serve, S!Found, S!Abort, S!EnvironmentParts, S!Parts, S!Ok, S!Set
    <2>5. QED
      BY <2>2, <2>3, <2>4 DEF SourcesInv
  <1>3. Spec => []P!IndInv
    BY Maps, P!Inductive, PTL
  <1>4. QED
    BY <1>1, <1>2, <1>3, PTL DEF Spec

\* Protected routes fail closed and direct reads are read-only in every
\* deployment.
THEOREM FailsClosedHolds == Spec => []FailsClosed
  <1>1. P!TypeOK /\ ServedInv /\ SourcesInv => FailsClosed
    <2> SUFFICES ASSUME P!TypeOK, ServedInv, SourcesInv, NEW r \in Requests
                 PROVE  /\ outcome[r] = "ok" =>
                              /\ env.SHARED_AUTH_URL = "ok"
                              /\ env.SHARED_AUTH_SERVICE_CREDENTIAL = "ok"
                        /\ pc[r] \in G!Borrowing =>
                              /\ env.ACT_READONLY_DATABASE_URL = "ok"
                              /\ env.ACT_READONLY_DATABASE_ROLE = "ok"
      BY DEF FailsClosed
    <2>1. /\ env.SHARED_AUTH_URL \in {"absent", "ok"}
          /\ env.SHARED_AUTH_SERVICE_CREDENTIAL \in {"absent", "bad", "ok"}
          /\ env.ACT_READONLY_DATABASE_URL \in {"absent", "ok"}
          /\ env.ACT_READONLY_DATABASE_ROLE \in {"absent", "bad", "ok"}
      BY DEF P!TypeOK, P!Environments, P!Value
    <2>2. QED
      BY <2>1 DEF ServedInv, SourcesInv, S!EnvironmentValid, S!OthersValid,
                  S!SharedAuthValid, S!DirectDatabaseValid, S!Set
  <1>2. Spec => []P!TypeOK
    BY Maps, P!TypeCorrect, PTL
  <1>3. QED
    BY <1>1, <1>2, ServedHolds, SourcesHold, PTL

\* The process exits with every request answered and every permit back.
THEOREM ExitIsGracefulHolds == Spec => []ExitIsGraceful
  <1>1. Q!IndInv /\ ServedInv => ExitIsGraceful
    <2> SUFFICES ASSUME Q!IndInv, ServedInv, stage = "exited"
                 PROVE  InFlight = {} /\ permits = MaxInFlight
      BY DEF ExitIsGraceful
    <2>1. InFlight = {}
      BY DEF ServedInv
    <2>2. {r \in Requests : Q!HoldsPermit(r)} = {}
      BY <2>1 DEF InFlight, Q!HoldsPermit, Q!InFlight, Q!Borrowing
    <2>3. Q!Cardinality({r \in Requests : Q!HoldsPermit(r)}) = 0
      BY <2>2, SameCounting, Q!FS_EmptySet, RequestsAssumption, LimitsAssumption
    <2>4. QED
      BY <2>1, <2>3 DEF Q!IndInv, Q!PermitConservation, Q!TypeOK
  <1>2. QED
    BY <1>1, PermitsHold, ServedHolds, PTL
===============================================================================
