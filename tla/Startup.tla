-------------------------------- MODULE Startup --------------------------------
(***************************************************************************)
(* One life of the process: main of src/main.rs with Config::from_env of   *)
(* src/config.rs and telemetry::init.  The environment is validated as a   *)
(* whole, local material (addresses, key files, the port) must be usable,  *)
(* and the exporter of traces, the database and NATS are tried once: a     *)
(* failure there disables that part and nothing else.  What was found out  *)
(* is copied into AppState, which GET /ready reads for the rest of the     *)
(* life of the process, while the database and the broker (external) come  *)
(* and go.                                                                 *)
(*                                                                         *)
(* A variable of the environment is "absent" (or blank), "bad" when its    *)
(* own validation rejects it, or "ok".  ACT_API_URL can also name the IPv6 *)
(* loopback address, whose host_str is "[::1]", with its brackets.         *)
(***************************************************************************)

VARIABLES
    env,            \* the process environment, fixed before main runs
    hostUsable,     \* PORT, URLs, key files and the port itself are usable
    database,       \* external: "down", "up", "wrongRole", or "stalled": it is
                    \* there and answers nothing
    broker,         \* external: "down" or "up"
    pc,             \* the step main is at
    gateway,        \* the Options of AppState and TransportGateway that are Some
    ready           \* the modes GET /ready reports, once there is an AppState

vars == <<env, hostUsable, database, broker, pc, gateway, ready>>

Value == {"absent", "bad", "ok"}
Environments ==
    [SHARED_AUTH_URL : {"absent", "ok"},
     SHARED_AUTH_SERVICE_CREDENTIAL : Value,
     ACT_READONLY_DATABASE_URL : {"absent", "ok"},
     ACT_READONLY_DATABASE_ROLE : Value,
     ACT_API_URL : Value \cup {"ipv6_loopback"},
     ACT_API_MTLS : Value,                    \* the five variables together
     ACT_NATS_URL : Value,
     ACT_NATS_OPERATION_HMAC_KEY : Value,
     RUST_LOG : {"bad", "ok"},                \* has a default
     OTEL_EXPORTER_OTLP_ENDPOINT : {"bad", "ok"}]    \* absent is as good as ok

Modes == {"direct_read_only_database", "stateless_http", "stateful_mtls_tcp",
          "jet_stream_async"}
Parts == {"shared_auth", "direct", "api_url", "tcp", "jetstream",
          "operation_attestation_key"}
Databases == {"down", "up", "wrongRole", "stalled"}
Brokers == {"down", "up"}
Steps == {"from_env", "telemetry", "shared_auth", "direct", "role", "tcp", "jetstream",
          "bind", "serving", "aborted", "exited"}

Set(name) == env[name] # "absent"
Ok(name) == env[name] = "ok"

-------------------------------------------------------------------------------
\* Both variables or neither, and a credential that can be a bearer.
SharedAuthValid ==
    /\ Set("SHARED_AUTH_URL") <=> Set("SHARED_AUTH_SERVICE_CREDENTIAL")
    /\ env.SHARED_AUTH_SERVICE_CREDENTIAL # "bad"

\* Both variables or neither, and a role that ends in _web_ro.
DirectDatabaseValid ==
    /\ Set("ACT_READONLY_DATABASE_URL") <=> Set("ACT_READONLY_DATABASE_ROLE")
    /\ env.ACT_READONLY_DATABASE_ROLE # "bad"

\* Fault: the API that answers status requests is not asked for.
AsyncValid_NoStatusPath ==
    /\ Set("ACT_NATS_URL") <=> Set("ACT_NATS_OPERATION_HMAC_KEY")
    /\ env.ACT_NATS_OPERATION_HMAC_KEY # "bad"

\* validate_async_configuration.
AsyncValid ==
    /\ Set("ACT_NATS_URL") => Set("ACT_API_URL")
    /\ Set("ACT_NATS_URL") <=> Set("ACT_NATS_OPERATION_HMAC_KEY")
    /\ env.ACT_NATS_OPERATION_HMAC_KEY # "bad"

\* validate_https_or_loopback compares with "::1": "[::1]" is no loopback host.
ApiUrlValid == env.ACT_API_URL \notin {"bad", "ipv6_loopback"}

\* The other checks of Config::from_env.
OthersValid ==
    /\ SharedAuthValid
    /\ DirectDatabaseValid
    /\ env.ACT_API_MTLS # "bad" /\ env.ACT_NATS_URL # "bad"
    /\ AsyncValid
    /\ \A name \in {"ACT_API_URL", "ACT_API_MTLS", "ACT_NATS_URL"} :
          Set(name) => Set("SHARED_AUTH_URL")

\* Config::from_env returns Ok.
EnvironmentValid == ApiUrlValid /\ OthersValid

Init ==
    /\ env \in Environments
    /\ hostUsable \in BOOLEAN
    /\ database \in Databases
    /\ broker \in Brokers
    /\ pc = "from_env"
    /\ gateway = {}
    /\ ready = {}

-------------------------------------------------------------------------------
Outside == UNCHANGED <<env, hostUsable, database, broker>>

Abort == pc' = "aborted" /\ UNCHANGED <<gateway, ready>> /\ Outside

\* The step of main ends with the parts it found usable.
Found(parts, next) ==
    /\ pc' = next
    /\ gateway' = gateway \cup parts
    /\ UNCHANGED ready
    /\ Outside

\* The parts of the gateway that are values of the environment.
EnvironmentParts ==
    {part \in Parts : \/ part = "api_url" /\ Ok("ACT_API_URL")
                      \/ part = "operation_attestation_key"
                         /\ Ok("ACT_NATS_OPERATION_HMAC_KEY")}

\* Config::from_env; PORT is the one value that is not in env.
FromEnv ==
    /\ pc = "from_env"
    /\ \/ EnvironmentValid /\ Found(EnvironmentParts, "telemetry")
       \/ ~EnvironmentValid /\ Abort
       \/ ~hostUsable /\ Abort

\* Fault: an exporter that cannot be built ends the process.
InitTelemetry_Strict ==
    /\ pc = "telemetry"
    /\ \/ Ok("RUST_LOG") /\ Ok("OTEL_EXPORTER_OTLP_ENDPOINT") /\ Found({}, "shared_auth")
       \/ ~(Ok("RUST_LOG") /\ Ok("OTEL_EXPORTER_OTLP_ENDPOINT")) /\ Abort

\* telemetry::init: the filter must parse; an exporter that cannot be built is
\* done without.
InitTelemetry ==
    /\ pc = "telemetry"
    /\ \/ Ok("RUST_LOG") /\ Found({}, "shared_auth")
       \/ ~Ok("RUST_LOG") /\ Abort

\* SharedAuthVerifier::new; without it the protected routes are closed.
BuildVerifier ==
    /\ pc = "shared_auth"
    /\ \/ Ok("SHARED_AUTH_URL") /\ Found({"shared_auth"}, "direct")
       \/ ~Set("SHARED_AUTH_URL") /\ Found({}, "direct")
       \/ Set("SHARED_AUTH_URL") /\ ~hostUsable /\ Abort

\* Fault: a database that is down ends the process.
ConnectDatabase_Aborts ==
    /\ pc = "direct"
    /\ IF ~Set("ACT_READONLY_DATABASE_URL") THEN Found({}, "tcp")
       ELSE IF database \in {"up", "wrongRole"} THEN Found({}, "role") ELSE Abort

\* database::connect: five seconds to connect and to lend a connection.
ConnectDatabase ==
    /\ pc = "direct"
    /\ \/ /\ Ok("ACT_READONLY_DATABASE_URL")
          /\ database \in {"up", "wrongRole"}
          /\ Found({}, "role")
       \/ /\ Ok("ACT_READONLY_DATABASE_URL")
          /\ database \in {"down", "stalled"}
          /\ Found({}, "tcp")
       \/ ~Set("ACT_READONLY_DATABASE_URL") /\ Found({}, "tcp")

\* The rest of DirectReadStore::connect: the role query, which is awaited
\* without a limit.  Any failure disables the mode.
ProveRole ==
    /\ pc = "role"
    /\ \/ database = "up" /\ Found({"direct"}, "tcp")
       \/ database \in {"down", "wrongRole"} /\ Found({}, "tcp")

\* PersistentMtlsClient::from_config reads the key files; it does not connect.
LoadClientIdentity ==
    /\ pc = "tcp"
    /\ \/ Ok("ACT_API_MTLS") /\ Found({"tcp"}, "jetstream")
       \/ ~Set("ACT_API_MTLS") /\ Found({}, "jetstream")
       \/ Set("ACT_API_MTLS") /\ ~hostUsable /\ Abort

\* async_nats::connect; a failure disables the mode.  That it ends is assumed of the
\* library (external): main sets no limit.
ConnectBroker ==
    /\ pc = "jetstream"
    /\ \/ Ok("ACT_NATS_URL") /\ broker = "up" /\ Found({"jetstream"}, "bind")
       \/ Ok("ACT_NATS_URL") /\ broker # "up" /\ Found({}, "bind")
       \/ ~Set("ACT_NATS_URL") /\ Found({}, "bind")

\* The Option of the gateway a mode is reported by.
OptionOf == [direct_read_only_database |-> "direct", stateless_http |-> "api_url",
             stateful_mtls_tcp |-> "tcp", jet_stream_async |-> "jetstream"]

\* Fault: the probe reports JetStream when it is configured, connected or not.
ReadyModes_Configured ==
    {mode \in Modes : \/ OptionOf[mode] \in gateway
                      \/ mode = "jet_stream_async" /\ Set("ACT_NATS_URL")}

\* The four booleans main keeps for GET /ready.
ReadyModes == {mode \in Modes : OptionOf[mode] \in gateway}

\* The gateway and AppState are built, the listener bound, the routes served.
Serve ==
    /\ pc = "bind"
    /\ \/ pc' = "serving" /\ ready' = ReadyModes /\ UNCHANGED gateway /\ Outside
       \/ ~hostUsable /\ Abort

\* SIGTERM or Ctrl-C; requests in flight are waited for.
Shutdown ==
    /\ pc = "serving"
    /\ pc' = "exited"
    /\ UNCHANGED <<gateway, ready>> /\ Outside

\* The database and the broker come and go (external).
Outage ==
    /\ \/ database' \in Databases \ {database} /\ UNCHANGED broker
       \/ broker' \in Brokers \ {broker} /\ UNCHANGED database
    /\ UNCHANGED <<env, hostUsable, pc, gateway, ready>>

StartupStep ==
    \/ FromEnv \/ InitTelemetry \/ BuildVerifier \/ ConnectDatabase
    \/ ProveRole \/ LoadClientIdentity \/ ConnectBroker \/ Serve

Next == StartupStep \/ Shutdown \/ Outage

Spec == Init /\ [][Next]_vars

\* main runs on: timers end the attempts to connect, and a query ends when it
\* is answered or its connection is lost.
FairSpec == Spec /\ WF_vars(StartupStep)

-------------------------------------------------------------------------------
\* The shape of the state.
TypeOK ==
    /\ env \in Environments
    /\ hostUsable \in BOOLEAN
    /\ database \in Databases
    /\ broker \in Brokers
    /\ pc \in Steps
    /\ gateway \subseteq Parts
    /\ ready \subseteq Modes

\* TransportGateway::read and status have what a mode needs, so that they do
\* not answer NotConfigured.
Served(mode) ==
    CASE mode = "direct_read_only_database" -> "direct" \in gateway
      [] mode = "stateless_http" -> "api_url" \in gateway
      [] mode = "stateful_mtls_tcp" -> "tcp" \in gateway
      [] mode = "jet_stream_async" -> {"jetstream", "operation_attestation_key"} \subseteq gateway

\* The modes GET /ready reports are the modes the gateway serves: a mode the
\* probe announces is not answered with transport_not_configured, and a mode
\* that was disabled at start is not announced.
ReadyMatchesGateway ==
    pc = "serving" => ready = {mode \in Modes : Served(mode)}

\* An operation JetStream accepts can be asked about by its owner: with
\* JetStream there is the HTTP API that answers status requests, and with any
\* API transport the verifier that says who asks.  Gateway starts from this.
AcceptedIsQueryable ==
    pc = "serving" =>
        /\ "jetstream" \in gateway => "api_url" \in gateway
        /\ gateway \cap {"api_url", "tcp", "jetstream"} # {} => "shared_auth" \in gateway

\* What main has established by the time it reaches a step: a valid environment,
\* and the parts of the gateway that go with it.
PartsInv ==
    /\ pc = "from_env" => gateway = {}
    /\ pc \notin {"from_env", "aborted"} =>
          /\ EnvironmentValid
          /\ "api_url" \in gateway <=> Set("ACT_API_URL")
          /\ "operation_attestation_key" \in gateway <=> Set("ACT_NATS_OPERATION_HMAC_KEY")
    /\ pc \notin {"from_env", "telemetry", "shared_auth", "aborted"} =>
          (Set("SHARED_AUTH_URL") => "shared_auth" \in gateway)
    /\ pc = "role" \/ "direct" \in gateway => Set("ACT_READONLY_DATABASE_URL")
    /\ "api_url" \in gateway => Set("ACT_API_URL")
    /\ "tcp" \in gateway => Set("ACT_API_MTLS")
    /\ "jetstream" \in gateway => Set("ACT_NATS_URL")
    /\ pc = "serving" => ready = ReadyModes

IndInv == TypeOK /\ PartsInv

\* main has what it needs: a valid environment on a usable host.
CanServe == pc = "from_env" /\ EnvironmentValid /\ Ok("RUST_LOG") /\ hostUsable

\* Whatever the database, the broker and the collector of traces do during the
\* start, main gets to serve, unless the database took the connection, stalled,
\* and keeps main waiting for the role query.
StartWaitsForTheDatabaseOnly ==
    CanServe ~>
        pc = "serving" \/ ([](pc = "role") /\ []<>(database = "stalled"))

\* NATS/broker or database unavailability does not take down the public web
\* process: whatever state the database settles in, main gets to serve.
ValidConfigurationServes ==
    (\E state \in Databases : <>[](database = state)) => (CanServe ~> pc = "serving")

\* The readiness response includes whether the optional database is available:
\* one that is gone for good is not reported for ever.
ReadyFollowsDatabase ==
    <>[](database = "down") =>
        <>[](pc = "serving" => "direct_read_only_database" \notin ready)
===============================================================================
