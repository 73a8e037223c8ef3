----------------------------- MODULE StartupProofs -----------------------------
(***************************************************************************)
(* Proofs about Startup: what the validation of the environment and the    *)
(* order of main's steps guarantee of the process that is served.          *)
(***************************************************************************)
EXTENDS Startup, TLAPS

\* Nothing is found out before main runs.
LEMMA IndInit == Init => IndInv
  BY DEF Init, IndInv, TypeOK, PartsInv, Steps, Parts, Modes

\* The verdict on the environment stands: the environment does not change.
LEMMA EnvironmentStays ==
    ASSUME UNCHANGED env
    PROVE  /\ EnvironmentValid' <=> EnvironmentValid
           /\ \A name : Set(name)' <=> Set(name)
  BY DEF EnvironmentValid, ApiUrlValid, OthersValid, SharedAuthValid,
         DirectDatabaseValid, AsyncValid, Set

\* A variable of a valid environment that is set is usable.
LEMMA SetIsOk ==
    ASSUME TypeOK, EnvironmentValid,
           NEW name \in {"SHARED_AUTH_URL", "ACT_READONLY_DATABASE_URL", "ACT_API_URL",
                         "ACT_API_MTLS", "ACT_NATS_URL", "ACT_NATS_OPERATION_HMAC_KEY"}
    PROVE  Ok(name) <=> Set(name)
  BY DEF TypeOK, Environments, Value, EnvironmentValid, SharedAuthValid,
         DirectDatabaseValid, ApiUrlValid, OthersValid, AsyncValid, Set, Ok

\* Every step keeps the types.
LEMMA TypeNext == TypeOK /\ [Next]_vars => TypeOK'
  BY DEF Next, StartupStep, FromEnv, InitTelemetry, BuildVerifier, ConnectDatabase,
         ProveRole, LoadClientIdentity, ConnectBroker, Serve, Shutdown, Outage, vars, Abort, Found,
         Outside, EnvironmentParts, ReadyModes, TypeOK, Steps, Parts, Modes, Databases, Brokers

\* Every step keeps the relation of the parts to the environment.
LEMMA PartsNext == IndInv /\ [Next]_vars => PartsInv'
  <1> SUFFICES ASSUME IndInv, [Next]_vars PROVE PartsInv'
    OBVIOUS
  <1> TypeOK /\ PartsInv
    BY DEF IndInv
  <1>0. UNCHANGED env
    BY DEF Next, StartupStep, FromEnv, InitTelemetry, BuildVerifier, ConnectDatabase,
           ProveRole, LoadClientIdentity, ConnectBroker, Serve, Shutdown, Outage, vars, Abort, Found,
           Outside
  <1> USE <1>0, EnvironmentStays
  <1>1. CASE Abort
    BY <1>1 DEF Abort, PartsInv
  <1>2. CASE pc = "from_env" /\ EnvironmentValid /\ Found(EnvironmentParts, "telemetry")
    <2>1. /\ "api_url" \in gateway' <=> Set("ACT_API_URL")
          /\ "operation_attestation_key" \in gateway' <=> Set("ACT_NATS_OPERATION_HMAC_KEY")
          /\ gateway' \cap {"direct", "tcp", "jetstream"} = {}
      BY <1>2, SetIsOk DEF Found, EnvironmentParts, PartsInv, Parts
    <2>2. QED
      BY <1>2, <2>1 DEF Found, PartsInv
  <1>11. CASE InitTelemetry
    BY <1>1, <1>11 DEF InitTelemetry, Found, PartsInv
  <1>3. CASE BuildVerifier
    BY <1>1, <1>3, SetIsOk DEF BuildVerifier, Found, PartsInv
  <1>4. CASE ConnectDatabase
    BY <1>4, SetIsOk DEF ConnectDatabase, Found, PartsInv
  <1>12. CASE ProveRole
    BY <1>12 DEF ProveRole, Found, PartsInv
  <1>5. CASE LoadClientIdentity
    BY <1>1, <1>5, SetIsOk DEF LoadClientIdentity, Found, PartsInv
  <1>6. CASE ConnectBroker
    BY <1>6, SetIsOk DEF ConnectBroker, Found, PartsInv
  <1>7. CASE Serve
    BY <1>1, <1>7 DEF Serve, PartsInv, ReadyModes
  <1>8. CASE Shutdown
    BY <1>8 DEF Shutdown, PartsInv
  <1>9. CASE Outage \/ UNCHANGED vars
    BY <1>9 DEF Outage, vars, PartsInv, ReadyModes
  <1>10. QED
    BY <1>1, <1>2, <1>3, <1>4, <1>5, <1>6, <1>7, <1>8, <1>9, <1>11, <1>12
    DEF Next, StartupStep, FromEnv

\* Types and parts are right in every reachable state.
THEOREM Inductive == Spec => []IndInv
  <1>1. IndInv /\ [Next]_vars => IndInv'
    BY TypeNext, PartsNext DEF IndInv
  <1>2. QED
    BY IndInit, <1>1, PTL DEF Spec

\* The modes GET /ready reports are the modes read does not refuse as not
\* configured.
THEOREM ReadyMatchesGatewayHolds == Spec => []ReadyMatchesGateway
  <1>1. IndInv => ReadyMatchesGateway
    <2> SUFFICES ASSUME IndInv, pc = "serving", NEW mode \in Modes
                 PROVE  OptionOf[mode] \in gateway <=> Served(mode)
      BY DEF IndInv, PartsInv, ReadyMatchesGateway, ReadyModes
    <2>1. "jetstream" \in gateway => "operation_attestation_key" \in gateway
      BY DEF IndInv, PartsInv, EnvironmentValid, OthersValid, AsyncValid
    <2>2. CASE mode = "direct_read_only_database"
      BY <2>2 DEF OptionOf, Served
    <2>3. CASE mode = "stateless_http"
      BY <2>3 DEF OptionOf, Served
    <2>4. CASE mode = "stateful_mtls_tcp"
      BY <2>4 DEF OptionOf, Served
    <2>5. CASE mode = "jet_stream_async"
      BY <2>1, <2>5 DEF OptionOf, Served
    <2>6. QED
      BY <2>2, <2>3, <2>4, <2>5 DEF Modes
  <1>2. QED
    BY Inductive, <1>1, PTL

\* An operation that is accepted has a status path, guarded by the verifier.
THEOREM AcceptedIsQueryableHolds == Spec => []AcceptedIsQueryable
  <1>1. IndInv => AcceptedIsQueryable
    BY DEF IndInv, PartsInv, AcceptedIsQueryable, EnvironmentValid, OthersValid, AsyncValid
  <1>2. QED
    BY Inductive, <1>1, PTL

\* The state of main keeps its shape.
THEOREM TypeCorrect == Spec => []TypeOK
  <1>1. IndInv => TypeOK
    BY DEF IndInv
  <1>2. QED
    BY Inductive, <1>1, PTL
===============================================================================
