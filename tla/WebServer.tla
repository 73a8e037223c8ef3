------------------------------- MODULE WebServer -------------------------------
(***************************************************************************)
(* One life of the process with the requests it serves: Startup composed   *)
(* with Gateway, and the graceful shutdown of main and shutdown_signal of  *)
(* src/main.rs.  What Startup found out is what the gateway is built with; *)
(* requests arrive once the listener is served and until SIGTERM or        *)
(* Ctrl-C, and the process ends when the last one in flight has been       *)
(* answered.  A database that is not up may hang or fail what it is asked, *)
(* and answers nothing.                                                    *)
(***************************************************************************)
EXTENDS Integers, FiniteSets

CONSTANTS Requests, MaxInFlight, PoolSize,      \* as in Gateway
          Deployments      \* the environments the process may be started in

VARIABLES
    env, hostUsable, database, broker, gateway, ready,      \* of Startup
    stage,          \* pc of Startup, with "draining" between serving and exited
    pc, outcome, permits, returning                         \* of Gateway

startupVars == <<env, hostUsable, database, broker, gateway, ready, stage>>
requestVars == <<pc, outcome, permits, returning>>
vars == <<startupVars, requestVars>>

S == INSTANCE Startup WITH pc <- stage

\* The modes read and status do not answer with NotConfigured.
G == INSTANCE Gateway WITH
        Direct <- "direct_read_only_database", Http <- "stateless_http",
        Tcp <- "stateful_mtls_tcp", JetStream <- "jet_stream_async",
        verifierConfigured <- "shared_auth" \in gateway,
        configured <- {mode \in S!Modes : S!Served(mode)}

ASSUME RequestsAssumption == IsFiniteSet(Requests)
ASSUME LimitsAssumption ==     \* as in Gateway
    MaxInFlight \in Nat /\ PoolSize \in Nat /\ PoolSize < MaxInFlight
ASSUME DeploymentsAssumption == Deployments \subseteq S!Environments

Init ==
    /\ S!Init
    /\ env \in Deployments
    /\ pc = [r \in Requests |-> "idle"]
    /\ outcome = [r \in Requests |-> "none"]
    /\ permits = MaxInFlight
    /\ returning = 0

Up == stage \in {"serving", "draining"}
InFlight == {r \in Requests : pc[r] \notin {"idle", "done"}}

-------------------------------------------------------------------------------
\* main up to axum::serve.
Start == S!StartupStep /\ UNCHANGED requestVars

\* A connection is accepted and its request reaches require_auth.
Arrive(r) ==
    /\ stage = "serving"
    /\ UNCHANGED startupVars
    /\ G!Authenticate(r)

\* The introspection has ended and the handler gets to its first await.
Route(r) ==
    \/ G!Refuse(r) \/ G!Me(r) \/ G!Status(r) \/ G!RefuseAuthorization(r)
    \/ G!Backpressure(r) \/ G!RefuseMode(r) \/ G!Admit(r)

\* What the process does for a request by itself.
Serve(r) == Up /\ UNCHANGED startupVars /\ (Route(r) \/ G!WebProgress(r))

\* What the database does for it; one that is not up can only fail.
Query(r) ==
    /\ Up
    /\ UNCHANGED startupVars
    /\ G!DatabaseAnswers(r)
    /\ database # "up" => outcome'[r] = "Upstream"

\* A client goes away.
Abandon(r) == Up /\ UNCHANGED startupVars /\ G!Cancel(r)

PoolRecovers ==
    /\ Up /\ database = "up"
    /\ UNCHANGED startupVars
    /\ G!ConnectionFree

\* Fault: the handler is installed before there is anything to drain.
Signal_Early ==
    /\ stage \in {"bind", "serving"}
    /\ stage' = "draining"
    /\ UNCHANGED <<env, hostUsable, database, broker, gateway, ready, requestVars>>

\* shutdown_signal resolves: nothing more is accepted.
Signal ==
    /\ stage = "serving"
    /\ stage' = "draining"
    /\ UNCHANGED <<env, hostUsable, database, broker, gateway, ready, requestVars>>

\* Fault: the process ends as soon as the signal has come.
Exit_AtOnce ==
    /\ stage = "draining"
    /\ stage' = "exited"
    /\ UNCHANGED <<env, hostUsable, database, broker, gateway, ready, requestVars>>

\* axum::serve returns when no request is in flight, and so does main.
Exit ==
    /\ InFlight = {}
    /\ stage = "draining"
    /\ stage' = "exited"
    /\ UNCHANGED <<env, hostUsable, database, broker, gateway, ready, requestVars>>

Outage == S!Outage /\ UNCHANGED requestVars

Next ==
    \/ Start \/ Signal \/ Exit \/ Outage \/ PoolRecovers
    \/ \E r \in Requests : Arrive(r) \/ Serve(r) \/ Query(r) \/ Abandon(r)

Spec == Init /\ [][Next]_vars

\* main runs on, timers fire, and the calls to Shared Auth and to the other
\* transports end.
FairSpec ==
    /\ Spec
    /\ WF_vars(Start) /\ WF_vars(Exit)
    /\ \A r \in Requests : WF_vars(Serve(r))

-------------------------------------------------------------------------------
\* Startup leaves the gateway as Gateway assumes to find it: with the verifier
\* if it has an API transport, and with the API if it has JetStream.
GatewayAssumption == [][stage # "serving" /\ stage' = "serving" => G!Init']_vars

\* Once served, the process is a Gateway until it exits: no step of the rest of
\* main touches what a request in flight relies on.
ServedIsGateway == [][Up => [G!Next]_(G!vars)]_vars

\* Protected routes fail closed and direct reads are read-only whatever the
\* deployment: only a process given both Shared Auth variables answers one with
\* "ok", and only one given a database role that ends in _web_ro asks the
\* database anything.
FailsClosed ==
    \A r \in Requests :
       /\ outcome[r] = "ok" =>
             env.SHARED_AUTH_URL = "ok" /\ env.SHARED_AUTH_SERVICE_CREDENTIAL = "ok"
       /\ pc[r] \in G!Borrowing =>
             env.ACT_READONLY_DATABASE_URL = "ok" /\ env.ACT_READONLY_DATABASE_ROLE = "ok"

\* A shutdown is graceful: nobody the process accepted is without an answer when
\* it exits, and every permit is back.
ExitIsGraceful == stage = "exited" => InFlight = {} /\ permits = MaxInFlight

\* Seen without its requests, the process is a Startup: draining is a part of
\* serving.
Life == INSTANCE Startup WITH pc <- IF stage = "draining" THEN "serving" ELSE stage
StartupSpec == Life!Spec

\* A database that is up answers, and is up for good from some time on.
DatabaseComesBack ==
    /\ <>[](database = "up")
    /\ \A r \in Requests : WF_vars(database = "up" /\ Query(r))

\* A request that reached a handler is answered or given up by its own client,
\* and never cut off by the shutdown, if the database comes back for good.
ArrivedIsAnswered ==
    DatabaseComesBack => \A r \in Requests : (r \in InFlight) ~> (pc[r] = "done")

\* With a database that may hang for ever, all that can hold up a shutdown is a
\* direct read at the two awaits that have no deadline.
ShutdownWaitsForTheDatabaseOnly ==
    stage = "draining" ~>
        stage = "exited" \/ \A r \in InFlight : pc[r] \in {"beginning", "committing"}
===============================================================================
