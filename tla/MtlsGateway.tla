------------------------------ MODULE MtlsGateway ------------------------------
(***************************************************************************)
(* The gateway with its mTLS client: TransportGateway::read of             *)
(* src/data_plane.rs takes a permit, goes on to tcp_read and keeps the     *)
(* permit until that returns, however long the request queues for the      *)
(* connection.  Gateway (instance G) knows such a read as one await,       *)
(* "calling"; MtlsDeadline knows what happens in it, and when.  The other  *)
(* routes and modes share the permits with it and nothing else.            *)
(***************************************************************************)
EXTENDS MtlsDeadline

CONSTANTS MaxInFlight, PoolSize, Direct, Http, Tcp, JetStream    \* as in Gateway

ASSUME FiniteRequestsAssumption == IsFiniteSet(Requests)
ASSUME PermitsAssumption ==
    MaxInFlight \in Nat /\ PoolSize \in Nat /\ PoolSize < MaxInFlight
ASSUME FourModesAssumption == Direct \notin {Http, Tcp, JetStream}

VARIABLES
    verifierConfigured, configured,     \* as in Gateway
    at,                                 \* Gateway's pc
    answer,                             \* what the handler answered
    permits, returning

G == INSTANCE Gateway WITH pc <- at, outcome <- answer

mtlsVars == <<vars, timedVars>>
gatewayVars == <<verifierConfigured, configured, at, answer, permits, returning>>
allVars == <<mtlsVars, gatewayVars>>

GatewayInit == TimedInit /\ G!Init

\* What the gateway answers of what tcp_read returns.
AnswerOf(result) == IF result.tag = "Projection" THEN "ok" ELSE result.tag

-------------------------------------------------------------------------------
\* A permit is taken and given back: tcp_read refuses before it waits.
Refused(r) ==
    /\ Tcp \in configured
    /\ G!RefuseMode(r) /\ answer'[r] = "InvalidRequest"
    /\ RefuseSubject(r) \/ RefuseOperation(r)
    /\ Retimed

\* A permit is taken, and with it the request queues for the mutex.
Enters(r) ==
    /\ Tcp \in configured
    /\ G!Admit(r) /\ at'[r] = "calling"
    /\ Enqueue(r) /\ Retimed

\* tcp_read goes on to its next await, under the permit.
GoesOn(r) ==
    /\ Progress(r) /\ pc'[r] \in Awaits /\ Retimed
    /\ UNCHANGED gatewayVars

\* tcp_read returns, and read with it.
Ends(r) ==
    /\ Progress(r) /\ pc'[r] = "done" /\ Retimed
    /\ G!CallEnds(r) /\ answer'[r] = AnswerOf(outcome'[r])

\* axum drops the handler, and with it the call, the permit and the guard.
Drops(r) == Cancel(r) /\ G!Cancel(r) /\ Retimed

\* A request that makes no mTLS call goes on; only another mode awaits one that
\* is not ours.
Elsewhere(r) ==
    /\ pc[r] \notin Awaits
    /\ G!RequestNext(r)
    /\ at'[r] = "calling" => configured \cap {Http, JetStream} # {}
    /\ UNCHANGED mtlsVars

\* What happens outside the handlers: the API, the pool, and time.
ApiActs == (\E c \in Requests : ApiNext(c)) /\ Retimed /\ UNCHANGED gatewayVars
PoolActs == G!ConnectionFree /\ UNCHANGED mtlsVars
TimePasses == Tick /\ UNCHANGED gatewayVars

Stopped == G!Finished /\ UNCHANGED mtlsVars

CallNext(r) == Refused(r) \/ Enters(r) \/ GoesOn(r) \/ Ends(r) \/ Drops(r)

GatewayNext ==
    \/ \E r \in Requests : CallNext(r) \/ Elsewhere(r)
    \/ ApiActs \/ PoolActs \/ TimePasses \/ Stopped

GatewaySpec == GatewayInit /\ [][GatewayNext]_allVars

\* The runtime drives the calls and fires their timers, as in MtlsClient; the API
\* owes nothing.
CallFairness == \A r \in Requests : WF_allVars(GoesOn(r) \/ Ends(r))

-------------------------------------------------------------------------------
\* A request is in an mTLS call only under a permit.
UnderPermit == \A r \in Requests : pc[r] \in Awaits => at[r] = "calling"

\* Nobody queues behind more requests than there are other permits.
FrontWithinPermits == \A r \in Requests : pc[r] \in Awaits => inFront[r] < MaxInFlight

\* However many requests there are, none waits for the mutex longer than a Hold
\* for each other permit, and none is found connecting or exchanging frames later
\* than its own timers allow after that: the permits are what bounds how long
\* after its deadline an operation is sent.
SentWithinPermits ==
    \A r \in Requests :
        /\ pc[r] = "waiting" => age[r] <= Hold * (MaxInFlight - 1)
        /\ pc[r] \in TimedAwaits =>
              age[r] <= Hold * (MaxInFlight - 1) + HeldBefore(pc[r]) + timer[r]

\* A read that is answered from the mTLS mode is answered with what the API
\* executed for its own caller.
OwnAnswer ==
    \A r \in Requests :
        answer[r] = "ok" /\ outcome[r] # NoOutcome =>
           outcome[r] = Projection(r) /\ executed[r] = 1

\* An API that never answers does not use up the permits, however many requests
\* queue for the connection under one: one is free again and again.  Gateway
\* takes it that mTLS calls end; here they do because each await of the client
\* does.
PermitsComeBack == []<>(permits > 0)
===============================================================================
