------------------------------ MODULE MtlsClient ------------------------------
(***************************************************************************)
(* The persistent mTLS client of src/data_plane.rs and the tcp_read path   *)
(* that uses it.  All handlers share one framed connection, kept in a      *)
(* tokio Mutex<Option<Framed>>.  A handler takes the connection out of the *)
(* Option (or opens one), sends one frame, awaits one frame, and puts the  *)
(* connection back only if the frame it read was a reply.  Any await may   *)
(* time out, and axum drops the handler's future at any await when its     *)
(* client goes away.                                                       *)
(*                                                                         *)
(* A connection is named after the request that opened it: a request opens *)
(* at most one.  The API at the far end is external.                       *)
(***************************************************************************)
EXTENDS Naturals, Sequences

CONSTANTS Requests,     \* calls to tcp_read, each by a caller of its own
          None,         \* Rust's None, and "nobody"
          MaxStrays     \* bound: frames the API sends that answer nothing

ASSUME NoneAssumption == None \notin Requests
ASSUME MaxStraysAssumption == MaxStrays \in Nat

VARIABLES
    serverNameParses,   \* ServerName::try_from accepts ACT_API_SERVER_NAME
    sequence,           \* OPERATION_SEQUENCE
    pc,                 \* the await at which each request is suspended
    ahead,              \* the waiters in front of each request in the mutex
    operationId,        \* the operation id of each request, 0 before it has one
    pooled,             \* the Option inside the mutex
    hand,               \* the connection a request has taken out or opened
    outcome,            \* what tcp_read returned
    toApi, toWeb,       \* frames in flight on each connection
    apiOpen,            \* the API has not closed its side
    executed,           \* how often the API executed each request
    strays              \* stray frames sent so far

clientVars == <<serverNameParses, sequence, pc, ahead, operationId, pooled,
                hand, outcome>>
wireVars == <<toApi, toWeb, apiOpen, executed, strays>>
vars == <<serverNameParses, sequence, pc, ahead, operationId, pooled, hand,
          outcome, toApi, toWeb, apiOpen, executed, strays>>

Awaits == {"waiting", "tcp", "tls", "sending", "receiving"}
LockedAwaits == Awaits \ {"waiting"}
GatewayErrors == {"InvalidRequest", "Timeout", "Upstream", "InvalidResponse"}

NoOutcome == [tag |-> "none", owner |-> None]
Err(error) == [tag |-> error, owner |-> None]
Projection(owner) == [tag |-> "Projection", owner |-> owner]
Cancelled == [tag |-> "cancelled", owner |-> None]

\* Fault: the mutex is not held while a request connects.
HoldsLock_NotConnecting(r) == pc[r] \in {"sending", "receiving"}

\* The lock is held from the return of lock().await to the end of request().
HoldsLock(r) == pc[r] \in LockedAwaits

\* The web side still owns the connection.
Live(c) == pooled = c \/ \E r \in Requests : hand[r] = c

\* The frame of a request: its own operation id and its own bearer.
OperationFrame(r) == [id |-> operationId[r], bearer |-> r]

\* AtomicU64::new(1)
FirstSequence == 1

Init ==
    /\ serverNameParses \in BOOLEAN
    /\ sequence = FirstSequence
    /\ pc = [r \in Requests |-> "idle"]
    /\ ahead = [r \in Requests |-> {}]
    /\ operationId = [r \in Requests |-> 0]
    /\ pooled = None
    /\ hand = [r \in Requests |-> None]
    /\ outcome = [r \in Requests |-> NoOutcome]
    /\ toApi = [c \in Requests |-> <<>>]
    /\ toWeb = [c \in Requests |-> <<>>]
    /\ apiOpen = [c \in Requests |-> FALSE]
    /\ executed = [r \in Requests |-> 0]
    /\ strays = 0

-------------------------------------------------------------------------------
\* tcp_read returns: the guard and every local are dropped, and with them the
\* connection when it was not put back.  The queue forgets the request.
Return(r, result) ==
    /\ pc' = [pc EXCEPT ![r] = "done"]
    /\ outcome' = [outcome EXCEPT ![r] = result]
    /\ hand' = [hand EXCEPT ![r] = None]
    /\ ahead' = [s \in Requests |-> IF s = r THEN {} ELSE ahead[s] \ {r}]
    /\ UNCHANGED <<serverNameParses, sequence, operationId>>

\* Nobody will read what is still on its way on a dropped connection.
DropConnection(c) ==
    toWeb' = [d \in Requests |-> IF d = c THEN <<>> ELSE toWeb[d]]

\* A subject validate_identifier refuses: no operation id is allocated.
RefuseSubject(r) ==
    /\ pc[r] = "idle"
    /\ Return(r, Err("InvalidRequest"))
    /\ UNCHANGED <<pooled, toApi, toWeb, apiOpen, executed, strays>>

\* An operation the contract's validate refuses, or one over
\* MAX_TRANSPORT_BYTES: its operation id is spent.
RefuseOperation(r) ==
    /\ pc[r] = "idle"
    /\ sequence' = sequence + 1
    /\ operationId' = [operationId EXCEPT ![r] = sequence]
    /\ pc' = [pc EXCEPT ![r] = "done"]
    /\ outcome' = [outcome EXCEPT ![r] = Err("InvalidRequest")]
    /\ UNCHANGED <<serverNameParses, ahead, hand, pooled>>
    /\ UNCHANGED wireVars

\* The envelope gets the next operation id and the request joins the queue of
\* the mutex.  Ids are only compared for equality, so drawing one and joining
\* the queue are one step.
Enqueue(r) ==
    /\ pc[r] = "idle"
    /\ sequence' = sequence + 1
    /\ operationId' = [operationId EXCEPT ![r] = sequence]
    /\ pc' = [pc EXCEPT ![r] = "waiting"]
    /\ ahead' = [ahead EXCEPT ![r] = {s \in Requests : pc[s] = "waiting"}]
    /\ UNCHANGED <<serverNameParses, pooled, hand, outcome>>
    /\ UNCHANGED wireVars

\* Fault: the connection is used without being taken out of the Option.
Acquire_Peeks(r) ==
    /\ pc[r] = "waiting"
    /\ ahead[r] = {}
    /\ \A s \in Requests : ~HoldsLock(s)
    /\ pc' = [pc EXCEPT ![r] = IF pooled = None THEN "tcp" ELSE "sending"]
    /\ hand' = [hand EXCEPT ![r] = pooled]
    /\ ahead' = [s \in Requests |-> ahead[s] \ {r}]
    /\ UNCHANGED <<serverNameParses, sequence, operationId, pooled, outcome>>
    /\ UNCHANGED wireVars

\* The mutex is granted in queue order; guard.take() empties the Option.
Acquire(r) ==
    /\ pc[r] = "waiting"
    /\ ahead[r] = {}
    /\ \A s \in Requests : ~HoldsLock(s)
    /\ pc' = [pc EXCEPT ![r] = IF pooled = None THEN "tcp" ELSE "sending"]
    /\ hand' = [hand EXCEPT ![r] = pooled]
    /\ pooled' = None
    /\ ahead' = [s \in Requests |-> ahead[s] \ {r}]
    /\ UNCHANGED <<serverNameParses, sequence, operationId, outcome>>
    /\ UNCHANGED wireVars

\* connect(): TcpStream::connect succeeds; the server name is parsed only now.
ConnectTcp(r) ==
    /\ pc[r] = "tcp"
    /\ serverNameParses
    /\ pc' = [pc EXCEPT ![r] = "tls"]
    /\ UNCHANGED <<serverNameParses, sequence, ahead, operationId, pooled,
                   hand, outcome>>
    /\ UNCHANGED wireVars

\* connect() fails: at TCP, on the server name, or in the TLS handshake.
ConnectFails(r) ==
    /\ \/ /\ pc[r] \in {"tcp", "tls"}
          /\ \E error \in {"Timeout", "Upstream"} : Return(r, Err(error))
       \/ /\ pc[r] = "tcp"
          /\ ~serverNameParses
          /\ Return(r, Err("InvalidRequest"))
    /\ UNCHANGED <<pooled, toApi, toWeb, apiOpen, executed, strays>>

\* The handshake completes: a fresh connection, owned by the request.
ConnectTls(r) ==
    /\ pc[r] = "tls"
    /\ pc' = [pc EXCEPT ![r] = "sending"]
    /\ hand' = [hand EXCEPT ![r] = r]
    /\ apiOpen' = [apiOpen EXCEPT ![r] = TRUE]
    /\ UNCHANGED <<serverNameParses, sequence, ahead, operationId, pooled,
                   outcome, toApi, toWeb, executed, strays>>

\* The frame reaches the API's queue, unless the API has closed its side.
Transmit(r) ==
    LET c == hand[r]
    IN  toApi' = [toApi EXCEPT ![c] =
                     IF apiOpen[c] THEN Append(@, OperationFrame(r)) ELSE @]

\* connection.send succeeds: the frame is in the kernel's hands.
Send(r) ==
    /\ pc[r] = "sending"
    /\ Transmit(r)
    /\ pc' = [pc EXCEPT ![r] = "receiving"]
    /\ UNCHANGED <<serverNameParses, sequence, ahead, operationId, pooled,
                   hand, outcome, toWeb, apiOpen, executed, strays>>

\* Fault: a send that times out is tried again on the same connection.
SendFails_Retries(r) ==
    /\ pc[r] = "sending"
    /\ Transmit(r)
    /\ UNCHANGED <<clientVars, toWeb, apiOpen, executed, strays>>

\* connection.send fails or times out; the whole frame may have left.
SendFails(r) ==
    /\ pc[r] = "sending"
    /\ \E error \in {"Timeout", "Upstream"} : Return(r, Err(error))
    /\ DropConnection(hand[r])
    /\ Transmit(r) \/ UNCHANGED toApi
    /\ UNCHANGED <<pooled, apiOpen, executed, strays>>

\* Fault: the operation id of a reply is not compared.
Interpret_AnyId(r, reply) ==
    IF reply.kind = "error" THEN Err("Upstream")
    ELSE IF reply.kind = "empty" THEN Err("InvalidResponse")
    ELSE Projection(reply.owner)

\* tcp_read on a reply: the operation id first, then the error, then the data.
Interpret(r, reply) ==
    IF reply.id # operationId[r] THEN Err("InvalidResponse")
    ELSE IF reply.kind = "error" THEN Err("Upstream")
    ELSE IF reply.kind = "empty" THEN Err("InvalidResponse")
    ELSE Projection(reply.owner)

\* A frame that parses as an OperationReply: the connection goes back to the
\* Option before tcp_read looks at the operation id.
ReceiveReply(r) ==
    /\ pc[r] = "receiving"
    /\ LET c == hand[r]
       IN  /\ toWeb[c] # <<>>
           /\ Head(toWeb[c]).kind # "garbage"
           /\ Return(r, Interpret(r, Head(toWeb[c])))
           /\ pooled' = c
           /\ toWeb' = [toWeb EXCEPT ![c] = Tail(@)]
    /\ UNCHANGED <<toApi, apiOpen, executed, strays>>

\* A frame that is not a reply, or over the codec's limit.
ReceiveGarbage(r) ==
    /\ pc[r] = "receiving"
    /\ toWeb[hand[r]] # <<>>
    /\ Head(toWeb[hand[r]]).kind = "garbage"
    /\ Return(r, Err("InvalidResponse"))
    /\ DropConnection(hand[r])
    /\ UNCHANGED <<pooled, toApi, apiOpen, executed, strays>>

\* The stream has ended: cleanly (Upstream) or inside a frame, or with an I/O
\* error, which the codec reports (InvalidResponse).
ReceiveEnd(r) ==
    /\ pc[r] = "receiving"
    /\ toWeb[hand[r]] = <<>>
    /\ ~apiOpen[hand[r]]
    /\ \E error \in {"Upstream", "InvalidResponse"} : Return(r, Err(error))
    /\ UNCHANGED <<pooled, toApi, toWeb, apiOpen, executed, strays>>

\* Fault: the connection is put back whatever the outcome of the exchange.
ReceiveTimeout_Restores(r) ==
    /\ pc[r] = "receiving"
    /\ Return(r, Err("Timeout"))
    /\ pooled' = hand[r]
    /\ UNCHANGED <<toApi, toWeb, apiOpen, executed, strays>>

\* Fault: the timer covers the rest of a frame that has begun to arrive, not
\* the wait for it.
ReceiveTimeout_OnlyMidFrame(r) ==
    /\ pc[r] = "receiving"
    /\ toWeb[hand[r]] # <<>>
    /\ Return(r, Err("Timeout"))
    /\ DropConnection(hand[r])
    /\ UNCHANGED <<pooled, toApi, apiOpen, executed, strays>>

\* OPERATION_TIMEOUT elapses while the reply is awaited.
ReceiveTimeout(r) ==
    /\ pc[r] = "receiving"
    /\ Return(r, Err("Timeout"))
    /\ DropConnection(hand[r])
    /\ UNCHANGED <<pooled, toApi, apiOpen, executed, strays>>

\* axum drops the handler's future at one of its awaits.
Cancel(r) ==
    /\ pc[r] \in Awaits
    /\ Return(r, Cancelled)
    /\ DropConnection(hand[r])
    /\ (pc[r] = "sending" /\ Transmit(r)) \/ UNCHANGED toApi
    /\ UNCHANGED <<pooled, apiOpen, executed, strays>>

-------------------------------------------------------------------------------
\* The API (external).  It reads frames in order and answers each at most
\* once, with the data of the bearer in the frame.
Replies(frame) ==
    {[id |-> frame.id, owner |-> frame.bearer, kind |-> k] :
        k \in {"result", "error", "empty", "garbage"}}

\* A frame the API refuses before executing it is answered without an id.
Refusal == [id |-> 0, owner |-> None, kind |-> "error"]

Deliver(c, reply) ==
    toWeb' = [toWeb EXCEPT ![c] = IF Live(c) THEN Append(@, reply) ELSE @]

ApiExecutes(c) ==
    /\ toApi[c] # <<>>
    /\ LET frame == Head(toApi[c])
       IN  /\ executed' = [executed EXCEPT ![frame.bearer] = @ + 1]
           /\ \E reply \in Replies(frame) : Deliver(c, reply)
    /\ toApi' = [toApi EXCEPT ![c] = Tail(@)]
    /\ UNCHANGED <<clientVars, apiOpen, strays>>

ApiRefuses(c) ==
    /\ toApi[c] # <<>>
    /\ Deliver(c, Refusal)
    /\ toApi' = [toApi EXCEPT ![c] = Tail(@)]
    /\ UNCHANGED <<clientVars, apiOpen, executed, strays>>

\* The API closes the connection and forgets what it had not read.
ApiCloses(c) ==
    /\ apiOpen[c]
    /\ apiOpen' = [apiOpen EXCEPT ![c] = FALSE]
    /\ toApi' = [toApi EXCEPT ![c] = <<>>]
    /\ UNCHANGED <<clientVars, toWeb, executed, strays>>

\* A frame nobody asked for: the answer to an executed operation once more.
ApiStrays(c) ==
    /\ strays < MaxStrays
    /\ apiOpen[c] /\ Live(c)
    /\ strays' = strays + 1
    /\ \E r \in Requests :
          /\ executed[r] > 0
          /\ Deliver(c, [id |-> operationId[r], owner |-> r,
                         kind |-> "result"])
    /\ UNCHANGED <<clientVars, toApi, apiOpen, executed>>

-------------------------------------------------------------------------------
\* What the runtime drives once a request is suspended: I/O readiness, the
\* mutex and the timers.
Progress(r) ==
    \/ Acquire(r) \/ ConnectTcp(r) \/ ConnectFails(r) \/ ConnectTls(r)
    \/ Send(r) \/ SendFails(r) \/ ReceiveReply(r) \/ ReceiveGarbage(r)
    \/ ReceiveEnd(r) \/ ReceiveTimeout(r)

RequestNext(r) ==
    \/ RefuseSubject(r) \/ RefuseOperation(r) \/ Enqueue(r)
    \/ Progress(r) \/ Cancel(r)

ApiNext(c) == ApiExecutes(c) \/ ApiRefuses(c) \/ ApiCloses(c) \/ ApiStrays(c)

\* Every request has returned and the API has nothing left to read.
Finished == (\A r \in Requests : pc[r] = "done") /\ UNCHANGED vars

Next == (\E r \in Requests : RequestNext(r) \/ ApiNext(r)) \/ Finished

Spec == Init /\ [][Next]_vars

\* tokio polls a ready task and fires an elapsed timer; nothing is assumed of
\* the API, which may never answer.
FairSpec == Spec /\ \A r \in Requests : WF_vars(Progress(r))
-------------------------------------------------------------------------------
Frames == [id : Nat, bearer : Requests]
ReplyFrames == [id : Nat, owner : Requests \cup {None},
                kind : {"result", "error", "empty", "garbage"}]
Outcomes == [tag : GatewayErrors \cup {"none", "Projection", "cancelled"},
             owner : Requests \cup {None}]

\* The shape of the state.
TypeOK ==
    /\ serverNameParses \in BOOLEAN
    /\ sequence \in Nat \ {0}
    /\ pc \in [Requests -> Awaits \cup {"idle", "done"}]
    /\ ahead \in [Requests -> SUBSET Requests]
    /\ operationId \in [Requests -> Nat]
    /\ pooled \in Requests \cup {None}
    /\ hand \in [Requests -> Requests \cup {None}]
    /\ outcome \in [Requests -> Outcomes]
    /\ toApi \in [Requests -> Seq(Frames)]
    /\ toWeb \in [Requests -> Seq(ReplyFrames)]
    /\ apiOpen \in [Requests -> BOOLEAN]
    /\ executed \in [Requests -> Nat]
    /\ strays \in Nat

\* One caller's data never reaches another: a projection tcp_read returns is
\* the caller's own and the API executed the caller's operation for it, however
\* requests are cancelled and time out on the shared connection and whatever
\* stray answers arrive on it (the operation id check of tcp_read).
OwnProjection ==
    \A r \in Requests :
        outcome[r].tag = "Projection" => outcome[r].owner = r /\ executed[r] = 1

\* The frames in flight on a connection, both ways.
Lag(c) == Len(toApi[c]) + Len(toWeb[c])

\* A connection goes back into the Option only with nothing of its request left
\* on it: at most the stray frames are still in flight.  A request that timed
\* out, failed or was cancelled halfway must not leave its answer behind for
\* the next one (guard.take() before the awaits, restore only on Ok).
PooledLag == pooled # None => Lag(pooled) <= strays

\* The client keeps one connection: the mutex is held while a request connects,
\* so two requests never open a connection each, nor share one.
SingleConnection ==
    /\ \A c, d \in Requests : Live(c) /\ Live(d) => c = d
    /\ \A r, s \in Requests : hand[r] = hand[s] /\ hand[r] # None => r = s
    /\ pooled # None => \A r \in Requests : hand[r] = None

\* The invariant that makes these properties inductive.
\* Operation ids are drawn from the counter and never drawn twice.
IdInv ==
    /\ \A r \in Requests :
          /\ operationId[r] < sequence
          /\ pc[r] \in Awaits => operationId[r] # 0
    /\ \A r, s \in Requests :
          operationId[r] = operationId[s] /\ operationId[r] # 0 => r = s

\* A request has a connection in hand exactly while it exchanges frames.
HandInv ==
    \A r \in Requests : hand[r] # None <=> pc[r] \in {"sending", "receiving"}

\* At most one request holds the mutex, and the Option is empty meanwhile.
LockInv ==
    /\ \A r, s \in Requests : HoldsLock(r) /\ HoldsLock(s) => r = s
    /\ \A r \in Requests : HoldsLock(r) => pooled = None

\* A connection carries nothing before it is opened, and nothing is read from
\* it once it is dropped.
WireInv ==
    \A c \in Requests :
        /\ pc[c] \in {"idle", "waiting", "tcp", "tls"} =>
              toApi[c] = <<>> /\ toWeb[c] = <<>> /\ ~Live(c)
        /\ ~Live(c) => toWeb[c] = <<>>

\* What is in flight on a live connection: the stray frames, and one more frame
\* while its holder awaits a reply.
LagInv ==
    \A c \in Requests :
        /\ pooled = c => Lag(c) <= strays
        /\ \A r \in Requests :
              /\ hand[r] = c => Lag(c) <= strays + 1
              /\ hand[r] = c /\ pc[r] # "receiving" => Lag(c) <= strays

\* A frame carries its request's id; the request has sent it, and the API has
\* not executed it.
Unserved(frame) ==
    /\ frame.id = operationId[frame.bearer]
    /\ frame.id # 0
    /\ executed[frame.bearer] = 0
    /\ pc[frame.bearer] \in {"receiving", "done"}

\* A frame in flight is unserved, and the only one of its request.
FrameInv ==
    /\ \A c \in Requests : \A i \in 1 .. Len(toApi[c]) : Unserved(toApi[c][i])
    /\ \A c, d \in Requests :
          \A i \in 1 .. Len(toApi[c]), j \in 1 .. Len(toApi[d]) :
             toApi[c][i].bearer = toApi[d][j].bearer => c = d /\ i = j

\* A reply carries the operation id of the request whose data it holds, and the
\* API has executed that request; a refusal belongs to nobody.
Truthful(reply) ==
    /\ reply.owner = None => reply.id = 0 /\ reply.kind = "error"
    /\ reply.owner # None => /\ reply.id = operationId[reply.owner]
                             /\ reply.id # 0
                             /\ executed[reply.owner] = 1

ReplyInv ==
    \A c \in Requests : \A i \in 1 .. Len(toWeb[c]) : Truthful(toWeb[c][i])

\* The API executes what was sent, once; only a projection names an owner.
ExecInv ==
    \A r \in Requests :
        /\ executed[r] \in {0, 1}
        /\ executed[r] = 1 => pc[r] \in {"receiving", "done"}
        /\ executed[r] = 1 => operationId[r] # 0
        /\ outcome[r].tag # "Projection" => outcome[r].owner = None
        /\ pc[r] # "done" => outcome[r] = NoOutcome

\* Mutex, wires, ids and answers agree in every reachable state: the invariant
\* from which the properties above are proved.
IndInv == /\ TypeOK /\ HandInv /\ IdInv /\ LockInv /\ WireInv
          /\ LagInv /\ FrameInv /\ ReplyInv /\ ExecInv /\ OwnProjection

\* Every request that suspends returns (it stays nowhere suspended for ever),
\* although nothing is assumed of the API: each await is under a timeout except
\* the wait for the mutex, whose queue then drains.
EveryRequestReturns ==
    \A r \in Requests : []<>(pc[r] \notin Awaits)

\* Where an abstract call stands.
CallOf(r) ==
    CASE pc[r] = "idle" -> "idle"
      [] pc[r] \in Awaits -> "pending"
      [] pc[r] = "done" /\ outcome[r].tag = "Projection" -> "answered"
      [] OTHER -> "failed"

Abstract == INSTANCE CorrelatedCall
                WITH NoOwner <- None,
                     call <- [r \in Requests |-> CallOf(r)],
                     shown <- [r \in Requests |-> outcome[r].owner]

\* MtlsClient implements CorrelatedCall: a request is executed at most once and
\* answered at most once, with its own data, after it was executed.
CorrelatedCallSpec == Abstract!CallSpec
===============================================================================
