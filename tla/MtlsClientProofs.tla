--------------------------- MODULE MtlsClientProofs ---------------------------
(***************************************************************************)
(* Proofs about MtlsClient, for any number of requests and stray frames:   *)
(* IndInv is inductive, the safety properties follow from it, and every    *)
(* step implements a step of CorrelatedCall.  Then, about MtlsDeadline,    *)
(* for any length of the timer: how long after its deadline was set a      *)
(* frame may leave.  At last, about MtlsGateway, for any number of         *)
(* permits: that the permits bound the queue of the client's mutex, and    *)
(* with it that delay, and whose data the gateway answers with.            *)
(***************************************************************************)
EXTENDS MtlsGateway, FiniteSetTheorems, TLAPS

USE NoneAssumption, MaxStraysAssumption

\* The initial state is well typed.
LEMMA TypeInit == Init => TypeOK
  BY DEF Init, TypeOK, FirstSequence, NoOutcome, Outcomes, Awaits

ClientType ==
    /\ serverNameParses \in BOOLEAN
    /\ sequence \in Nat \ {0}
    /\ pc \in [Requests -> Awaits \cup {"idle", "done"}]
    /\ ahead \in [Requests -> SUBSET Requests]
    /\ operationId \in [Requests -> Nat]
    /\ hand \in [Requests -> Requests \cup {None}]
    /\ outcome \in [Requests -> Outcomes]

\* The outcomes a request can return.
LEMMA OutcomeType ==
    /\ \A e \in GatewayErrors : Err(e) \in Outcomes
    /\ Cancelled \in Outcomes
    /\ \A r \in Requests, reply \in ReplyFrames : Interpret(r, reply) \in Outcomes
  BY DEF Err, Cancelled, Outcomes, GatewayErrors, Interpret, Projection,
         ReplyFrames

\* Returning keeps the types of the client's own state.
LEMMA ReturnType ==
    ASSUME TypeOK, NEW r \in Requests, NEW o \in Outcomes, Return(r, o)
    PROVE  ClientType'
  BY DEF TypeOK, ClientType, Return

\* Dropping a connection keeps the type of the wires.
LEMMA DropType ==
    ASSUME TypeOK, NEW c, DropConnection(c)
    PROVE  toWeb' \in [Requests -> Seq(ReplyFrames)]
  BY DEF TypeOK, DropConnection

\* So does transmitting a request's frame.
LEMMA TransmitType ==
    ASSUME TypeOK, NEW r \in Requests, Transmit(r)
    PROVE  toApi' \in [Requests -> Seq(Frames)]
  <1>1. OperationFrame(r) \in Frames
    BY DEF OperationFrame, Frames, TypeOK
  <1>2. \A s \in Seq(Frames) : Append(s, OperationFrame(r)) \in Seq(Frames)
    BY <1>1
  <1>3. QED
    BY <1>2 DEF Transmit, TypeOK

\* And delivering a reply.
LEMMA DeliverType ==
    ASSUME TypeOK, NEW c \in Requests, NEW reply \in ReplyFrames,
           Deliver(c, reply)
    PROVE  toWeb' \in [Requests -> Seq(ReplyFrames)]
  <1>1. \A s \in Seq(ReplyFrames) : Append(s, reply) \in Seq(ReplyFrames)
    OBVIOUS
  <1>2. QED
    BY <1>1 DEF Deliver, TypeOK

\* Every step preserves the types.
LEMMA TypeNext == TypeOK /\ HandInv /\ [Next]_vars => TypeOK'
  <1> SUFFICES ASSUME TypeOK, HandInv, [Next]_vars PROVE TypeOK'
    OBVIOUS
  <1>1. ASSUME NEW r \in Requests, RefuseSubject(r) PROVE TypeOK'
    BY <1>1, OutcomeType, ReturnType
    DEF TypeOK, ClientType, RefuseSubject, GatewayErrors
  <1>2. ASSUME NEW r \in Requests, RefuseOperation(r) PROVE TypeOK'
    BY <1>2, OutcomeType DEF TypeOK, RefuseOperation, GatewayErrors, wireVars
  <1>3. ASSUME NEW r \in Requests, Enqueue(r) PROVE TypeOK'
    BY <1>3 DEF TypeOK, Enqueue, wireVars, Awaits
  <1>4. ASSUME NEW r \in Requests, Acquire(r) PROVE TypeOK'
    BY <1>4 DEF TypeOK, Acquire, wireVars, Awaits
  <1>5. ASSUME NEW r \in Requests, ConnectTcp(r) PROVE TypeOK'
    BY <1>5 DEF TypeOK, ConnectTcp, wireVars, Awaits
  <1>6. ASSUME NEW r \in Requests, ConnectFails(r) PROVE TypeOK'
    <2>1. \E error \in GatewayErrors : Return(r, Err(error))
      BY <1>6 DEF ConnectFails, GatewayErrors
    <2>2. ClientType'
      BY <2>1, OutcomeType, ReturnType
    <2>3. QED
      BY <1>6, <2>2 DEF ConnectFails, TypeOK, ClientType
  <1>7. ASSUME NEW r \in Requests, ConnectTls(r) PROVE TypeOK'
    BY <1>7 DEF TypeOK, ConnectTls, Awaits
  <1>8. ASSUME NEW r \in Requests, Send(r) PROVE TypeOK'
    BY <1>8, TransmitType DEF TypeOK, Send, Awaits
  <1>9. ASSUME NEW r \in Requests, SendFails(r) PROVE TypeOK'
    <2>1. \E error \in GatewayErrors : Return(r, Err(error))
      BY <1>9 DEF SendFails, GatewayErrors
    <2>2. ClientType'
      BY <2>1, OutcomeType, ReturnType
    <2>3. toApi' \in [Requests -> Seq(Frames)]
      BY <1>9, TransmitType DEF SendFails, TypeOK
    <2>4. QED
      BY <1>9, <2>2, <2>3, DropType DEF SendFails, TypeOK, ClientType
  <1>10. ASSUME NEW r \in Requests, ReceiveReply(r) PROVE TypeOK'
    <2> DEFINE c == hand[r]
    <2>1. c \in Requests /\ toWeb[c] \in Seq(ReplyFrames) /\ toWeb[c] # <<>>
      BY <1>10 DEF ReceiveReply, TypeOK, HandInv
    <2>2. Head(toWeb[c]) \in ReplyFrames /\ Tail(toWeb[c]) \in Seq(ReplyFrames)
      BY <2>1
    <2>3. ClientType'
      BY <1>10, <2>2, OutcomeType, ReturnType DEF ReceiveReply
    <2>4. toWeb' \in [Requests -> Seq(ReplyFrames)]
      BY <1>10, <2>1, <2>2 DEF ReceiveReply, TypeOK
    <2>5. QED
      BY <1>10, <2>1, <2>3, <2>4 DEF ReceiveReply, TypeOK, ClientType
  <1>11. ASSUME NEW r \in Requests, ReceiveGarbage(r) PROVE TypeOK'
    <2>1. ClientType'
      BY <1>11, OutcomeType, ReturnType DEF ReceiveGarbage, GatewayErrors
    <2>2. QED
      BY <1>11, <2>1, DropType DEF ReceiveGarbage, TypeOK, ClientType
  <1>12. ASSUME NEW r \in Requests, ReceiveEnd(r) PROVE TypeOK'
    <2>1. \E error \in GatewayErrors : Return(r, Err(error))
      BY <1>12 DEF ReceiveEnd, GatewayErrors
    <2>2. ClientType'
      BY <2>1, OutcomeType, ReturnType
    <2>3. QED
      BY <1>12, <2>2 DEF ReceiveEnd, TypeOK, ClientType
  <1>13. ASSUME NEW r \in Requests, ReceiveTimeout(r) PROVE TypeOK'
    <2>1. ClientType'
      BY <1>13, OutcomeType, ReturnType DEF ReceiveTimeout, GatewayErrors
    <2>2. QED
      BY <1>13, <2>1, DropType DEF ReceiveTimeout, TypeOK, ClientType
  <1>14. ASSUME NEW r \in Requests, Cancel(r) PROVE TypeOK'
    <2>1. ClientType'
      BY <1>14, OutcomeType, ReturnType DEF Cancel
    <2>2. toApi' \in [Requests -> Seq(Frames)]
      BY <1>14, TransmitType DEF Cancel, TypeOK
    <2>3. QED
      BY <1>14, <2>1, <2>2, DropType DEF Cancel, TypeOK, ClientType
  <1>15. ASSUME NEW c \in Requests, ApiExecutes(c) PROVE TypeOK'
    <2>1. toApi[c] \in Seq(Frames) /\ toApi[c] # <<>>
      BY <1>15 DEF ApiExecutes, TypeOK
    <2>2. Head(toApi[c]) \in Frames /\ Tail(toApi[c]) \in Seq(Frames)
      BY <2>1
    <2>3. Replies(Head(toApi[c])) \subseteq ReplyFrames
      BY <2>2 DEF Replies, ReplyFrames, Frames
    <2>4. toWeb' \in [Requests -> Seq(ReplyFrames)]
      BY <1>15, <2>3, DeliverType DEF ApiExecutes
    <2> DEFINE r == Head(toApi[c]).bearer
    <2>5. executed' = [executed EXCEPT ![r] = @ + 1] /\ r \in Requests
      BY <1>15, <2>2 DEF ApiExecutes, Frames
    <2>6. executed' \in [Requests -> Nat]
      BY <2>5 DEF TypeOK
    <2>7. toApi' \in [Requests -> Seq(Frames)]
      BY <1>15, <2>2 DEF ApiExecutes, TypeOK
    <2>8. UNCHANGED <<clientVars, apiOpen, strays>>
      BY <1>15 DEF ApiExecutes
    <2>9. QED
      BY <2>4, <2>6, <2>7, <2>8 DEF TypeOK, clientVars
  <1>16. ASSUME NEW c \in Requests, ApiRefuses(c) PROVE TypeOK'
    <2>1. Tail(toApi[c]) \in Seq(Frames)
      BY <1>16 DEF ApiRefuses, TypeOK
    <2>2. Refusal \in ReplyFrames
      BY DEF Refusal, ReplyFrames
    <2>3. QED
      BY <1>16, <2>1, <2>2, DeliverType DEF ApiRefuses, TypeOK, clientVars
  <1>17. ASSUME NEW c \in Requests, ApiCloses(c) PROVE TypeOK'
    BY <1>17 DEF TypeOK, ApiCloses, clientVars
  <1>18. ASSUME NEW c \in Requests, ApiStrays(c) PROVE TypeOK'
    <2>1. PICK r \in Requests : Deliver(c, [id |-> operationId[r],
                                           owner |-> r, kind |-> "result"])
      BY <1>18 DEF ApiStrays
    <2>2. [id |-> operationId[r], owner |-> r, kind |-> "result"] \in ReplyFrames
      BY DEF TypeOK, ReplyFrames
    <2>3. toWeb' \in [Requests -> Seq(ReplyFrames)]
      BY <2>1, <2>2, DeliverType
    <2>4. strays' \in Nat
      BY <1>18 DEF ApiStrays, TypeOK
    <2>5. UNCHANGED <<clientVars, toApi, apiOpen, executed>>
      BY <1>18 DEF ApiStrays
    <2>6. QED
      BY <2>3, <2>4, <2>5 DEF TypeOK, clientVars
  <1>19. CASE Finished \/ UNCHANGED vars
    BY <1>19 DEF TypeOK, Finished, vars
  <1>20. QED
    BY <1>1, <1>2, <1>3, <1>4, <1>5, <1>6, <1>7, <1>8, <1>9, <1>10, <1>11,
       <1>12, <1>13, <1>14, <1>15, <1>16, <1>17, <1>18, <1>19
    DEF Next, RequestNext, Progress, ApiNext

\* Every step keeps the connection in the hand of whoever uses it.
LEMMA HandNext == TypeOK /\ HandInv /\ [Next]_vars => HandInv'
  <1> SUFFICES ASSUME TypeOK, HandInv, [Next]_vars PROVE HandInv'
    OBVIOUS
  <1> USE DEF TypeOK, HandInv
  <1>1. ASSUME NEW r \in Requests, NEW o, Return(r, o) PROVE HandInv'
    BY <1>1 DEF Return
  <1>2. ASSUME NEW r \in Requests, RequestNext(r) PROVE HandInv'
    <2>1. CASE RefuseSubject(r)
      BY <2>1, <1>1 DEF RefuseSubject
    <2>2. CASE RefuseOperation(r)
      BY <2>2 DEF RefuseOperation
    <2>3. CASE Enqueue(r)
      BY <2>3 DEF Enqueue
    <2>4. CASE Acquire(r)
      BY <2>4 DEF Acquire
    <2>5. CASE ConnectTcp(r)
      BY <2>5 DEF ConnectTcp
    <2>6. CASE ConnectFails(r)
      BY <2>6, <1>1 DEF ConnectFails
    <2>7. CASE ConnectTls(r)
      BY <2>7 DEF ConnectTls
    <2>8. CASE Send(r)
      BY <2>8 DEF Send
    <2>9. CASE SendFails(r)
      BY <2>9, <1>1 DEF SendFails
    <2>10. CASE ReceiveReply(r)
      BY <2>10, <1>1 DEF ReceiveReply
    <2>11. CASE ReceiveGarbage(r)
      BY <2>11, <1>1 DEF ReceiveGarbage
    <2>12. CASE ReceiveEnd(r)
      BY <2>12, <1>1 DEF ReceiveEnd
    <2>13. CASE ReceiveTimeout(r)
      BY <2>13, <1>1 DEF ReceiveTimeout
    <2>14. CASE Cancel(r)
      BY <2>14, <1>1 DEF Cancel
    <2>15. QED
      BY <1>2, <2>1, <2>2, <2>3, <2>4, <2>5, <2>6, <2>7, <2>8, <2>9, <2>10,
         <2>11, <2>12, <2>13, <2>14 DEF RequestNext, Progress
  <1>3. ASSUME NEW c \in Requests, ApiNext(c) PROVE HandInv'
    BY <1>3 DEF ApiNext, ApiExecutes, ApiRefuses, ApiCloses, ApiStrays,
                clientVars
  <1>4. CASE Finished \/ UNCHANGED vars
    BY <1>4 DEF Finished, vars
  <1>5. QED
    BY <1>2, <1>3, <1>4 DEF Next

\* The state keeps its shape.
THEOREM TypeCorrect == Spec => []TypeOK
  <1>1. Init => HandInv
    BY DEF Init, HandInv
  <1>2. QED
    BY <1>1, TypeInit, TypeNext, HandNext, PTL DEF Spec

\* A request that draws the next operation id gets one nobody has.
LEMMA IdDrawn ==
    ASSUME TypeOK, IdInv, NEW r \in Requests, NEW w,
           sequence' = sequence + 1,
           operationId' = [operationId EXCEPT ![r] = sequence],
           pc' = [pc EXCEPT ![r] = w]
    PROVE  IdInv'
  <1>1. /\ sequence \in Nat /\ sequence # 0
        /\ operationId \in [Requests -> Nat]
        /\ pc \in [Requests -> Awaits \cup {"idle", "done"}]
    BY DEF TypeOK
  <1>2. operationId'[r] = sequence
        /\ \A s \in Requests : s # r => operationId'[s] = operationId[s] /\ pc'[s] = pc[s]
    BY <1>1
  <1>3. \A s \in Requests : operationId[s] \in Nat /\ operationId[s] < sequence
    BY <1>1 DEF IdInv
  <1>4. \A s \in Requests : operationId'[s] < sequence'
    BY <1>1, <1>2, <1>3
  <1>5. \A s \in Requests : pc'[s] \in Awaits => operationId'[s] # 0
    BY <1>1, <1>2 DEF IdInv
  <1>6. \A s, t \in Requests :
           operationId'[s] = operationId'[t] /\ operationId'[s] # 0 => s = t
    BY <1>1, <1>2, <1>3 DEF IdInv
  <1>7. QED
    BY <1>4, <1>5, <1>6 DEF IdInv, Awaits

\* A step that draws no id, and after which nobody is suspended who was not.
LEMMA IdStays ==
    ASSUME IdInv, UNCHANGED <<sequence, operationId>>,
           \A s \in Requests : pc'[s] \in Awaits => pc[s] \in Awaits
    PROVE  IdInv'
  BY DEF IdInv

\* Operation ids stay distinct.
LEMMA IdNext == TypeOK /\ IdInv /\ [Next]_vars => IdInv'
  <1> SUFFICES ASSUME TypeOK, IdInv, [Next]_vars PROVE IdInv'
    OBVIOUS
  <1> USE DEF TypeOK, IdInv, Awaits
  <1>1. ASSUME NEW r \in Requests, RefuseSubject(r) PROVE IdInv'
    BY <1>1 DEF RefuseSubject, Return, Err
  <1>2. ASSUME NEW r \in Requests, RefuseOperation(r) PROVE IdInv'
    BY <1>2, IdDrawn DEF RefuseOperation
  <1>3. ASSUME NEW r \in Requests, Enqueue(r) PROVE IdInv'
    BY <1>3, IdDrawn DEF Enqueue
  <1>4. ASSUME NEW r \in Requests, Acquire(r) PROVE IdInv'
    BY <1>4 DEF Acquire, wireVars
  <1>5. ASSUME NEW r \in Requests, ConnectTcp(r) PROVE IdInv'
    BY <1>5 DEF ConnectTcp, wireVars
  <1>6. ASSUME NEW r \in Requests, ConnectFails(r) PROVE IdInv'
    <2>1. /\ pc' = [pc EXCEPT ![r] = "done"]
          /\ UNCHANGED <<sequence, operationId>>
      BY <1>6 DEF ConnectFails, Return
    <2>2. \A s \in Requests : pc'[s] \in Awaits => pc[s] \in Awaits
      BY <2>1
    <2>3. QED
      BY <2>1, <2>2, IdStays
  <1>7. ASSUME NEW r \in Requests, ConnectTls(r) PROVE IdInv'
    BY <1>7 DEF ConnectTls
  <1>8. ASSUME NEW r \in Requests, Send(r) PROVE IdInv'
    BY <1>8 DEF Send, Transmit, OperationFrame
  <1>9. ASSUME NEW r \in Requests, SendFails(r) PROVE IdInv'
    BY <1>9 DEF SendFails, Return, Transmit, OperationFrame, DropConnection
  <1>10. ASSUME NEW r \in Requests, ReceiveReply(r) PROVE IdInv'
    BY <1>10 DEF ReceiveReply, Return
  <1>11. ASSUME NEW r \in Requests, ReceiveGarbage(r) PROVE IdInv'
    BY <1>11 DEF ReceiveGarbage, Return, DropConnection
  <1>12. ASSUME NEW r \in Requests, ReceiveEnd(r) PROVE IdInv'
    BY <1>12 DEF ReceiveEnd, Return
  <1>13. ASSUME NEW r \in Requests, ReceiveTimeout(r) PROVE IdInv'
    BY <1>13 DEF ReceiveTimeout, Return, DropConnection
  <1>14. ASSUME NEW r \in Requests, Cancel(r) PROVE IdInv'
    BY <1>14 DEF Cancel, Return, Transmit, OperationFrame, DropConnection
  <1>15. ASSUME NEW c \in Requests, ApiExecutes(c) PROVE IdInv'
    BY <1>15 DEF ApiExecutes, clientVars, Deliver, Replies
  <1>16. ASSUME NEW c \in Requests, ApiRefuses(c) PROVE IdInv'
    BY <1>16 DEF ApiRefuses, clientVars, Deliver, Refusal
  <1>17. ASSUME NEW c \in Requests, ApiCloses(c) PROVE IdInv'
    BY <1>17 DEF ApiCloses, clientVars
  <1>18. ASSUME NEW c \in Requests, ApiStrays(c) PROVE IdInv'
    BY <1>18 DEF ApiStrays, clientVars, Deliver
  <1>19. CASE Finished \/ UNCHANGED vars
    BY <1>19 DEF Finished, vars
  <1>20. QED
    BY <1>1, <1>2, <1>3, <1>4, <1>5, <1>6, <1>7, <1>8, <1>9, <1>10,
       <1>11, <1>12, <1>13, <1>14, <1>15, <1>16, <1>17, <1>18, <1>19
    DEF Next, RequestNext, Progress, ApiNext

\* The mutex excludes.
LEMMA LockNext == TypeOK /\ HandInv /\ LockInv /\ [Next]_vars => LockInv'
  <1> SUFFICES ASSUME TypeOK, HandInv, LockInv, [Next]_vars PROVE LockInv'
    OBVIOUS
  <1> USE DEF TypeOK, HandInv, LockInv, HoldsLock, LockedAwaits, Awaits
  <1>1. ASSUME NEW r \in Requests, RefuseSubject(r) PROVE LockInv'
    BY <1>1 DEF RefuseSubject, Return, Err
  <1>2. ASSUME NEW r \in Requests, RefuseOperation(r) PROVE LockInv'
    BY <1>2 DEF RefuseOperation, Err, wireVars
  <1>3. ASSUME NEW r \in Requests, Enqueue(r) PROVE LockInv'
    BY <1>3 DEF Enqueue, wireVars
  <1>4. ASSUME NEW r \in Requests, Acquire(r) PROVE LockInv'
    BY <1>4 DEF Acquire, wireVars
  <1>5. ASSUME NEW r \in Requests, ConnectTcp(r) PROVE LockInv'
    BY <1>5 DEF ConnectTcp, wireVars
  <1>6. ASSUME NEW r \in Requests, ConnectFails(r) PROVE LockInv'
    BY <1>6 DEF ConnectFails, Return
  <1>7. ASSUME NEW r \in Requests, ConnectTls(r) PROVE LockInv'
    BY <1>7 DEF ConnectTls
  <1>8. ASSUME NEW r \in Requests, Send(r) PROVE LockInv'
    BY <1>8 DEF Send, Transmit, OperationFrame
  <1>9. ASSUME NEW r \in Requests, SendFails(r) PROVE LockInv'
    BY <1>9 DEF SendFails, Return, Transmit, OperationFrame, DropConnection
  <1>10. ASSUME NEW r \in Requests, ReceiveReply(r) PROVE LockInv'
    BY <1>10 DEF ReceiveReply, Return
  <1>11. ASSUME NEW r \in Requests, ReceiveGarbage(r) PROVE LockInv'
    BY <1>11 DEF ReceiveGarbage, Return, DropConnection
  <1>12. ASSUME NEW r \in Requests, ReceiveEnd(r) PROVE LockInv'
    BY <1>12 DEF ReceiveEnd, Return
  <1>13. ASSUME NEW r \in Requests, ReceiveTimeout(r) PROVE LockInv'
    BY <1>13 DEF ReceiveTimeout, Return, DropConnection
  <1>14. ASSUME NEW r \in Requests, Cancel(r) PROVE LockInv'
    BY <1>14 DEF Cancel, Return, Transmit, OperationFrame, DropConnection
  <1>15. ASSUME NEW c \in Requests, ApiExecutes(c) PROVE LockInv'
    BY <1>15 DEF ApiExecutes, clientVars, Deliver, Replies
  <1>16. ASSUME NEW c \in Requests, ApiRefuses(c) PROVE LockInv'
    BY <1>16 DEF ApiRefuses, clientVars, Deliver, Refusal
  <1>17. ASSUME NEW c \in Requests, ApiCloses(c) PROVE LockInv'
    BY <1>17 DEF ApiCloses, clientVars
  <1>18. ASSUME NEW c \in Requests, ApiStrays(c) PROVE LockInv'
    BY <1>18 DEF ApiStrays, clientVars, Deliver
  <1>19. CASE Finished \/ UNCHANGED vars
    BY <1>19 DEF Finished, vars
  <1>20. QED
    BY <1>1, <1>2, <1>3, <1>4, <1>5, <1>6, <1>7, <1>8, <1>9, <1>10,
       <1>11, <1>12, <1>13, <1>14, <1>15, <1>16, <1>17, <1>18, <1>19
    DEF Next, RequestNext, Progress, ApiNext

\* Unopened and dropped connections carry nothing.
LEMMA WireNext ==
    TypeOK /\ HandInv /\ LockInv /\ WireInv /\ [Next]_vars => WireInv'
  <1> SUFFICES ASSUME TypeOK, HandInv, LockInv, WireInv, [Next]_vars PROVE WireInv'
    OBVIOUS
  <1> USE DEF TypeOK, HandInv, WireInv, Live
  <1>1. ASSUME NEW r \in Requests, RefuseSubject(r) PROVE WireInv'
    BY <1>1 DEF RefuseSubject, Return, Err
  <1>2. ASSUME NEW r \in Requests, RefuseOperation(r) PROVE WireInv'
    BY <1>2 DEF RefuseOperation, Err, wireVars
  <1>3. ASSUME NEW r \in Requests, Enqueue(r) PROVE WireInv'
    BY <1>3 DEF Enqueue, wireVars
  <1>4. ASSUME NEW r \in Requests, Acquire(r) PROVE WireInv'
    BY <1>4 DEF Acquire, wireVars
  <1>5. ASSUME NEW r \in Requests, ConnectTcp(r) PROVE WireInv'
    BY <1>5 DEF ConnectTcp, wireVars
  <1>6. ASSUME NEW r \in Requests, ConnectFails(r) PROVE WireInv'
    <2>1. hand[r] = None /\ pc[r] \in {"tcp", "tls"}
      BY <1>6 DEF ConnectFails
    <2>2. /\ hand' = [hand EXCEPT ![r] = None]
          /\ pc' = [pc EXCEPT ![r] = "done"]
          /\ UNCHANGED <<pooled, toApi, toWeb>>
      BY <1>6 DEF ConnectFails, Return
    <2>3. QED
      BY <2>1, <2>2
  <1>7. ASSUME NEW r \in Requests, ConnectTls(r) PROVE WireInv'
    BY <1>7 DEF ConnectTls
  <1>8. ASSUME NEW r \in Requests, Send(r) PROVE WireInv'
    <2> DEFINE d == hand[r]
    <2>1. d \in Requests /\ pc[r] = "sending" /\ Live(d)
      BY <1>8 DEF Send
    <2>2. /\ pc' = [pc EXCEPT ![r] = "receiving"]
          /\ UNCHANGED <<pooled, hand, toWeb>>
          /\ \A c \in Requests : c # d => toApi'[c] = toApi[c]
      BY <1>8 DEF Send, Transmit
    <2>3. \A c \in Requests : Live(c) <=> Live(c)'
      BY <2>2
    <2>4. \A c \in Requests : pc'[c] \in {"idle", "waiting", "tcp", "tls"} => pc'[c] = pc[c]
      BY <2>2
    <2>5. ASSUME NEW c \in Requests, pc'[c] \in {"idle", "waiting", "tcp", "tls"}
          PROVE  toApi'[c] = <<>> /\ toWeb'[c] = <<>> /\ ~Live(c)'
      <3>1. pc[c] \in {"idle", "waiting", "tcp", "tls"}
        BY <2>4, <2>5
      <3>2. toApi[c] = <<>> /\ toWeb[c] = <<>> /\ ~Live(c)
        BY <3>1
      <3>3. c # d
        BY <3>2, <2>1 DEF Live
      <3>4. QED
        BY <2>2, <2>3, <3>2, <3>3
    <2>6. QED
      BY <2>2, <2>3, <2>5
  <1>9. ASSUME NEW r \in Requests, SendFails(r) PROVE WireInv'
    <2> DEFINE d == hand[r]
    <2>1. d \in Requests /\ pc[r] = "sending"
      BY <1>9 DEF SendFails
    <2>2. /\ pc' = [pc EXCEPT ![r] = "done"]
          /\ hand' = [hand EXCEPT ![r] = None]
          /\ pooled' = pooled
          /\ toWeb' = [c \in Requests |-> IF c = d THEN <<>> ELSE toWeb[c]]
          /\ \A c \in Requests : c # d => toApi'[c] = toApi[c]
      BY <1>9 DEF SendFails, Return, Transmit, DropConnection
    <2>3. Live(d) /\ \A c \in Requests : c # d => (Live(c) <=> Live(c)')
      BY <2>1, <2>2
    <2>4. \A c \in Requests : pc'[c] \in {"idle", "waiting", "tcp", "tls"} => pc'[c] = pc[c]
      BY <2>2
    <2>5. ASSUME NEW c \in Requests, pc'[c] \in {"idle", "waiting", "tcp", "tls"}
          PROVE  toApi'[c] = <<>> /\ toWeb'[c] = <<>> /\ ~Live(c)'
      <3>1. pc[c] \in {"idle", "waiting", "tcp", "tls"}
        BY <2>4, <2>5
      <3>2. toApi[c] = <<>> /\ toWeb[c] = <<>> /\ ~Live(c)
        BY <3>1
      <3>3. c # d
        BY <3>2, <2>3 DEF Live
      <3>4. QED
        BY <2>2, <2>3, <3>2, <3>3
    <2>6. QED
      BY <2>2, <2>3, <2>5
  <1>10. ASSUME NEW r \in Requests, ReceiveReply(r) PROVE WireInv'
    <2> DEFINE d == hand[r]
    <2>1. d \in Requests /\ pc[r] = "receiving"
      BY <1>10 DEF ReceiveReply
    <2>2. /\ hand' = [hand EXCEPT ![r] = None]
          /\ pc' = [pc EXCEPT ![r] = "done"]
          /\ pooled' = d
          /\ toApi' = toApi
          /\ toWeb' = [toWeb EXCEPT ![d] = Tail(@)]
      BY <1>10 DEF ReceiveReply, Return
    <2>3. pooled = None
      BY <2>1 DEF LockInv, HoldsLock, LockedAwaits, Awaits
    <2>4. \A c \in Requests : (Live(c) <=> Live(c)') /\ (c # d => toWeb'[c] = toWeb[c])
      BY <2>1, <2>2, <2>3
    <2>5. Live(d)
      BY <2>1
    <2>6. QED
      BY <2>1, <2>2, <2>4, <2>5
  <1>11. ASSUME NEW r \in Requests, ReceiveGarbage(r) PROVE WireInv'
    BY <1>11 DEF ReceiveGarbage, Return, DropConnection
  <1>12. ASSUME NEW r \in Requests, ReceiveEnd(r) PROVE WireInv'
    BY <1>12 DEF ReceiveEnd, Return
  <1>13. ASSUME NEW r \in Requests, ReceiveTimeout(r) PROVE WireInv'
    BY <1>13 DEF ReceiveTimeout, Return, DropConnection
  <1>14. ASSUME NEW r \in Requests, Cancel(r) PROVE WireInv'
    BY <1>14 DEF Cancel, Return, Transmit, OperationFrame, DropConnection
  <1>15. ASSUME NEW c \in Requests, ApiExecutes(c) PROVE WireInv'
    BY <1>15 DEF ApiExecutes, clientVars, Deliver, Replies
  <1>16. ASSUME NEW c \in Requests, ApiRefuses(c) PROVE WireInv'
    BY <1>16 DEF ApiRefuses, clientVars, Deliver, Refusal
  <1>17. ASSUME NEW c \in Requests, ApiCloses(c) PROVE WireInv'
    BY <1>17 DEF ApiCloses, clientVars
  <1>18. ASSUME NEW c \in Requests, ApiStrays(c) PROVE WireInv'
    BY <1>18 DEF ApiStrays, clientVars, Deliver
  <1>19. CASE Finished \/ UNCHANGED vars
    BY <1>19 DEF Finished, vars
  <1>20. QED
    BY <1>1, <1>2, <1>3, <1>4, <1>5, <1>6, <1>7, <1>8, <1>9, <1>10,
       <1>11, <1>12, <1>13, <1>14, <1>15, <1>16, <1>17, <1>18, <1>19
    DEF Next, RequestNext, Progress, ApiNext

\* Whoever exchanges frames is alone: the Option and all other hands are empty.
LEMMA Alone ==
    ASSUME TypeOK, HandInv, LockInv, NEW r \in Requests,
           pc[r] \in {"sending", "receiving"}
    PROVE  /\ pooled = None
           /\ hand[r] \in Requests
           /\ \A s \in Requests : s # r => hand[s] = None
  BY DEF TypeOK, HandInv, LockInv, HoldsLock, LockedAwaits, Awaits

\* One more frame one way is one more frame in all.
LEMMA OneMore ==
    \A a \in Nat, b \in Nat, c \in Nat :
        c <= b + 1 => a + c <= (a + b) + 1 /\ a + c \in Nat
  OBVIOUS

\* The lag is a number.
LEMMA LagType == TypeOK => \A c \in Requests : Lag(c) \in Nat
  BY DEF TypeOK, Lag

\* A step that touches neither the wires, the Option nor the hands keeps LagInv
\* when nobody starts or stops awaiting a reply.
LEMMA LagStays ==
    ASSUME TypeOK, LagInv, UNCHANGED <<toApi, toWeb, strays, pooled>>,
           \A s \in Requests : hand'[s] # None =>
              hand'[s] = hand[s] /\ (pc'[s] = "receiving" <=> pc[s] = "receiving")
    PROVE  LagInv'
  BY DEF TypeOK, LagInv, Lag

\* A step that leaves the Option and every hand empty keeps it trivially.
LEMMA LagEmpty ==
    ASSUME pooled' = None, \A s \in Requests : hand'[s] = None
    PROVE  LagInv'
  BY DEF LagInv

\* Nor can a step break it that lets no lag grow.
LEMMA LagFalls ==
    ASSUME TypeOK, LagInv, UNCHANGED <<pooled, hand, pc, strays>>,
           \A d \in Requests : Lag(d)' <= Lag(d) /\ Lag(d)' \in Nat
    PROVE  LagInv'
  <1>1. \A d \in Requests : Lag(d) \in Nat
    BY LagType
  <1>2. QED
    BY <1>1 DEF LagInv, TypeOK

\* An answer takes the place of the frame it answers.
LEMMA AnswerLag ==
    ASSUME TypeOK, LagInv, NEW c \in Requests, NEW reply, Deliver(c, reply),
           toApi[c] # <<>>, toApi' = [toApi EXCEPT ![c] = Tail(@)],
           UNCHANGED <<pooled, hand, pc, strays>>
    PROVE  LagInv'
  <1>1. Len(toApi'[c]) = Len(toApi[c]) - 1 /\ Len(toApi'[c]) \in Nat
    BY DEF TypeOK
  <1>2. Len(toWeb'[c]) <= Len(toWeb[c]) + 1 /\ Len(toWeb'[c]) \in Nat
    BY DEF TypeOK, Deliver
  <1>3. Lag(c)' <= Lag(c) /\ Lag(c)' \in Nat
    BY <1>1, <1>2 DEF Lag, TypeOK
  <1>4. \A d \in Requests \ {c} : Lag(d)' = Lag(d)
    BY DEF Lag, Deliver, TypeOK
  <1>5. \A d \in Requests : Lag(d)' <= Lag(d) /\ Lag(d)' \in Nat
    BY <1>3, <1>4, LagType
  <1>6. QED
    BY <1>5, LagFalls

\* Returning empties the hand.
LEMMA ReturnAlone ==
    ASSUME TypeOK, HandInv, LockInv, NEW r \in Requests,
           pc[r] \in {"sending", "receiving"}, NEW o, Return(r, o)
    PROVE  \A s \in Requests : hand'[s] = None
  BY Alone DEF Return, TypeOK

\* The frames in flight are the stray ones and the one being answered.
LEMMA LagNext ==
    TypeOK /\ HandInv /\ LockInv /\ WireInv /\ LagInv /\ [Next]_vars => LagInv'
  <1> SUFFICES ASSUME TypeOK, HandInv, LockInv, WireInv, LagInv, [Next]_vars
               PROVE  LagInv'
    OBVIOUS
  <1>1. ASSUME NEW r \in Requests, RefuseSubject(r) PROVE LagInv'
    BY <1>1, LagStays DEF RefuseSubject, Return, TypeOK
  <1>2. ASSUME NEW r \in Requests, RefuseOperation(r) PROVE LagInv'
    BY <1>2, LagStays DEF RefuseOperation, wireVars, TypeOK
  <1>3. ASSUME NEW r \in Requests, Enqueue(r) PROVE LagInv'
    BY <1>3, LagStays DEF Enqueue, wireVars, TypeOK
  <1>4. ASSUME NEW r \in Requests, Acquire(r) PROVE LagInv'
    <2>1. \A s \in Requests : hand[s] = None
      BY <1>4 DEF Acquire, HandInv, HoldsLock, LockedAwaits, Awaits
    <2>2. pooled' = None /\ \A s \in Requests : hand'[s] = IF s = r THEN pooled ELSE None
      BY <1>4, <2>1 DEF Acquire, TypeOK
    <2>3. strays' = strays /\ \A c \in Requests : Lag(c)' = Lag(c)
      BY <1>4 DEF Acquire, wireVars, Lag
    <2>4. strays \in Nat /\ \A c \in Requests : Lag(c) \in Nat
      BY LagType DEF TypeOK
    <2>5. \A c \in Requests : pooled = c => Lag(c) <= strays
      BY DEF LagInv
    <2>6. \A c \in Requests : c # None
      BY NoneAssumption
    <2>7. \A c, s \in Requests : hand'[s] = c => Lag(c)' <= strays' /\ Lag(c)' <= strays' + 1
      BY <2>2, <2>3, <2>4, <2>5, <2>6
    <2>8. QED
      BY <2>2, <2>6, <2>7 DEF LagInv
  <1>5. ASSUME NEW r \in Requests, ConnectTcp(r) PROVE LagInv'
    BY <1>5, LagStays DEF ConnectTcp, wireVars, TypeOK
  <1>6. ASSUME NEW r \in Requests, ConnectFails(r) PROVE LagInv'
    BY <1>6, LagStays DEF ConnectFails, Return, TypeOK
  <1>7. ASSUME NEW r \in Requests, ConnectTls(r) PROVE LagInv'
    BY <1>7 DEF ConnectTls, TypeOK, HandInv, LockInv, WireInv, LagInv, Lag,
                HoldsLock, LockedAwaits, Awaits
  <1>8. ASSUME NEW r \in Requests, Send(r) PROVE LagInv'
    <2> DEFINE d == hand[r]
    <2>1. /\ d \in Requests /\ pooled = None
          /\ \A s \in Requests : s # r => hand[s] = None
      BY <1>8, Alone DEF Send
    <2>2. Lag(d) <= strays
      BY <1>8, <2>1 DEF Send, LagInv
    <2>3. Len(toApi'[d]) <= Len(toApi[d]) + 1 /\ Len(toApi'[d]) \in Nat
      BY <1>8, <2>1 DEF Send, Transmit, TypeOK
    <2>4. Lag(d)' <= strays + 1
      BY <1>8, <2>1, <2>2, <2>3 DEF Send, Lag, TypeOK
    <2>5. /\ UNCHANGED <<hand, pooled, strays>>
          /\ pc'[r] = "receiving"
      BY <1>8 DEF Send, TypeOK
    <2>6. QED
      BY <2>1, <2>4, <2>5 DEF LagInv
  <1>9. ASSUME NEW r \in Requests, SendFails(r) PROVE LagInv'
    BY <1>9, LagEmpty, ReturnAlone, Alone DEF SendFails
  <1>10. ASSUME NEW r \in Requests, ReceiveReply(r) PROVE LagInv'
    <2>1. \A s \in Requests : hand'[s] = None
      BY <1>10, ReturnAlone DEF ReceiveReply
    <2> PICK d \in Requests : d = hand[r]
      BY <1>10, Alone DEF ReceiveReply
    <2>2. Lag(d) <= strays + 1
      BY <1>10, <2>1 DEF ReceiveReply, LagInv
    <2>3. /\ toWeb[d] # <<>>
          /\ toWeb'[d] = Tail(toWeb[d])
          /\ pooled' = d
          /\ UNCHANGED <<toApi, strays>>
      BY <1>10, <2>1 DEF ReceiveReply, TypeOK
    <2>4. Len(toWeb'[d]) = Len(toWeb[d]) - 1
      BY <2>1, <2>3 DEF TypeOK
    <2>5. Lag(d)' <= strays
      BY <2>1, <2>2, <2>3, <2>4 DEF Lag, TypeOK
    <2>6. QED
      BY <2>1, <2>3, <2>5 DEF LagInv
  <1>11. ASSUME NEW r \in Requests, ReceiveGarbage(r) PROVE LagInv'
    BY <1>11, LagEmpty, ReturnAlone, Alone DEF ReceiveGarbage
  <1>12. ASSUME NEW r \in Requests, ReceiveEnd(r) PROVE LagInv'
    BY <1>12, LagEmpty, ReturnAlone, Alone DEF ReceiveEnd
  <1>13. ASSUME NEW r \in Requests, ReceiveTimeout(r) PROVE LagInv'
    BY <1>13, LagEmpty, ReturnAlone, Alone DEF ReceiveTimeout
  <1>14. ASSUME NEW r \in Requests, Cancel(r) PROVE LagInv'
    <2>1. CASE pc[r] \in {"sending", "receiving"}
      BY <1>14, <2>1, LagEmpty, ReturnAlone, Alone DEF Cancel
    <2>2. CASE pc[r] \in {"waiting", "tcp", "tls"}
      <3>1. hand[r] = None
        BY <2>2 DEF HandInv
      <3>2. UNCHANGED <<toApi, toWeb, strays, pooled>>
        BY <1>14, <2>2, <3>1 DEF Cancel, DropConnection, TypeOK
      <3>3. \A s \in Requests : hand'[s] # None =>
               hand'[s] = hand[s] /\ (pc'[s] = "receiving" <=> pc[s] = "receiving")
        BY <1>14 DEF Cancel, Return, TypeOK
      <3>4. QED
        BY <3>2, <3>3, LagStays
    <2>3. QED
      BY <1>14, <2>1, <2>2 DEF Cancel, Awaits
  <1>15. ASSUME NEW c \in Requests, ApiExecutes(c) PROVE LagInv'
    <2>1. PICK reply : Deliver(c, reply)
      BY <1>15 DEF ApiExecutes
    <2>2. toApi[c] # <<>> /\ toApi' = [toApi EXCEPT ![c] = Tail(@)]
      BY <1>15 DEF ApiExecutes
    <2>3. UNCHANGED <<pooled, hand, pc, strays>>
      BY <1>15 DEF ApiExecutes, clientVars
    <2>4. QED
      BY <2>1, <2>2, <2>3, AnswerLag
  <1>16. ASSUME NEW c \in Requests, ApiRefuses(c) PROVE LagInv'
    <2>1. UNCHANGED <<pooled, hand, pc, strays>>
      BY <1>16 DEF ApiRefuses, clientVars
    <2>2. QED
      BY <1>16, <2>1, AnswerLag DEF ApiRefuses
  <1>17. ASSUME NEW c \in Requests, ApiCloses(c) PROVE LagInv'
    <2>1. UNCHANGED <<pooled, hand, pc, strays, toWeb>>
      BY <1>17 DEF ApiCloses, clientVars
    <2>2. \A d \in Requests : Len(toApi'[d]) <= Len(toApi[d]) /\ Len(toApi'[d]) \in Nat
      BY <1>17 DEF ApiCloses, TypeOK
    <2>3. \A d \in Requests : Lag(d)' <= Lag(d) /\ Lag(d)' \in Nat
      BY <2>1, <2>2 DEF Lag, TypeOK
    <2>4. QED
      BY <2>1, <2>3, LagFalls
  <1>18. ASSUME NEW c \in Requests, ApiStrays(c) PROVE LagInv'
    <2>1. PICK reply : Deliver(c, reply)
      BY <1>18 DEF ApiStrays
    <2>2. /\ pooled' = pooled /\ hand' = hand /\ pc' = pc /\ toApi' = toApi
          /\ strays' = strays + 1 /\ strays \in Nat
      BY <1>18 DEF ApiStrays, clientVars, TypeOK
    <2>3. ASSUME NEW d \in Requests PROVE Lag(d)' <= Lag(d) + 1 /\ Lag(d)' \in Nat
      <3>1. Len(toWeb'[d]) <= Len(toWeb[d]) + 1 /\ Len(toWeb'[d]) \in Nat
        BY <2>1 DEF Deliver, TypeOK
      <3>2. Len(toWeb[d]) \in Nat /\ Len(toApi[d]) \in Nat
        BY DEF TypeOK
      <3>3. Len(toApi'[d]) = Len(toApi[d])
        BY <2>2
      <3>4. QED
        BY <3>1, <3>2, <3>3, OneMore DEF Lag
    <2>4. \A d \in Requests : Lag(d)' <= Lag(d) + 1 /\ Lag(d)' \in Nat
      BY <2>3
    <2>5. \A d \in Requests : Lag(d) \in Nat
      BY LagType
    <2>6. QED
      BY <2>2, <2>4, <2>5 DEF LagInv
  <1>19. CASE Finished \/ UNCHANGED vars
    BY <1>19, LagStays DEF Finished, vars
  <1>20. QED
    BY <1>1, <1>2, <1>3, <1>4, <1>5, <1>6, <1>7, <1>8, <1>9, <1>10,
       <1>11, <1>12, <1>13, <1>14, <1>15, <1>16, <1>17, <1>18, <1>19
    DEF Next, RequestNext, Progress, ApiNext

-------------------------------------------------------------------------------
\* What Tail and Append do to the positions of a sequence.
LEMMA TailIndex ==
    ASSUME NEW S, NEW q \in Seq(S), q # <<>>, NEW i \in 1 .. Len(Tail(q))
    PROVE  i + 1 \in 1 .. Len(q) /\ Tail(q)[i] = q[i + 1]
  OBVIOUS

\* An element of a queue after a push is an old one or the one pushed.
LEMMA AppendIndex ==
    ASSUME NEW S, NEW q \in Seq(S), NEW e, NEW i \in 1 .. Len(Append(q, e))
    PROVE  \/ i \in 1 .. Len(q) /\ Append(q, e)[i] = q[i]
           \/ i = Len(q) + 1 /\ Append(q, e)[i] = e
  OBVIOUS

\* The types of single frames and replies.
LEMMA FrameType ==
    TypeOK => \A c \in Requests : \A i \in 1 .. Len(toApi[c]) :
                 toApi[c][i].bearer \in Requests
  <1> SUFFICES ASSUME TypeOK, NEW c \in Requests, NEW i \in 1 .. Len(toApi[c])
               PROVE  toApi[c][i].bearer \in Requests
    OBVIOUS
  <1>1. toApi[c] \in Seq(Frames)
    BY DEF TypeOK
  <1>2. toApi[c][i] \in Frames
    BY <1>1
  <1>3. QED
    BY <1>2 DEF Frames

\* An answer on a wire names a request or nobody as the owner of its data.
LEMMA ReplyType ==
    TypeOK => \A c \in Requests : \A i \in 1 .. Len(toWeb[c]) :
                 toWeb[c][i].owner \in Requests \cup {None}
  <1> SUFFICES ASSUME TypeOK, NEW c \in Requests, NEW i \in 1 .. Len(toWeb[c])
               PROVE  toWeb[c][i].owner \in Requests \cup {None}
    OBVIOUS
  <1>1. toWeb[c] \in Seq(ReplyFrames)
    BY DEF TypeOK
  <1>2. toWeb[c][i] \in ReplyFrames
    BY <1>1
  <1>3. QED
    BY <1>2 DEF ReplyFrames

\* Requests that have sent their frame stay that way and keep their id.
Settled == \A s \in Requests : pc[s] \in {"receiving", "done"} =>
               operationId'[s] = operationId[s] /\ pc'[s] \in {"receiving", "done"}

\* No two frames in flight belong to one request.
LEMMA FrameSingle ==
    FrameInv => \A x, y \in Requests :
                   \A m \in 1 .. Len(toApi[x]), n \in 1 .. Len(toApi[y]) :
                      toApi[x][m].bearer = toApi[y][n].bearer => x = y /\ m = n
  BY DEF FrameInv

\* A step that leaves the frames in flight alone.
LEMMA FrameStays ==
    ASSUME TypeOK, FrameInv, Settled, toApi' = toApi, executed' = executed
    PROVE  FrameInv'
  BY FrameType DEF FrameInv, Unserved, Settled

\* A request transmits its only frame.
LEMMA FrameTransmit ==
    ASSUME TypeOK, FrameInv, Settled, NEW r \in Requests, Transmit(r),
           hand[r] \in Requests, pc[r] = "sending", operationId[r] # 0,
           executed[r] = 0, executed' = executed,
           operationId' = operationId, pc'[r] \in {"receiving", "done"}
    PROVE  FrameInv'
  <1> DEFINE f == OperationFrame(r)
  <1>1. \A c \in Requests : \A i \in 1 .. Len(toApi[c]) :
           toApi[c][i].bearer \in Requests \ {r}
    BY FrameType DEF FrameInv, Unserved
  <1>2. CASE apiOpen[hand[r]]
    <2> PICK d \in Requests : d = hand[r]
      OBVIOUS
    <2>1. toApi' = [toApi EXCEPT ![d] = Append(toApi[d], f)]
      BY <1>2 DEF Transmit
    <2>2. \A c \in Requests : c # d => toApi'[c] = toApi[c]
      BY <2>1 DEF TypeOK
    <2>3. toApi'[d] = Append(toApi[d], f) /\ toApi[d] \in Seq(Frames)
      BY <2>1 DEF TypeOK
    <2>4. \A c \in Requests : \A i \in 1 .. Len(toApi'[c]) :
             \/ i \in 1 .. Len(toApi[c]) /\ toApi'[c][i] = toApi[c][i]
             \/ c = d /\ i = Len(toApi[d]) + 1 /\ toApi'[c][i] = f
      <3>1. ASSUME NEW i \in 1 .. Len(toApi'[d])
            PROVE  \/ i \in 1 .. Len(toApi[d]) /\ toApi'[d][i] = toApi[d][i]
                   \/ i = Len(toApi[d]) + 1 /\ toApi'[d][i] = f
        BY <2>3, AppendIndex
      <3>2. QED
        BY <2>2, <3>1
    <2>5. f.bearer = r /\ f.id = operationId[r]
      BY DEF OperationFrame
    <2>6. \A c \in Requests : \A i \in 1 .. Len(toApi'[c]) : Unserved(toApi[c][i])'
      <3>1. Unserved(f)'
        BY <2>5 DEF Unserved, OperationFrame
      <3>2. ASSUME NEW c \in Requests, NEW i \in 1 .. Len(toApi[c])
            PROVE  LET g == toApi[c][i]
                   IN  /\ g.id = operationId'[g.bearer] /\ g.id # 0
                       /\ executed'[g.bearer] = 0
                       /\ pc'[g.bearer] \in {"receiving", "done"}
        <4> DEFINE b == toApi[c][i].bearer
        <4>1. b \in Requests /\ Unserved(toApi[c][i])
          BY <1>1 DEF FrameInv
        <4>2. operationId'[b] = operationId[b] /\ pc'[b] \in {"receiving", "done"}
          BY <4>1 DEF Unserved, Settled
        <4>3. QED
          BY <4>1, <4>2 DEF Unserved
      <3>3. ASSUME NEW c \in Requests, NEW i \in 1 .. Len(toApi'[c])
            PROVE  Unserved(toApi[c][i])'
        <4>1. CASE i \in 1 .. Len(toApi[c]) /\ toApi'[c][i] = toApi[c][i]
          BY <3>2, <4>1 DEF Unserved
        <4>2. CASE toApi'[c][i] = f
          BY <3>1, <4>2 DEF Unserved, OperationFrame
        <4>3. QED
          BY <2>4, <4>1, <4>2
      <3>4. QED
        BY <3>3
    <2>7. ASSUME NEW c \in Requests, NEW e \in Requests,
                 NEW i \in 1 .. Len(toApi'[c]), NEW j \in 1 .. Len(toApi'[e]),
                 toApi'[c][i].bearer = toApi'[e][j].bearer
          PROVE  c = e /\ i = j
      <3>2. CASE toApi'[c][i].bearer = r
        <4>1. c = d /\ i = Len(toApi[d]) + 1
          <5>1. CASE i \in 1 .. Len(toApi[c]) /\ toApi'[c][i] = toApi[c][i]
            <6>1. toApi[c][i].bearer # r
              BY <1>1, <5>1
            <6>2. QED
              BY <3>2, <5>1, <6>1
          <5>2. QED
            BY <2>4, <5>1
        <4> toApi'[e][j].bearer = r
          BY <2>7, <3>2
        <4>2. e = d /\ j = Len(toApi[d]) + 1
          <5>1. CASE j \in 1 .. Len(toApi[e]) /\ toApi'[e][j] = toApi[e][j]
            <6>1. toApi[e][j].bearer # r
              BY <1>1, <5>1
            <6>2. QED
              BY <5>1, <6>1
          <5>2. QED
            BY <2>4, <5>1
        <4>3. QED
          BY <4>1, <4>2
      <3>3. CASE toApi'[c][i].bearer # r
        <4>1. i \in 1 .. Len(toApi[c]) /\ toApi'[c][i] = toApi[c][i]
          BY <2>4, <2>5, <3>3
        <4> toApi'[e][j].bearer # r
          BY <2>7, <3>3
        <4>2. j \in 1 .. Len(toApi[e]) /\ toApi'[e][j] = toApi[e][j]
          <5>1. CASE toApi'[e][j] = f
            BY <2>5, <5>1
          <5>2. QED
            BY <2>4, <5>1
        <4>3. QED
          BY <2>7, <4>1, <4>2, FrameSingle
      <3>4. QED
        BY <3>2, <3>3
    <2>8. QED
      BY <2>6, <2>7 DEF FrameInv
  <1>3. CASE ~apiOpen[hand[r]]
    BY <1>3, FrameStays DEF Transmit, TypeOK
  <1>4. QED
    BY <1>2, <1>3

\* The API takes the first frame of a connection; whether it executes it or not,
\* the frames left in flight are other requests'.
LEMMA FrameTaken ==
    ASSUME TypeOK, FrameInv, NEW c \in Requests, toApi[c] # <<>>,
           toApi' = [toApi EXCEPT ![c] = Tail(@)], pc' = pc,
           operationId' = operationId,
           \A s \in Requests : s # Head(toApi[c]).bearer => executed'[s] = executed[s]
    PROVE  FrameInv'
  <1> DEFINE f == Head(toApi[c])
  <1>1. toApi[c] \in Seq(Frames) /\ f = toApi[c][1] /\ 1 \in 1 .. Len(toApi[c])
    BY DEF TypeOK
  <1>2. toApi'[c] = Tail(toApi[c]) /\ \A d \in Requests : d # c => toApi'[d] = toApi[d]
    BY DEF TypeOK
  <1>3. \A i \in 1 .. Len(toApi'[c]) :
           i + 1 \in 1 .. Len(toApi[c]) /\ toApi'[c][i] = toApi[c][i + 1] /\ i \in Nat
    <2> SUFFICES ASSUME NEW i \in 1 .. Len(Tail(toApi[c]))
                 PROVE  /\ i + 1 \in 1 .. Len(toApi[c])
                        /\ Tail(toApi[c])[i] = toApi[c][i + 1] /\ i \in Nat
      BY <1>2
    <2>1. Len(Tail(toApi[c])) \in Nat
      BY <1>1
    <2>2. QED
      BY <1>1, <2>1, TailIndex
  <1>4. \A d \in Requests : \A i \in 1 .. Len(toApi'[d]) :
           /\ toApi'[d][i].bearer \in Requests
           /\ toApi'[d][i].bearer # f.bearer
    <2>1. \A d \in Requests : \A i \in 1 .. Len(toApi[d]) : toApi[d][i].bearer \in Requests
      BY FrameType
    <2>2. \A d \in Requests : \A i \in 1 .. Len(toApi[d]) :
             toApi[d][i].bearer = f.bearer => d = c /\ i = 1
      BY <1>1 DEF FrameInv
    <2>3. \A i \in 1 .. Len(toApi'[c]) : i + 1 # 1
      BY <1>3
    <2>4. QED
      BY <1>2, <1>3, <2>1, <2>2, <2>3
  <1>5. \A d \in Requests : \A i \in 1 .. Len(toApi'[d]) :
           \E j \in 1 .. Len(toApi[d]) : toApi'[d][i] = toApi[d][j]
    BY <1>2, <1>3
  <1>6. \A d \in Requests : \A i \in 1 .. Len(toApi'[d]) : Unserved(toApi[d][i])'
    <2> SUFFICES ASSUME NEW d \in Requests, NEW i \in 1 .. Len(toApi'[d])
                 PROVE  Unserved(toApi[d][i])'
      OBVIOUS
    <2>1. PICK j \in 1 .. Len(toApi[d]) : toApi'[d][i] = toApi[d][j]
      BY <1>5
    <2>2. Unserved(toApi[d][j])
      BY DEF FrameInv
    <2>3. executed'[toApi'[d][i].bearer] = executed[toApi'[d][i].bearer]
      BY <1>4
    <2>4. QED
      BY <2>1, <2>2, <2>3 DEF Unserved
  <1>7. ASSUME NEW d \in Requests, NEW e \in Requests,
               NEW i \in 1 .. Len(toApi'[d]), NEW j \in 1 .. Len(toApi'[e]),
               toApi'[d][i].bearer = toApi'[e][j].bearer
        PROVE  d = e /\ i = j
    <2>1. \A x, y \in Requests :
             \A m \in 1 .. Len(toApi[x]), n \in 1 .. Len(toApi[y]) :
                toApi[x][m].bearer = toApi[y][n].bearer => x = y /\ m = n
      BY FrameSingle
    <2>2. i \in Nat /\ j \in Nat
      <3>1. \A b \in Requests : toApi'[b] \in Seq(Frames)
        BY <1>1, <1>2 DEF TypeOK
      <3>2. QED
        BY <3>1
    <2>3. CASE d = c /\ e = c
      <3>1. i + 1 = j + 1
        BY <1>3, <1>7, <2>1, <2>3
      <3>2. QED
        BY <2>2, <2>3, <3>1
    <2>4. CASE d = c /\ e # c
      BY <1>2, <1>3, <1>7, <2>1, <2>2, <2>4
    <2>5. CASE d # c /\ e = c
      BY <1>2, <1>3, <1>7, <2>1, <2>2, <2>5
    <2>6. CASE d # c /\ e # c
      BY <1>2, <1>7, <2>1, <2>6
    <2>7. QED
      BY <2>3, <2>4, <2>5, <2>6
  <1>8. QED
    BY <1>6, <1>7 DEF FrameInv

\* Frames in flight stay unexecuted, sent and single.
LEMMA FrameNext ==
    TypeOK /\ HandInv /\ IdInv /\ LockInv /\ FrameInv /\ ExecInv /\ [Next]_vars
       => FrameInv'
  <1> SUFFICES ASSUME TypeOK, HandInv, IdInv, LockInv, FrameInv, ExecInv, [Next]_vars
               PROVE  FrameInv'
    OBVIOUS
  <1>0. ASSUME NEW r \in Requests, NEW o, Return(r, o) PROVE Settled
    BY <1>0 DEF Return, Settled, TypeOK
  <1>1. ASSUME NEW r \in Requests, RefuseSubject(r) PROVE FrameInv'
    BY <1>1, <1>0, FrameStays DEF RefuseSubject
  <1>2. ASSUME NEW r \in Requests, RefuseOperation(r) PROVE FrameInv'
    BY <1>2, FrameStays DEF RefuseOperation, Settled, TypeOK, wireVars
  <1>3. ASSUME NEW r \in Requests, Enqueue(r) PROVE FrameInv'
    BY <1>3, FrameStays DEF Enqueue, Settled, TypeOK, wireVars
  <1>4. ASSUME NEW r \in Requests, Acquire(r) PROVE FrameInv'
    BY <1>4, FrameStays DEF Acquire, Settled, TypeOK, wireVars
  <1>5. ASSUME NEW r \in Requests, ConnectTcp(r) PROVE FrameInv'
    BY <1>5, FrameStays DEF ConnectTcp, Settled, TypeOK, wireVars
  <1>6. ASSUME NEW r \in Requests, ConnectFails(r) PROVE FrameInv'
    BY <1>6, <1>0, FrameStays DEF ConnectFails
  <1>7. ASSUME NEW r \in Requests, ConnectTls(r) PROVE FrameInv'
    BY <1>7, FrameStays DEF ConnectTls, Settled, TypeOK
  <1>8. ASSUME NEW r \in Requests, Send(r) PROVE FrameInv'
    <2>1. /\ pc[r] = "sending" /\ operationId[r] # 0 /\ executed[r] = 0
          /\ hand[r] \in Requests
      BY <1>8 DEF Send, IdInv, ExecInv, HandInv, Awaits, TypeOK
    <2>2. Settled /\ pc'[r] = "receiving"
      BY <1>8 DEF Send, Settled, TypeOK
    <2>3. QED
      BY <1>8, <2>1, <2>2, FrameTransmit DEF Send
  <1>9. ASSUME NEW r \in Requests, SendFails(r) PROVE FrameInv'
    <2>1. /\ pc[r] = "sending" /\ operationId[r] # 0 /\ executed[r] = 0
          /\ hand[r] \in Requests
      BY <1>9 DEF SendFails, IdInv, ExecInv, HandInv, Awaits, TypeOK
    <2>2. Settled /\ pc'[r] = "done" /\ operationId' = operationId
      BY <1>9, <1>0 DEF SendFails, Return, TypeOK
    <2>3. QED
      BY <1>9, <2>1, <2>2, FrameTransmit, FrameStays DEF SendFails
  <1>10. ASSUME NEW r \in Requests, ReceiveReply(r) PROVE FrameInv'
    BY <1>10, <1>0, FrameStays DEF ReceiveReply
  <1>11. ASSUME NEW r \in Requests, ReceiveGarbage(r) PROVE FrameInv'
    BY <1>11, <1>0, FrameStays DEF ReceiveGarbage
  <1>12. ASSUME NEW r \in Requests, ReceiveEnd(r) PROVE FrameInv'
    BY <1>12, <1>0, FrameStays DEF ReceiveEnd
  <1>13. ASSUME NEW r \in Requests, ReceiveTimeout(r) PROVE FrameInv'
    BY <1>13, <1>0, FrameStays DEF ReceiveTimeout
  <1>14. ASSUME NEW r \in Requests, Cancel(r) PROVE FrameInv'
    <2>1. Settled /\ pc'[r] = "done" /\ operationId' = operationId /\ executed' = executed
      BY <1>14, <1>0 DEF Cancel, Return, TypeOK
    <2>2. CASE UNCHANGED toApi
      BY <2>1, <2>2, FrameStays
    <2>3. CASE pc[r] = "sending" /\ Transmit(r)
      <3>1. operationId[r] # 0 /\ executed[r] = 0 /\ hand[r] \in Requests
        BY <2>3 DEF IdInv, ExecInv, HandInv, Awaits, TypeOK
      <3>2. QED
        BY <2>1, <2>3, <3>1, FrameTransmit
    <2>4. QED
      BY <1>14, <2>2, <2>3 DEF Cancel
  <1>15. ASSUME NEW c \in Requests, ApiExecutes(c) PROVE FrameInv'
    <2>1. /\ toApi[c] # <<>> /\ toApi' = [toApi EXCEPT ![c] = Tail(@)]
          /\ pc' = pc /\ operationId' = operationId
      BY <1>15 DEF ApiExecutes, clientVars
    <2>2. \A s \in Requests : s # Head(toApi[c]).bearer => executed'[s] = executed[s]
      BY <1>15 DEF ApiExecutes, TypeOK
    <2>3. QED
      BY <2>1, <2>2, FrameTaken
  <1>16. ASSUME NEW c \in Requests, ApiRefuses(c) PROVE FrameInv'
    BY <1>16, FrameTaken DEF ApiRefuses, clientVars
  <1>17. ASSUME NEW c \in Requests, ApiCloses(c) PROVE FrameInv'
    <2>1. /\ \A d \in Requests : d # c => toApi'[d] = toApi[d]
          /\ toApi'[c] = <<>>
          /\ pc' = pc /\ operationId' = operationId /\ executed' = executed
      BY <1>17 DEF ApiCloses, clientVars, TypeOK
    <2>2. \A d \in Requests : \A i \in 1 .. Len(toApi'[d]) :
             d # c /\ toApi'[d] = toApi[d]
      BY <2>1
    <2>3. \A d \in Requests : \A i \in 1 .. Len(toApi'[d]) : Unserved(toApi[d][i])'
      <3> SUFFICES ASSUME NEW d \in Requests, NEW i \in 1 .. Len(toApi'[d])
                   PROVE  Unserved(toApi[d][i])'
        OBVIOUS
      <3>1. toApi'[d] = toApi[d] /\ Unserved(toApi[d][i])
        BY <2>2 DEF FrameInv
      <3>2. toApi'[d][i] = toApi[d][i]
        BY <3>1
      <3>3. QED
        BY <2>1, <3>1, <3>2 DEF Unserved
    <2>4. \A x, y \in Requests :
             \A m \in 1 .. Len(toApi'[x]), n \in 1 .. Len(toApi'[y]) :
                toApi'[x][m].bearer = toApi'[y][n].bearer => x = y /\ m = n
      <3> SUFFICES ASSUME NEW x \in Requests, NEW y \in Requests,
                          NEW m \in 1 .. Len(toApi'[x]), NEW n \in 1 .. Len(toApi'[y]),
                          toApi'[x][m].bearer = toApi'[y][n].bearer
                   PROVE  x = y /\ m = n
        OBVIOUS
      <3>1. toApi'[x] = toApi[x] /\ toApi'[y] = toApi[y]
        BY <2>2
      <3>2. QED
        BY <3>1, FrameSingle
    <2>5. QED
      BY <2>3, <2>4 DEF FrameInv
  <1>18. ASSUME NEW c \in Requests, ApiStrays(c) PROVE FrameInv'
    BY <1>18, FrameStays DEF ApiStrays, clientVars, Settled
  <1>19. CASE Finished \/ UNCHANGED vars
    BY <1>19, FrameStays DEF Finished, vars, Settled
  <1>20. QED
    BY <1>1, <1>2, <1>3, <1>4, <1>5, <1>6, <1>7, <1>8, <1>9, <1>10,
       <1>11, <1>12, <1>13, <1>14, <1>15, <1>16, <1>17, <1>18, <1>19
    DEF Next, RequestNext, Progress, ApiNext

-------------------------------------------------------------------------------
\* A request the API has executed keeps its operation id, and stays executed.
ExecutedStays ==
    \A s \in Requests : executed[s] = 1 =>
        operationId'[s] = operationId[s] /\ executed'[s] = 1

\* A step that delivers nothing keeps ReplyInv: it only drops, or takes the first
\* reply of a connection.
LEMMA ReplyStays ==
    ASSUME TypeOK, ReplyInv, ExecutedStays,
           \A c \in Requests : \/ toWeb'[c] = toWeb[c]
                               \/ toWeb'[c] = <<>>
                               \/ toWeb[c] # <<>> /\ toWeb'[c] = Tail(toWeb[c])
    PROVE  ReplyInv'
  <1>1. \A c \in Requests : toWeb[c] \in Seq(ReplyFrames)
    BY DEF TypeOK
  <1>2. \A c \in Requests : \A i \in 1 .. Len(toWeb'[c]) :
           \E j \in 1 .. Len(toWeb[c]) : toWeb'[c][i] = toWeb[c][j]
    <2> SUFFICES ASSUME NEW c \in Requests, NEW i \in 1 .. Len(toWeb'[c])
                 PROVE  \E j \in 1 .. Len(toWeb[c]) : toWeb'[c][i] = toWeb[c][j]
      OBVIOUS
    <2>1. CASE toWeb'[c] = toWeb[c]
      BY <2>1
    <2>2. CASE toWeb'[c] = <<>>
      BY <2>2
    <2>3. CASE toWeb[c] # <<>> /\ toWeb'[c] = Tail(toWeb[c])
      BY <2>3, <1>1, TailIndex
    <2>4. QED
      BY <2>1, <2>2, <2>3
  <1>3. \A c \in Requests : \A j \in 1 .. Len(toWeb[c]) :
           toWeb[c][j].owner \in Requests \cup {None}
    BY ReplyType
  <1>4. \A c \in Requests : \A j \in 1 .. Len(toWeb[c]) :
           LET reply == toWeb[c][j]
           IN  /\ reply.owner = None => reply.id = 0 /\ reply.kind = "error"
               /\ reply.owner # None => /\ reply.id = operationId'[reply.owner]
                                        /\ reply.id # 0
                                        /\ executed'[reply.owner] = 1
    BY <1>3 DEF ReplyInv, Truthful, ExecutedStays
  <1>5. ASSUME NEW c \in Requests, NEW i \in 1 .. Len(toWeb'[c])
        PROVE  Truthful(toWeb[c][i])'
    <2>1. PICK j \in 1 .. Len(toWeb[c]) : toWeb'[c][i] = toWeb[c][j]
      BY <1>2
    <2>2. QED
      BY <1>4, <2>1 DEF Truthful
  <1>6. QED
    BY <1>5 DEF ReplyInv

\* A reply that belongs to an executed request, or to nobody, may be delivered.
LEMMA ReplyDelivered ==
    ASSUME TypeOK, ReplyInv, ExecutedStays, NEW c \in Requests,
           NEW reply \in ReplyFrames, Deliver(c, reply),
           Truthful(reply)'
    PROVE  ReplyInv'
  <1>1. \A d \in Requests : toWeb[d] \in Seq(ReplyFrames)
    BY DEF TypeOK
  <1>2. \A d \in Requests : toWeb'[d] = toWeb[d] \/ toWeb'[d] = Append(toWeb[d], reply)
    BY DEF Deliver, TypeOK
  <1>3. \A d \in Requests : \A i \in 1 .. Len(toWeb'[d]) :
           \/ toWeb'[d][i] = reply
           \/ \E j \in 1 .. Len(toWeb[d]) : toWeb'[d][i] = toWeb[d][j]
    <2> SUFFICES ASSUME NEW d \in Requests, NEW i \in 1 .. Len(toWeb'[d])
                 PROVE  \/ toWeb'[d][i] = reply
                        \/ \E j \in 1 .. Len(toWeb[d]) : toWeb'[d][i] = toWeb[d][j]
      OBVIOUS
    <2>1. CASE toWeb'[d] = toWeb[d]
      BY <2>1
    <2>2. CASE toWeb'[d] = Append(toWeb[d], reply)
      BY <2>2, <1>1, AppendIndex
    <2>3. QED
      BY <1>2, <2>1, <2>2
  <1>4. \A d \in Requests : \A j \in 1 .. Len(toWeb[d]) :
           toWeb[d][j].owner \in Requests \cup {None}
    BY ReplyType
  <1>5. \A d \in Requests : \A j \in 1 .. Len(toWeb[d]) :
           LET other == toWeb[d][j]
           IN  /\ other.owner = None => other.id = 0 /\ other.kind = "error"
               /\ other.owner # None => /\ other.id = operationId'[other.owner]
                                        /\ other.id # 0
                                        /\ executed'[other.owner] = 1
    BY <1>4 DEF ReplyInv, Truthful, ExecutedStays
  <1>6. ASSUME NEW d \in Requests, NEW i \in 1 .. Len(toWeb'[d])
        PROVE  Truthful(toWeb[d][i])'
    <2>1. CASE toWeb'[d][i] = reply
      BY <2>1 DEF Truthful
    <2>2. CASE \E j \in 1 .. Len(toWeb[d]) : toWeb'[d][i] = toWeb[d][j]
      BY <1>5, <2>2 DEF Truthful
    <2>3. QED
      BY <1>3, <2>1, <2>2
  <1>7. QED
    BY <1>6 DEF ReplyInv

\* Replies in flight stay true to the request whose data they hold.
LEMMA ReplyNext ==
    TypeOK /\ HandInv /\ FrameInv /\ ReplyInv /\ ExecInv /\ [Next]_vars => ReplyInv'
  <1> SUFFICES ASSUME TypeOK, HandInv, FrameInv, ReplyInv, ExecInv, [Next]_vars
               PROVE  ReplyInv'
    OBVIOUS
  <1>0. ASSUME NEW r \in Requests, NEW o, Return(r, o), executed' = executed
        PROVE  ExecutedStays
    BY <1>0 DEF Return, ExecutedStays
  <1>1. ASSUME NEW r \in Requests, RefuseSubject(r) PROVE ReplyInv'
    BY <1>1, <1>0, ReplyStays DEF RefuseSubject
  <1>2. ASSUME NEW r \in Requests, RefuseOperation(r) PROVE ReplyInv'
    BY <1>2, ReplyStays DEF RefuseOperation, ExecutedStays, ExecInv, TypeOK, wireVars
  <1>3. ASSUME NEW r \in Requests, Enqueue(r) PROVE ReplyInv'
    BY <1>3, ReplyStays DEF Enqueue, ExecutedStays, ExecInv, TypeOK, wireVars
  <1>4. ASSUME NEW r \in Requests, Acquire(r) PROVE ReplyInv'
    BY <1>4, ReplyStays DEF Acquire, ExecutedStays, wireVars
  <1>5. ASSUME NEW r \in Requests, ConnectTcp(r) PROVE ReplyInv'
    BY <1>5, ReplyStays DEF ConnectTcp, ExecutedStays, wireVars
  <1>6. ASSUME NEW r \in Requests, ConnectFails(r) PROVE ReplyInv'
    BY <1>6, <1>0, ReplyStays DEF ConnectFails
  <1>7. ASSUME NEW r \in Requests, ConnectTls(r) PROVE ReplyInv'
    BY <1>7, ReplyStays DEF ConnectTls, ExecutedStays
  <1>8. ASSUME NEW r \in Requests, Send(r) PROVE ReplyInv'
    BY <1>8, ReplyStays DEF Send, ExecutedStays
  <1>9. ASSUME NEW r \in Requests, SendFails(r) PROVE ReplyInv'
    BY <1>9, <1>0, ReplyStays DEF SendFails, DropConnection
  <1>10. ASSUME NEW r \in Requests, ReceiveReply(r) PROVE ReplyInv'
    BY <1>10, <1>0, ReplyStays DEF ReceiveReply, TypeOK
  <1>11. ASSUME NEW r \in Requests, ReceiveGarbage(r) PROVE ReplyInv'
    BY <1>11, <1>0, ReplyStays DEF ReceiveGarbage, DropConnection
  <1>12. ASSUME NEW r \in Requests, ReceiveEnd(r) PROVE ReplyInv'
    BY <1>12, <1>0, ReplyStays DEF ReceiveEnd
  <1>13. ASSUME NEW r \in Requests, ReceiveTimeout(r) PROVE ReplyInv'
    BY <1>13, <1>0, ReplyStays DEF ReceiveTimeout, DropConnection
  <1>14. ASSUME NEW r \in Requests, Cancel(r) PROVE ReplyInv'
    BY <1>14, <1>0, ReplyStays DEF Cancel, DropConnection
  <1>15. ASSUME NEW c \in Requests, ApiExecutes(c) PROVE ReplyInv'
    <2> DEFINE f == Head(toApi[c])
    <2>1. toApi[c] \in Seq(Frames) /\ toApi[c] # <<>>
      BY <1>15 DEF ApiExecutes, TypeOK
    <2>2. f \in Frames /\ f = toApi[c][1] /\ 1 \in 1 .. Len(toApi[c])
      BY <2>1
    <2>3. /\ f.bearer \in Requests /\ f.bearer # None /\ f.id \in Nat
          /\ f.id = operationId[f.bearer] /\ f.id # 0 /\ executed[f.bearer] = 0
      BY <2>2 DEF FrameInv, Unserved, Frames
    <2>4. /\ executed' = [executed EXCEPT ![f.bearer] = @ + 1]
          /\ operationId' = operationId
      BY <1>15 DEF ApiExecutes, clientVars
    <2>5. executed'[f.bearer] = 1
      BY <2>3, <2>4 DEF TypeOK
    <2>6. ExecutedStays
      BY <2>3, <2>4, <2>5 DEF ExecutedStays, TypeOK
    <2>7. PICK reply \in Replies(f) : Deliver(c, reply)
      BY <1>15 DEF ApiExecutes
    <2>8. reply \in ReplyFrames /\ reply.owner = f.bearer /\ reply.id = f.id
      BY <2>3, <2>7 DEF Replies, ReplyFrames
    <2>9. Truthful(reply)'
      BY <2>3, <2>4, <2>5, <2>8 DEF Truthful
    <2>10. QED
      BY <2>6, <2>7, <2>8, <2>9, ReplyDelivered
  <1>16. ASSUME NEW c \in Requests, ApiRefuses(c) PROVE ReplyInv'
    <2>1. Refusal \in ReplyFrames /\ Truthful(Refusal)'
      BY DEF Refusal, ReplyFrames, Truthful
    <2>2. QED
      BY <1>16, <2>1, ReplyDelivered DEF ApiRefuses, ExecutedStays, clientVars
  <1>17. ASSUME NEW c \in Requests, ApiCloses(c) PROVE ReplyInv'
    BY <1>17, ReplyStays DEF ApiCloses, ExecutedStays, clientVars
  <1>18. ASSUME NEW c \in Requests, ApiStrays(c) PROVE ReplyInv'
    <2>1. PICK r \in Requests :
             /\ executed[r] > 0
             /\ Deliver(c, [id |-> operationId[r], owner |-> r, kind |-> "result"])
      BY <1>18 DEF ApiStrays
    <2>2. executed[r] = 1 /\ operationId[r] # 0
      BY <2>1 DEF ExecInv
    <2>3. PICK reply \in ReplyFrames :
             /\ reply = [id |-> operationId[r], owner |-> r, kind |-> "result"]
             /\ reply.owner = r /\ reply.id = operationId[r] /\ r # None
      <3>1. [id |-> operationId[r], owner |-> r, kind |-> "result"] \in ReplyFrames
        BY DEF ReplyFrames, TypeOK
      <3>2. QED
        BY <3>1
    <2>4. operationId' = operationId /\ executed' = executed
      BY <1>18 DEF ApiStrays, clientVars
    <2>5. ExecutedStays
      BY <2>4 DEF ExecutedStays
    <2>6. Deliver(c, reply)
      BY <2>1, <2>3
    <2>7. Truthful(reply)'
      BY <2>2, <2>3, <2>4 DEF Truthful
    <2>8. QED
      BY <2>3, <2>5, <2>6, <2>7, ReplyDelivered
  <1>19. CASE Finished \/ UNCHANGED vars
    BY <1>19, ReplyStays DEF Finished, vars, ExecutedStays
  <1>20. QED
    BY <1>1, <1>2, <1>3, <1>4, <1>5, <1>6, <1>7, <1>8, <1>9, <1>10,
       <1>11, <1>12, <1>13, <1>14, <1>15, <1>16, <1>17, <1>18, <1>19
    DEF Next, RequestNext, Progress, ApiNext

-------------------------------------------------------------------------------
\* A caller only gets a projection from a reply that answers its own operation.
LEMMA InterpretOwn ==
    ASSUME TypeOK, IdInv, ReplyInv, NEW r \in Requests, operationId[r] # 0,
           NEW c \in Requests, toWeb[c] # <<>>
    PROVE  LET o == Interpret(r, Head(toWeb[c]))
           IN  IF o.tag = "Projection" THEN o.owner = r /\ executed[r] = 1
                                       ELSE o.owner = None
  <1> DEFINE reply == Head(toWeb[c])
  <1>1. reply \in ReplyFrames /\ reply = toWeb[c][1] /\ 1 \in 1 .. Len(toWeb[c])
    BY DEF TypeOK
  <1>2. /\ reply.owner = None => reply.id = 0 /\ reply.kind = "error"
        /\ reply.owner # None => /\ reply.id = operationId[reply.owner]
                                 /\ executed[reply.owner] = 1
        /\ reply.owner \in Requests \cup {None}
    BY <1>1 DEF ReplyInv, Truthful, ReplyFrames
  <1>3. reply.id = operationId[r] => reply.owner = r /\ executed[r] = 1
    BY <1>2 DEF IdInv
  <1> HIDE DEF reply
  <1>4. QED
    BY <1>3 DEF Interpret, Err, Projection, reply

\* Outcomes and executions stay in step, and every projection its caller's own.
LEMMA ExecNext ==
    /\ TypeOK /\ HandInv /\ IdInv /\ FrameInv /\ ReplyInv /\ ExecInv /\ OwnProjection
    /\ [Next]_vars
    => ExecInv' /\ OwnProjection'
  <1> SUFFICES ASSUME TypeOK, HandInv, IdInv, FrameInv, ReplyInv, ExecInv,
                      OwnProjection, [Next]_vars
               PROVE  (ExecInv /\ OwnProjection)'
    OBVIOUS
  <1>0. ASSUME NEW r \in Requests, NEW o, Return(r, o), executed' = executed,
               IF o.tag = "Projection" THEN o.owner = r /\ executed[r] = 1
                                       ELSE o.owner = None
        PROVE  (ExecInv /\ OwnProjection)'
    BY <1>0 DEF Return, ExecInv, OwnProjection, TypeOK
  <1>01. \A e \in GatewayErrors : Err(e).tag # "Projection" /\ Err(e).owner = None
    BY DEF Err, GatewayErrors
  <1>1. ASSUME NEW r \in Requests, RefuseSubject(r) PROVE (ExecInv /\ OwnProjection)'
    BY <1>1, <1>0, <1>01 DEF RefuseSubject, GatewayErrors
  <1>2. ASSUME NEW r \in Requests, RefuseOperation(r) PROVE (ExecInv /\ OwnProjection)'
    BY <1>2, <1>01 DEF RefuseOperation, wireVars, ExecInv, OwnProjection, TypeOK, GatewayErrors
  <1>3. ASSUME NEW r \in Requests, Enqueue(r) PROVE (ExecInv /\ OwnProjection)'
    BY <1>3 DEF Enqueue, wireVars, ExecInv, OwnProjection, TypeOK
  <1>4. ASSUME NEW r \in Requests, Acquire(r) PROVE (ExecInv /\ OwnProjection)'
    BY <1>4 DEF Acquire, wireVars, ExecInv, OwnProjection, TypeOK
  <1>5. ASSUME NEW r \in Requests, ConnectTcp(r) PROVE (ExecInv /\ OwnProjection)'
    BY <1>5 DEF ConnectTcp, wireVars, ExecInv, OwnProjection, TypeOK
  <1>6. ASSUME NEW r \in Requests, ConnectFails(r) PROVE (ExecInv /\ OwnProjection)'
    BY <1>6, <1>0, <1>01 DEF ConnectFails, GatewayErrors
  <1>7. ASSUME NEW r \in Requests, ConnectTls(r) PROVE (ExecInv /\ OwnProjection)'
    BY <1>7 DEF ConnectTls, ExecInv, OwnProjection, TypeOK
  <1>8. ASSUME NEW r \in Requests, Send(r) PROVE (ExecInv /\ OwnProjection)'
    BY <1>8 DEF Send, ExecInv, OwnProjection, TypeOK
  <1>9. ASSUME NEW r \in Requests, SendFails(r) PROVE (ExecInv /\ OwnProjection)'
    BY <1>9, <1>0, <1>01 DEF SendFails, GatewayErrors
  <1>10. ASSUME NEW r \in Requests, ReceiveReply(r) PROVE (ExecInv /\ OwnProjection)'
    <2>1. PICK c \in Requests : c = hand[r]
      BY <1>10 DEF ReceiveReply, HandInv, TypeOK
    <2>2. /\ toWeb[c] # <<>> /\ executed' = executed
          /\ Return(r, Interpret(r, Head(toWeb[c])))
      BY <1>10, <2>1 DEF ReceiveReply
    <2>3. operationId[r] # 0
      BY <1>10 DEF ReceiveReply, IdInv, Awaits
    <2>4. QED
      BY <2>2, <2>3, <1>0, InterpretOwn
  <1>11. ASSUME NEW r \in Requests, ReceiveGarbage(r) PROVE (ExecInv /\ OwnProjection)'
    BY <1>11, <1>0, <1>01 DEF ReceiveGarbage, GatewayErrors
  <1>12. ASSUME NEW r \in Requests, ReceiveEnd(r) PROVE (ExecInv /\ OwnProjection)'
    BY <1>12, <1>0, <1>01 DEF ReceiveEnd, GatewayErrors
  <1>13. ASSUME NEW r \in Requests, ReceiveTimeout(r) PROVE (ExecInv /\ OwnProjection)'
    BY <1>13, <1>0, <1>01 DEF ReceiveTimeout, GatewayErrors
  <1>14. ASSUME NEW r \in Requests, Cancel(r) PROVE (ExecInv /\ OwnProjection)'
    BY <1>14, <1>0 DEF Cancel, Cancelled
  <1>15. ASSUME NEW c \in Requests, ApiExecutes(c) PROVE (ExecInv /\ OwnProjection)'
    <2> DEFINE f == Head(toApi[c])
    <2>1. toApi[c] \in Seq(Frames) /\ toApi[c] # <<>>
      BY <1>15 DEF ApiExecutes, TypeOK
    <2>2. f \in Frames /\ f = toApi[c][1] /\ 1 \in 1 .. Len(toApi[c])
      BY <2>1
    <2>3. /\ f.bearer \in Requests /\ executed[f.bearer] = 0
          /\ operationId[f.bearer] # 0
          /\ pc[f.bearer] \in {"receiving", "done"}
      BY <2>2 DEF FrameInv, Unserved, Frames
    <2>4. /\ executed' = [executed EXCEPT ![f.bearer] = @ + 1]
          /\ operationId' = operationId /\ pc' = pc /\ outcome' = outcome
      BY <1>15 DEF ApiExecutes, clientVars
    <2>5. /\ executed'[f.bearer] = 1
          /\ \A s \in Requests : s # f.bearer => executed'[s] = executed[s]
      BY <2>3, <2>4 DEF TypeOK
    <2>6. QED
      BY <2>3, <2>4, <2>5 DEF ExecInv, OwnProjection
  <1>16. ASSUME NEW c \in Requests, ApiRefuses(c) PROVE (ExecInv /\ OwnProjection)'
    BY <1>16 DEF ApiRefuses, clientVars, ExecInv, OwnProjection
  <1>17. ASSUME NEW c \in Requests, ApiCloses(c) PROVE (ExecInv /\ OwnProjection)'
    BY <1>17 DEF ApiCloses, clientVars, ExecInv, OwnProjection
  <1>18. ASSUME NEW c \in Requests, ApiStrays(c) PROVE (ExecInv /\ OwnProjection)'
    BY <1>18 DEF ApiStrays, clientVars, ExecInv, OwnProjection
  <1>19. CASE Finished \/ UNCHANGED vars
    BY <1>19 DEF Finished, vars, ExecInv, OwnProjection
  <1>20. QED
    BY <1>1, <1>2, <1>3, <1>4, <1>5, <1>6, <1>7, <1>8, <1>9, <1>10,
       <1>11, <1>12, <1>13, <1>14, <1>15, <1>16, <1>17, <1>18, <1>19
    DEF Next, RequestNext, Progress, ApiNext

-------------------------------------------------------------------------------
\* No connection, frame or id exists at the start.
LEMMA IndInit == Init => IndInv
  BY TypeInit DEF Init, IndInv, Unserved, Truthful, FirstSequence, HandInv, IdInv, LockInv, WireInv,
     LagInv, Lag, FrameInv, ReplyInv, ExecInv, OwnProjection, Live, HoldsLock,
     LockedAwaits, Awaits, NoOutcome

\* Every step keeps the invariant.
LEMMA IndNext == IndInv /\ [Next]_vars => IndInv'
  BY TypeNext, HandNext, IdNext, LockNext, WireNext, LagNext, FrameNext,
     ReplyNext, ExecNext DEF IndInv

\* The inductive invariant holds of every behaviour.
THEOREM Inductive == Spec => []IndInv
  BY IndInit, IndNext, PTL DEF Spec

\* A caller of tcp_read is only ever shown its own data, which the API computed
\* for it, for any number of callers and stray frames.
THEOREM OwnProjectionHolds == Spec => []OwnProjection
  <1>1. IndInv => OwnProjection
    BY DEF IndInv
  <1>2. QED
    BY <1>1, Inductive, PTL

\* A connection that waits in the Option carries at most the stray frames.
THEOREM PooledLagHolds == Spec => []PooledLag
  <1>1. IndInv => PooledLag
    BY DEF IndInv, LagInv, PooledLag, TypeOK
  <1>2. QED
    BY <1>1, Inductive, PTL

\* The web process never owns two connections, nor shares one.
THEOREM SingleConnectionHolds == Spec => []SingleConnection
  <1>1. IndInv => SingleConnection
    <2> SUFFICES ASSUME IndInv PROVE SingleConnection
      OBVIOUS
    <2>1. \A r \in Requests : hand[r] # None => pooled = None
      BY DEF IndInv, HandInv, LockInv, HoldsLock, LockedAwaits, Awaits
    <2>2. \A r, s \in Requests : hand[r] # None /\ hand[s] # None => r = s
      BY DEF IndInv, HandInv, LockInv, HoldsLock, LockedAwaits, Awaits
    <2>3. QED
      BY <2>1, <2>2 DEF SingleConnection, Live
  <1>2. QED
    BY <1>1, Inductive, PTL

-------------------------------------------------------------------------------
\* CallOf on the values it takes.
LEMMA CallOfValues ==
    ASSUME NEW r \in Requests
    PROVE  /\ pc[r] = "idle" => CallOf(r) = "idle"
           /\ pc[r] \in Awaits => CallOf(r) = "pending"
           /\ pc[r] = "done" /\ outcome[r].tag = "Projection" => CallOf(r) = "answered"
           /\ pc[r] = "done" /\ outcome[r].tag # "Projection" => CallOf(r) = "failed"
  BY DEF CallOf, Awaits

\* Requests that do not move, or move between awaits, do not move abstractly.
LEMMA CallStays ==
    ASSUME IndInv, outcome' = outcome,
           \A r \in Requests : pc'[r] = pc[r] \/ (pc[r] \in Awaits /\ pc'[r] \in Awaits)
    PROVE  /\ [r \in Requests |-> CallOf(r)]' = [r \in Requests |-> CallOf(r)]
           /\ [r \in Requests |-> outcome[r].owner]' = [r \in Requests |-> outcome[r].owner]
  BY DEF CallOf, Awaits

\* A return without data is an abstract failure.
LEMMA ReturnFails ==
    ASSUME IndInv, NEW r \in Requests, NEW o, pc[r] # "done", executed' = executed,
           Return(r, o), o.tag # "Projection", o.owner = None
    PROVE  Abstract!Fail(r)
  <1> DEFINE call == [s \in Requests |-> CallOf(s)]
             shown == [s \in Requests |-> outcome[s].owner]
  <1>1. TypeOK /\ outcome[r].owner = None
    BY DEF IndInv, ExecInv, NoOutcome
  <1>2. call[r] \in {"idle", "pending"}
    BY <1>1, CallOfValues DEF TypeOK
  <1>3. call' = [call EXCEPT ![r] = "failed"]
    BY <1>1 DEF Return, CallOf, TypeOK, Awaits
  <1>4. shown' = shown
    BY <1>1 DEF Return, TypeOK
  <1>5. QED
    BY <1>2, <1>3, <1>4 DEF Abstract!Fail

\* Every step of the client and the API is a step of CorrelatedCall or none.
LEMMA RefinementStep == IndInv /\ [Next]_vars => [Abstract!CallNext]_(Abstract!callVars)
  <1> SUFFICES ASSUME IndInv, [Next]_vars
               PROVE  [Abstract!CallNext]_(Abstract!callVars)
    OBVIOUS
  <1> DEFINE call == [s \in Requests |-> CallOf(s)]
             shown == [s \in Requests |-> outcome[s].owner]
  <1>00. TypeOK /\ ExecInv
    BY DEF IndInv
  <1>01. \A e \in GatewayErrors : Err(e).tag # "Projection" /\ Err(e).owner = None
    BY DEF Err, GatewayErrors
  <1>02. \A r \in Requests : Abstract!Fail(r) \/ Abstract!Start(r) \/ Abstract!Answer(r)
                                \/ Abstract!Execute(r) => Abstract!CallNext
    BY DEF Abstract!CallNext
  <1>03. ASSUME outcome' = outcome, executed' = executed,
                \A r \in Requests : pc'[r] = pc[r]
                                      \/ (pc[r] \in Awaits /\ pc'[r] \in Awaits)
         PROVE  UNCHANGED Abstract!callVars
    BY <1>03, CallStays DEF Abstract!callVars
  <1>1. ASSUME NEW r \in Requests, RefuseSubject(r) PROVE Abstract!CallNext
    BY <1>1, <1>01, <1>02, ReturnFails DEF RefuseSubject, GatewayErrors
  <1>2. ASSUME NEW r \in Requests, RefuseOperation(r) PROVE Abstract!CallNext
    <2>1. call[r] = "idle" /\ outcome[r].owner = None
      BY <1>2, <1>00, CallOfValues DEF RefuseOperation, ExecInv, NoOutcome
    <2>2. call' = [call EXCEPT ![r] = "failed"]
      BY <1>2, <1>00, <1>01 DEF RefuseOperation, TypeOK, CallOf, Awaits, GatewayErrors
    <2>3. shown' = shown /\ executed' = executed
      BY <1>2, <1>00, <1>01, <2>1 DEF RefuseOperation, TypeOK, GatewayErrors, wireVars
    <2>4. QED
      BY <2>1, <2>2, <2>3, <1>02 DEF Abstract!Fail
  <1>3. ASSUME NEW r \in Requests, Enqueue(r) PROVE Abstract!CallNext
    <2>1. call[r] = "idle"
      BY <1>3, CallOfValues DEF Enqueue
    <2>2. call' = [call EXCEPT ![r] = "pending"] /\ shown' = shown /\ executed' = executed
      BY <1>3, <1>00 DEF Enqueue, TypeOK, CallOf, Awaits, wireVars
    <2>3. QED
      BY <2>1, <2>2, <1>02 DEF Abstract!Start
  <1>4. ASSUME NEW r \in Requests, Acquire(r) PROVE UNCHANGED Abstract!callVars
    BY <1>4, <1>00, <1>03 DEF Acquire, TypeOK, Awaits, wireVars
  <1>5. ASSUME NEW r \in Requests, ConnectTcp(r) PROVE UNCHANGED Abstract!callVars
    BY <1>5, <1>00, <1>03 DEF ConnectTcp, TypeOK, Awaits, wireVars
  <1>6. ASSUME NEW r \in Requests, ConnectFails(r) PROVE Abstract!CallNext
    BY <1>6, <1>01, <1>02, ReturnFails DEF ConnectFails, GatewayErrors
  <1>7. ASSUME NEW r \in Requests, ConnectTls(r) PROVE UNCHANGED Abstract!callVars
    BY <1>7, <1>00, <1>03 DEF ConnectTls, TypeOK, Awaits
  <1>8. ASSUME NEW r \in Requests, Send(r) PROVE UNCHANGED Abstract!callVars
    BY <1>8, <1>00, <1>03 DEF Send, TypeOK, Awaits
  <1>9. ASSUME NEW r \in Requests, SendFails(r) PROVE Abstract!CallNext
    BY <1>9, <1>01, <1>02, ReturnFails DEF SendFails, GatewayErrors
  <1>10. ASSUME NEW r \in Requests, ReceiveReply(r) PROVE Abstract!CallNext
    <2>1. PICK c \in Requests : c = hand[r]
      BY <1>10 DEF ReceiveReply, IndInv, HandInv, TypeOK
    <2> PICK o : o = Interpret(r, Head(toWeb[c]))
      OBVIOUS
    <2>2. toWeb[c] # <<>> /\ executed' = executed /\ pc[r] = "receiving" /\ Return(r, o)
      BY <1>10, <2>1 DEF ReceiveReply
    <2>3. operationId[r] # 0
      BY <2>2 DEF IndInv, IdInv, Awaits
    <2>4. IF o.tag = "Projection" THEN o.owner = r /\ executed[r] = 1 ELSE o.owner = None
      BY <2>2, <2>3, InterpretOwn DEF IndInv
    <2>5. CASE o.tag # "Projection"
      BY <2>2, <2>4, <2>5, <1>02, ReturnFails
    <2>6. CASE o.tag = "Projection"
      <3>1. call[r] = "pending"
        BY <2>2 DEF CallOf, Awaits
      <3>2. call' = [call EXCEPT ![r] = "answered"]
        BY <2>2, <2>6, <1>00 DEF Return, CallOf, TypeOK, Awaits
      <3>3. shown' = [shown EXCEPT ![r] = r]
        BY <2>2, <2>4, <2>6, <1>00 DEF Return, TypeOK
      <3>4. QED
        BY <2>2, <2>4, <2>6, <3>1, <3>2, <3>3, <1>02 DEF Abstract!Answer
    <2>7. QED
      BY <2>5, <2>6
  <1>11. ASSUME NEW r \in Requests, ReceiveGarbage(r) PROVE Abstract!CallNext
    BY <1>11, <1>01, <1>02, ReturnFails DEF ReceiveGarbage, GatewayErrors
  <1>12. ASSUME NEW r \in Requests, ReceiveEnd(r) PROVE Abstract!CallNext
    BY <1>12, <1>01, <1>02, ReturnFails DEF ReceiveEnd, GatewayErrors
  <1>13. ASSUME NEW r \in Requests, ReceiveTimeout(r) PROVE Abstract!CallNext
    BY <1>13, <1>01, <1>02, ReturnFails DEF ReceiveTimeout, GatewayErrors
  <1>14. ASSUME NEW r \in Requests, Cancel(r) PROVE Abstract!CallNext
    BY <1>14, <1>02, ReturnFails DEF Cancel, Cancelled, Awaits
  <1>15. ASSUME NEW c \in Requests, ApiExecutes(c) PROVE Abstract!CallNext
    <2> DEFINE f == Head(toApi[c])
    <2>1. toApi[c] \in Seq(Frames) /\ toApi[c] # <<>>
      BY <1>15, <1>00 DEF ApiExecutes, TypeOK
    <2>2. f \in Frames /\ f = toApi[c][1] /\ 1 \in 1 .. Len(toApi[c])
      BY <2>1
    <2> PICK b \in Requests : b = f.bearer
      BY <2>2 DEF Frames
    <2>3. executed[b] = 0 /\ pc[b] \in {"receiving", "done"}
      BY <2>2 DEF IndInv, FrameInv, Unserved
    <2>4. outcome[b].tag # "Projection"
      BY <2>3 DEF IndInv, OwnProjection
    <2>5. /\ executed' = [executed EXCEPT ![b] = @ + 1]
          /\ pc' = pc /\ outcome' = outcome
      BY <1>15 DEF ApiExecutes, clientVars
    <2>6. executed' = [executed EXCEPT ![b] = 1]
      BY <2>3, <2>5, <1>00 DEF TypeOK
    <2>7. call[b] \in {"pending", "failed"}
      BY <2>3, <2>4 DEF CallOf, Awaits
    <2>8. call' = call /\ shown' = shown
      BY <2>5, CallStays
    <2>9. QED
      BY <2>3, <2>6, <2>7, <2>8, <1>02 DEF Abstract!Execute
  <1>16. ASSUME NEW c \in Requests, ApiRefuses(c) PROVE UNCHANGED Abstract!callVars
    BY <1>16, <1>03 DEF ApiRefuses, clientVars
  <1>17. ASSUME NEW c \in Requests, ApiCloses(c) PROVE UNCHANGED Abstract!callVars
    BY <1>17, <1>03 DEF ApiCloses, clientVars
  <1>18. ASSUME NEW c \in Requests, ApiStrays(c) PROVE UNCHANGED Abstract!callVars
    BY <1>18, <1>03 DEF ApiStrays, clientVars
  <1>19. CASE Finished \/ UNCHANGED vars
    BY <1>19, <1>03 DEF Finished, vars
  <1>20. QED
    BY <1>1, <1>2, <1>3, <1>4, <1>5, <1>6, <1>7, <1>8, <1>9, <1>10,
       <1>11, <1>12, <1>13, <1>14, <1>15, <1>16, <1>17, <1>18, <1>19
    DEF Next, RequestNext, Progress, ApiNext

\* MtlsClient implements CorrelatedCall: at most one execution and one answer
\* per call, the answer the caller's own and after the execution.
THEOREM Refinement == Spec => CorrelatedCallSpec
  <1>1. Init => Abstract!CallInit
    <2> SUFFICES ASSUME Init PROVE Abstract!CallInit
      OBVIOUS
    <2>1. \A r \in Requests : CallOf(r) = "idle" /\ outcome[r].owner = None
      BY CallOfValues DEF Init, NoOutcome
    <2>2. executed = [r \in Requests |-> 0]
      BY DEF Init
    <2>3. QED
      BY <2>1, <2>2 DEF Abstract!CallInit
  <1>2. QED
    BY <1>1, RefinementStep, Inductive, PTL
    DEF Spec, CorrelatedCallSpec, Abstract!CallSpec

-------------------------------------------------------------------------------
\* MtlsDeadline.
USE TimeoutAssumption

\* The shapes a step has for the mutex and its queue.
\* A request joins the queue.
Joins(r) ==
    /\ pc[r] = "idle"
    /\ pc' = [pc EXCEPT ![r] = "waiting"]
    /\ ahead' = [ahead EXCEPT ![r] = {s \in Requests : pc[s] = "waiting"}]

\* A request is granted the mutex.
Granted(r) ==
    /\ pc[r] = "waiting" /\ ahead[r] = {}
    /\ \A s \in Requests : ~HoldsLock(s)
    /\ \E await \in {"tcp", "sending"} : pc' = [pc EXCEPT ![r] = await]
    /\ ahead' = [s \in Requests |-> ahead[s] \ {r}]

\* The holder of the mutex gets to its next await.
Following(await) ==
    CASE await = "tcp" -> "tls"
      [] await = "tls" -> "sending"
      [] await = "sending" -> "receiving"
Advances(r) ==
    /\ pc[r] \in {"tcp", "tls", "sending"}
    /\ pc' = [pc EXCEPT ![r] = Following(pc[r])]
    /\ ahead' = ahead

\* A request returns.
Leaves(r) ==
    /\ pc[r] # "done"
    /\ pc' = [pc EXCEPT ![r] = "done"]
    /\ ahead' \in [Requests -> SUBSET Requests]
    /\ \A s \in Requests : s # r => ahead'[s] = ahead[s] \ {r}
    /\ ahead'[r] \subseteq ahead[r] \ {r}

\* A request that returns leaves the mutex and its queue.
LEMMA ReturnLeaves ==
    ASSUME TypeOK, NEW r \in Requests, NEW o, Return(r, o), pc[r] # "done"
    PROVE  Leaves(r)
  BY DEF Return, Leaves, TypeOK

\* Every step has one of the shapes.
LEMMA StepShape ==
    ASSUME TypeOK, LineInv, Next
    PROVE  \/ \E r \in Requests : Joins(r) \/ Granted(r) \/ Advances(r) \/ Leaves(r)
           \/ UNCHANGED <<pc, ahead>>
  <1> USE ReturnLeaves
  <1>1. ASSUME NEW r \in Requests, RefuseSubject(r) PROVE Leaves(r)
    BY <1>1 DEF RefuseSubject
  <1>2. ASSUME NEW r \in Requests, RefuseOperation(r) PROVE Leaves(r)
    BY <1>2 DEF RefuseOperation, Leaves, TypeOK, LineInv
  <1>3. ASSUME NEW r \in Requests, Enqueue(r) PROVE Joins(r)
    BY <1>3 DEF Enqueue, Joins
  <1>4. ASSUME NEW r \in Requests, Acquire(r) PROVE Granted(r)
    BY <1>4 DEF Acquire, Granted
  <1>5. ASSUME NEW r \in Requests, ConnectTcp(r) PROVE Advances(r)
    BY <1>5 DEF ConnectTcp, Advances, Following
  <1>6. ASSUME NEW r \in Requests, ConnectFails(r) PROVE Leaves(r)
    BY <1>6 DEF ConnectFails
  <1>7. ASSUME NEW r \in Requests, ConnectTls(r) PROVE Advances(r)
    BY <1>7 DEF ConnectTls, Advances, Following
  <1>8. ASSUME NEW r \in Requests, Send(r) PROVE Advances(r)
    BY <1>8 DEF Send, Advances, Following
  <1>9. ASSUME NEW r \in Requests, SendFails(r) PROVE Leaves(r)
    BY <1>9 DEF SendFails
  <1>10. ASSUME NEW r \in Requests, ReceiveReply(r) PROVE Leaves(r)
    BY <1>10 DEF ReceiveReply
  <1>11. ASSUME NEW r \in Requests, ReceiveGarbage(r) PROVE Leaves(r)
    BY <1>11 DEF ReceiveGarbage
  <1>12. ASSUME NEW r \in Requests, ReceiveEnd(r) PROVE Leaves(r)
    BY <1>12 DEF ReceiveEnd
  <1>13. ASSUME NEW r \in Requests, ReceiveTimeout(r) PROVE Leaves(r)
    BY <1>13 DEF ReceiveTimeout
  <1>14. ASSUME NEW r \in Requests, Cancel(r) PROVE Leaves(r)
    BY <1>14 DEF Cancel, Awaits
  <1>15. ASSUME NEW c \in Requests, ApiNext(c) PROVE UNCHANGED <<pc, ahead>>
    BY <1>15 DEF ApiNext, ApiExecutes, ApiRefuses, ApiCloses, ApiStrays, clientVars
  <1>16. CASE Finished
    BY <1>16 DEF Finished, vars
  <1>17. QED
    BY <1>1, <1>2, <1>3, <1>4, <1>5, <1>6, <1>7, <1>8, <1>9, <1>10,
       <1>11, <1>12, <1>13, <1>14, <1>15, <1>16
    DEF Next, RequestNext, Progress

-------------------------------------------------------------------------------
\* A request that returns is no longer suspended, and nobody else is affected.
LEMMA SuspendedLeaves ==
    ASSUME TypeOK, NEW r \in Requests, Leaves(r)
    PROVE  Suspended' = Suspended \ {r}
  BY DEF TypeOK, Leaves, Suspended, Awaits

\* Every step keeps the queue a line of finitely many.
LEMMA LineNext ==
    ASSUME TypeOK, LineInv, Next
    PROVE  LineInv'
  <1>1. ASSUME NEW r \in Requests, Joins(r) PROVE LineInv'
    <2>1. Suspended' = Suspended \cup {r}
      BY <1>1 DEF Joins, TypeOK, Suspended, Awaits
    <2>2. IsFiniteSet(Suspended')
      BY <2>1, FS_AddElement DEF LineInv
    <2>3. \A s \in Requests :
             /\ pc'[s] = "waiting" <=> pc[s] = "waiting" \/ s = r
             /\ s # r => ahead'[s] = ahead[s]
      BY <1>1 DEF Joins, TypeOK
    <2>4. pc[r] # "waiting" /\ ahead'[r] = {s \in Requests : pc[s] = "waiting"}
      BY <1>1 DEF Joins, TypeOK
    <2>5. \A s \in Requests : ahead[s] \subseteq Requests
      BY DEF TypeOK
    <2>6. \A s \in Requests : \A t \in ahead'[s] : pc'[t] = "waiting" /\ t # s
      BY <2>3, <2>4, <2>5 DEF LineInv
    <2>7. \A s, t \in Requests :
             pc'[s] = "waiting" /\ pc'[t] = "waiting" /\ s # t =>
                s \in ahead'[t] \/ t \in ahead'[s]
      BY <2>3, <2>4 DEF LineInv
    <2>8. QED
      BY <2>2, <2>6, <2>7 DEF LineInv
  <1>2. ASSUME NEW r \in Requests, Granted(r) PROVE LineInv'
    <2>1. Suspended' = Suspended
      BY <1>2 DEF Granted, TypeOK, Suspended, Awaits
    <2>2. QED
      BY <1>2, <2>1 DEF Granted, LineInv, TypeOK
  <1>3. ASSUME NEW r \in Requests, Advances(r) PROVE LineInv'
    <2>1. Suspended' = Suspended
      BY <1>3 DEF Advances, Following, TypeOK, Suspended, Awaits
    <2>2. \A s \in Requests : pc'[s] = "waiting" <=> pc[s] = "waiting"
      BY <1>3 DEF Advances, Following, TypeOK
    <2>3. QED
      BY <1>3, <2>1, <2>2 DEF Advances, LineInv
  <1>4. ASSUME NEW r \in Requests, Leaves(r) PROVE LineInv'
    <2>1. IsFiniteSet(Suspended')
      BY <1>4, SuspendedLeaves, FS_RemoveElement DEF LineInv
    <2>2. \A s \in Requests :
             /\ pc'[s] = "waiting" <=> pc[s] = "waiting" /\ s # r
             /\ ahead'[s] \subseteq ahead[s] \ {r}
             /\ s # r => ahead'[s] = ahead[s] \ {r}
      BY <1>4 DEF Leaves, TypeOK
    <2>3. \A s \in Requests : \A t \in ahead'[s] : pc'[t] = "waiting" /\ t # s
      <3> SUFFICES ASSUME NEW s \in Requests, NEW t \in ahead'[s]
                   PROVE  pc'[t] = "waiting" /\ t # s
        OBVIOUS
      <3>1. t \in ahead[s] /\ t # r /\ t \in Requests
        BY <2>2 DEF TypeOK
      <3>2. QED
        BY <2>2, <3>1 DEF LineInv
    <2>4. ASSUME NEW s \in Requests, NEW t \in Requests, s # t,
                 pc'[s] = "waiting", pc'[t] = "waiting"
          PROVE  s \in ahead'[t] \/ t \in ahead'[s]
      BY <2>2, <2>4 DEF LineInv
    <2>5. QED
      BY <2>1, <2>3, <2>4 DEF LineInv
  <1>5. ASSUME UNCHANGED <<pc, ahead>> PROVE LineInv'
    BY <1>5 DEF LineInv, Suspended
  <1>6. QED
    BY <1>1, <1>2, <1>3, <1>4, <1>5, StepShape

-------------------------------------------------------------------------------
\* The arithmetic of holds: monotone, and one more hold is four timers more.
LEMMA Holds ==
    /\ Hold \in Nat
    /\ \A n \in Nat : Hold * n \in Nat
    /\ \A n \in Nat : Hold * (n + 1) = Hold * n + 4 * Timeout
    /\ \A m, n \in Nat : m <= n => Hold * m <= Hold * n
  BY DEF Hold

\* What a queue of suspended requests counts is a number.
LEMMA LeftType ==
    ASSUME LineInv, NEW r \in Requests
    PROVE  IsFiniteSet(StillInFront(r)) /\ Left(r) \in Nat
  <1>1. StillInFront(r) \subseteq Suspended
    BY DEF StillInFront, Suspended, LineInv, HoldsLock, LockedAwaits, Awaits
  <1>2. IsFiniteSet(Suspended)
    BY DEF LineInv
  <1>3. IsFiniteSet(StillInFront(r))
    BY <1>1, <1>2, FS_Subset
  <1>4. QED
    BY <1>3, FS_CardinalityType DEF Left

\* A step keeps the ages numbers and no timer above its limit.
LEMMA TimerStep ==
    ASSUME TypeOK, LineInv, TimerInv, Step
    PROVE  TimerInv'
  <1>1. Cardinality(Suspended) \in Nat
    BY FS_CardinalityType DEF LineInv
  <1>2. \A r \in Requests : age'[r] \in Nat /\ timer'[r] \in Nat /\ inFront'[r] \in Nat
    BY <1>1 DEF Step, Retimed, TimerInv
  <1>3. ASSUME NEW r \in Requests
        PROVE  /\ pc'[r] \in TimedAwaits => timer'[r] <= Timeout
               /\ pc'[r] = "idle" => age'[r] = 0
    BY <1>3 DEF Step, Retimed, TimerInv, TimedAwaits, Awaits
  <1>4. QED
    BY <1>2, <1>3 DEF TimerInv

\* So does a tick: no timer was due.
LEMMA TimerTick ==
    ASSUME TypeOK, TimerInv, Tick
    PROVE  TimerInv'
  <1>1. pc' = pc /\ inFront' = inFront
    BY DEF Tick, vars
  <1>2. ASSUME NEW r \in Requests
        PROVE  /\ age'[r] \in Nat /\ timer'[r] \in Nat /\ inFront'[r] \in Nat
               /\ pc'[r] \in TimedAwaits => timer'[r] <= Timeout
               /\ pc'[r] = "idle" => age'[r] = 0
    BY <1>1, <1>2 DEF Tick, Due, TimerInv, TimedAwaits, Awaits
  <1>3. QED
    BY <1>2 DEF TimerInv

-------------------------------------------------------------------------------
\* What a holder has behind it grows by a timer at each await, and never gets
\* beyond a hold.
LEMMA HeldBounds ==
    /\ \A await \in LockedAwaits :
          HeldBefore(await) \in Nat /\ HeldBefore(await) + Timeout <= 4 * Timeout
    /\ \A await \in {"tcp", "tls", "sending"} :
          HeldBefore(Following(await)) = HeldBefore(await) + Timeout
  BY DEF HeldBefore, Following, LockedAwaits, Awaits

\* The holder's timer is a number within its limit.
LEMMA HolderTimer ==
    ASSUME TypeOK, TimerInv, NEW s \in Requests, HoldsLock(s)
    PROVE  timer[s] \in Nat /\ timer[s] <= Timeout
  BY DEF TimerInv, HoldsLock, LockedAwaits, Awaits, TimedAwaits

\* Joining: whoever is suspended is in front.
LEMMA QueueJoins ==
    ASSUME TypeOK, LineInv, TimerInv, QueueInv, Step, NEW r \in Requests, Joins(r)
    PROVE  QueueInv'
  <1>1. \A s \in Requests : HoldsLock(s)' <=> HoldsLock(s)
    BY DEF Joins, TypeOK, HoldsLock, LockedAwaits, Awaits
  <1>2. \A s \in Requests : s # r => pc'[s] = pc[s] /\ ahead'[s] = ahead[s]
    BY DEF Joins, TypeOK
  <1>3. pc'[r] = "waiting" /\ ahead'[r] = {s \in Requests : pc[s] = "waiting"}
    BY DEF Joins, TypeOK
  <1>4. \A s \in Requests : HoldsLock(s) => pc'[s] = pc[s] /\ timer'[s] = timer[s]
    BY <1>2 DEF Step, Retimed, Joins, HoldsLock, LockedAwaits, Awaits
  <1>5. WaitsInTurn(r)'
    <2>1. StillInFront(r)' = Suspended
      BY <1>1, <1>3 DEF StillInFront, Suspended, HoldsLock, LockedAwaits, Awaits
    <2>2. Left(r)' = Cardinality(Suspended) /\ inFront'[r] = Cardinality(Suspended)
      BY <2>1, <1>3 DEF Left, Step, Retimed, Joins
    <2>3. Cardinality(Suspended) \in Nat
      BY FS_CardinalityType DEF LineInv
    <2>4. age'[r] = 0
      BY <1>3 DEF Step, Retimed, Joins, TimerInv, Awaits
    <2>5. Left(r)' <= inFront'[r] /\ Hold * (inFront'[r] - Left(r)') = 0
      BY <2>2, <2>3, Holds
    <2>6. ASSUME NEW s \in Requests, HoldsLock(s)'
          PROVE  age'[r] <= Hold * (inFront'[r] - Left(r)') + HeldBefore(pc'[s]) + timer'[s]
      BY <2>4, <2>5, <2>6, <1>1, <1>4, HeldBounds, HolderTimer DEF HoldsLock
    <2>7. QED
      BY <2>4, <2>5, <2>6 DEF WaitsInTurn
  <1>6. ASSUME NEW q \in Requests, q # r, pc'[q] = "waiting" PROVE WaitsInTurn(q)'
    <2>1. StillInFront(q)' = StillInFront(q)
      BY <1>1, <1>2, <1>6 DEF StillInFront
    <2>2. Left(q)' = Left(q) /\ inFront'[q] = inFront[q] /\ age'[q] = age[q]
      BY <2>1, <1>2, <1>6 DEF Left, Step, Retimed, Awaits
    <2>3. WaitsInTurn(q)
      BY <1>2, <1>6 DEF QueueInv
    <2>4. QED
      BY <2>2, <2>3, <1>1, <1>4 DEF WaitsInTurn
  <1>7. QED
    BY <1>5, <1>6 DEF QueueInv

\* The grant: it goes to one whom everybody else has in front.
LEMMA QueueGranted ==
    ASSUME TypeOK, LineInv, TimerInv, QueueInv, Step, NEW r \in Requests, Granted(r)
    PROVE  QueueInv'
  <1> SUFFICES ASSUME NEW q \in Requests, pc'[q] = "waiting" PROVE WaitsInTurn(q)'
    BY DEF QueueInv
  <1>1. /\ pc'[r] \in {"tcp", "sending"} /\ timer'[r] = 0
        /\ \A s \in Requests : s # r => pc'[s] = pc[s]
    BY DEF Granted, TypeOK, Step, Retimed
  <1>2. \A s \in Requests : HoldsLock(s)' <=> s = r
    BY <1>1 DEF Granted, HoldsLock, LockedAwaits, Awaits
  <1>3. q # r /\ pc[q] = "waiting" /\ r \in ahead[q]
    BY <1>1 DEF Granted, LineInv
  <1>4. StillInFront(q)' = StillInFront(q)
    BY <1>2, <1>3 DEF StillInFront, Granted
  <1>5. Left(q)' = Left(q) /\ inFront'[q] = inFront[q] /\ age'[q] = age[q]
    BY <1>3, <1>4 DEF Left, Step, Retimed, Awaits
  <1>6. Left(q) <= inFront[q] /\ age[q] <= Hold * (inFront[q] - Left(q))
    BY <1>3 DEF QueueInv, WaitsInTurn, Granted
  <1>7. Hold * (inFront[q] - Left(q)) \in Nat /\ age[q] \in Nat
    BY <1>6, LeftType, Holds DEF TimerInv
  <1>8. HeldBefore(pc'[r]) \in Nat
    BY <1>1, HeldBounds DEF LockedAwaits, Awaits
  <1>9. age'[q] <= Hold * (inFront'[q] - Left(q)') + HeldBefore(pc'[r]) + timer'[r]
    BY <1>1, <1>5, <1>6, <1>7, <1>8
  <1>10. QED
    BY <1>2, <1>5, <1>6, <1>9 DEF WaitsInTurn

\* The holder's next await: what it has behind it grows by what its timer had
\* reached at most.
LEMMA QueueAdvances ==
    ASSUME TypeOK, LineInv, TimerInv, LockInv, QueueInv, Step,
           NEW r \in Requests, Advances(r)
    PROVE  QueueInv'
  <1> SUFFICES ASSUME NEW q \in Requests, pc'[q] = "waiting" PROVE WaitsInTurn(q)'
    BY DEF QueueInv
  <1>1. /\ pc'[r] = Following(pc[r]) /\ timer'[r] = 0 /\ pc'[r] # pc[r]
        /\ \A s \in Requests : s # r => pc'[s] = pc[s]
        /\ ahead' = ahead
    BY DEF Advances, Following, TypeOK, Step, Retimed
  <1>2. HoldsLock(r) /\ \A s \in Requests : HoldsLock(s) <=> s = r
    BY DEF Advances, HoldsLock, LockInv, LockedAwaits, Awaits
  <1>3. \A s \in Requests : HoldsLock(s)' <=> s = r
    BY <1>1, <1>2 DEF Advances, Following, HoldsLock, LockedAwaits, Awaits
  <1>4. q # r /\ pc[q] = "waiting"
    BY <1>1, <1>3 DEF HoldsLock, LockedAwaits, Awaits
  <1>5. Left(q)' = Left(q) /\ inFront'[q] = inFront[q] /\ age'[q] = age[q]
    BY <1>1, <1>2, <1>3, <1>4 DEF Left, StillInFront, Step, Retimed, Awaits
  <1>6. /\ Left(q) <= inFront[q]
        /\ age[q] <= Hold * (inFront[q] - Left(q)) + HeldBefore(pc[r]) + timer[r]
    BY <1>2, <1>4 DEF QueueInv, WaitsInTurn
  <1>7. Hold * (inFront[q] - Left(q)) \in Nat /\ age[q] \in Nat
    BY <1>6, LeftType, Holds DEF TimerInv
  <1>8. /\ HeldBefore(pc[r]) \in Nat /\ timer[r] \in Nat /\ timer[r] <= Timeout
        /\ HeldBefore(pc'[r]) = HeldBefore(pc[r]) + Timeout
    BY <1>1, <1>2, HeldBounds, HolderTimer DEF Advances, HoldsLock
  <1>9. age'[q] <= Hold * (inFront'[q] - Left(q)') + HeldBefore(pc'[r]) + timer'[r]
    BY <1>1, <1>5, <1>6, <1>7, <1>8
  <1>10. QED
    BY <1>3, <1>5, <1>6, <1>9 DEF WaitsInTurn

\* A request that returns: a holder leaves a whole hold behind it at most, and a
\* waiter takes its place in the queue with it.
LEMMA QueueLeaves ==
    ASSUME TypeOK, LineInv, TimerInv, LockInv, QueueInv, Step,
           NEW r \in Requests, Leaves(r)
    PROVE  QueueInv'
  <1> SUFFICES ASSUME NEW q \in Requests, pc'[q] = "waiting" PROVE WaitsInTurn(q)'
    BY DEF QueueInv
  <1>1. pc'[r] = "done" /\ \A s \in Requests : s # r => pc'[s] = pc[s]
    BY DEF Leaves, TypeOK
  <1>2. q # r /\ pc[q] = "waiting" /\ ahead'[q] = ahead[q] \ {r}
    BY <1>1 DEF Leaves
  <1>3. \A s \in Requests : HoldsLock(s)' <=> HoldsLock(s) /\ s # r
    BY <1>1 DEF HoldsLock, LockedAwaits, Awaits
  <1>4. \A s \in Requests : s # r => timer'[s] = timer[s]
    BY <1>1 DEF Step, Retimed
  <1>5. StillInFront(q)' = StillInFront(q) \ {r}
    BY <1>2, <1>3 DEF StillInFront
  <1>6. Left(q)' = IF r \in StillInFront(q) THEN Left(q) - 1 ELSE Left(q)
    BY <1>5, LeftType, FS_RemoveElement DEF Left
  <1>7. inFront'[q] = inFront[q] /\ age'[q] = age[q]
    BY <1>2 DEF Step, Retimed, Awaits
  <1>8. WaitsInTurn(q)
    BY <1>2 DEF QueueInv
  <1>9. /\ Left(q) \in Nat /\ inFront[q] \in Nat /\ age[q] \in Nat
        /\ Left(q) <= inFront[q]
    BY <1>8, LeftType DEF WaitsInTurn, TimerInv
  <1>10. CASE HoldsLock(r)
    <2>1. \A s \in Requests : ~HoldsLock(s)'
      BY <1>3, <1>10 DEF LockInv
    <2>2. age[q] <= Hold * (inFront[q] - Left(q)) + HeldBefore(pc[r]) + timer[r]
      BY <1>8, <1>10 DEF WaitsInTurn
    <2>3. /\ HeldBefore(pc[r]) \in Nat /\ timer[r] \in Nat
          /\ HeldBefore(pc[r]) + timer[r] <= 4 * Timeout
      BY <1>10, HeldBounds, HolderTimer DEF HoldsLock
    <2>4. Left(q)' = Left(q) - 1
      BY <1>6, <1>10 DEF StillInFront
    <2>5. /\ inFront[q] - Left(q) \in Nat
          /\ inFront'[q] - Left(q)' = inFront[q] - Left(q) + 1
      BY <1>7, <1>9, <2>4
    <2>6. Hold * (inFront'[q] - Left(q)') = Hold * (inFront[q] - Left(q)) + 4 * Timeout
      BY <2>5, Holds
    <2>7. Hold * (inFront[q] - Left(q)) \in Nat
      BY <2>5, Holds
    <2>8. age[q] <= Hold * (inFront[q] - Left(q)) + 4 * Timeout
      BY <1>9, <2>2, <2>3, <2>7
    <2>9. age'[q] <= Hold * (inFront'[q] - Left(q)')
      BY <1>7, <2>6, <2>8
    <2>10. Left(q)' <= inFront'[q]
      BY <1>7, <1>9, <2>4
    <2>11. QED
      BY <2>1, <2>9, <2>10 DEF WaitsInTurn
  <1>11. CASE ~HoldsLock(r)
    <2>1. Left(q)' <= Left(q) /\ Left(q)' \in Int
      BY <1>6, <1>9
    <2>2. /\ inFront[q] - Left(q) \in Nat /\ inFront[q] - Left(q)' \in Nat
          /\ inFront[q] - Left(q) <= inFront[q] - Left(q)'
      BY <1>9, <2>1
    <2>3. /\ Hold * (inFront[q] - Left(q)) \in Nat /\ Hold * (inFront[q] - Left(q)') \in Nat
          /\ Hold * (inFront[q] - Left(q)) <= Hold * (inFront[q] - Left(q)')
      BY <2>2, Holds
    <2>4. ASSUME NEW s \in Requests, HoldsLock(s)'
          PROVE  age'[q] <= Hold * (inFront'[q] - Left(q)') + HeldBefore(pc'[s]) + timer'[s]
      <3>1. s # r /\ HoldsLock(s) /\ pc'[s] = pc[s] /\ timer'[s] = timer[s]
        BY <1>1, <1>3, <1>4, <2>4
      <3>2. HeldBefore(pc[s]) \in Nat /\ timer[s] \in Nat
        BY <3>1, HeldBounds, HolderTimer DEF HoldsLock
      <3>3. age[q] <= Hold * (inFront[q] - Left(q)) + HeldBefore(pc[s]) + timer[s]
        BY <1>8, <3>1 DEF WaitsInTurn
      <3>4. QED
        BY <1>7, <1>9, <2>3, <3>1, <3>2, <3>3
    <2>5. ASSUME \A s \in Requests : ~HoldsLock(s)'
          PROVE  age'[q] <= Hold * (inFront'[q] - Left(q)')
      <3>1. \A s \in Requests : ~HoldsLock(s)
        BY <1>3, <1>11, <2>5
      <3>2. QED
        BY <3>1, <1>7, <1>8, <1>9, <2>3 DEF WaitsInTurn
    <2>6. QED
      BY <1>7, <1>9, <2>1, <2>4, <2>5 DEF WaitsInTurn
  <1>12. QED
    BY <1>10, <1>11

\* A tick: it takes the holder's timer with it.
LEMMA QueueTick ==
    ASSUME TypeOK, LineInv, TimerInv, LockInv, QueueInv, Tick
    PROVE  QueueInv'
  <1> SUFFICES ASSUME NEW q \in Requests, pc'[q] = "waiting" PROVE WaitsInTurn(q)'
    BY DEF QueueInv
  <1>1. UNCHANGED <<pc, ahead, inFront>>
    BY DEF Tick, vars
  <1>2. Left(q)' = Left(q) /\ \A s \in Requests : HoldsLock(s)' <=> HoldsLock(s)
    BY <1>1 DEF Left, StillInFront, HoldsLock
  <1>3. pc[q] = "waiting" /\ age'[q] = age[q] + 1
    BY <1>1 DEF Tick, Awaits
  <1>4. PICK s \in Requests : HoldsLock(s)
    BY <1>3 DEF Tick
  <1>5. timer'[s] = timer[s] + 1 /\ timer[s] \in Nat /\ HeldBefore(pc[s]) \in Nat
    BY <1>4, HolderTimer, HeldBounds DEF Tick, HoldsLock, LockedAwaits
  <1>6. /\ Left(q) <= inFront[q]
        /\ age[q] <= Hold * (inFront[q] - Left(q)) + HeldBefore(pc[s]) + timer[s]
    BY <1>3, <1>4 DEF QueueInv, WaitsInTurn
  <1>7. inFront[q] - Left(q) \in Nat /\ age[q] \in Nat
    BY <1>6, LeftType DEF TimerInv
  <1>8. Hold * (inFront[q] - Left(q)) \in Nat
    BY <1>7, Holds
  <1>9. age'[q] <= Hold * (inFront'[q] - Left(q)') + HeldBefore(pc'[s]) + timer'[s]
    BY <1>1, <1>2, <1>3, <1>5, <1>6, <1>7, <1>8
  <1>10. \A t \in Requests : HoldsLock(t) => t = s
    BY <1>4 DEF LockInv
  <1>11. QED
    BY <1>1, <1>2, <1>4, <1>6, <1>9, <1>10 DEF WaitsInTurn

\* Every step of MtlsDeadline keeps those who wait within their bound.
LEMMA QueueStep ==
    ASSUME TypeOK, LineInv, TimerInv, LockInv, QueueInv, Step
    PROVE  QueueInv'
  <1>1. CASE UNCHANGED <<pc, ahead>>
    <2>1. \A r \in Requests :
             /\ timer'[r] = timer[r] /\ inFront'[r] = inFront[r]
             /\ pc[r] \in Awaits => age'[r] = age[r]
      BY <1>1 DEF Step, Retimed
    <2>2. QED
      BY <1>1, <2>1 DEF QueueInv, WaitsInTurn, Left, StillInFront, HoldsLock, Awaits
  <1>2. QED
    BY <1>1, StepShape, QueueJoins, QueueGranted, QueueAdvances, QueueLeaves DEF Step

-------------------------------------------------------------------------------
\* Having got the mutex with nobody in front, a request is within the bound, and
\* each await adds its timer.
LEMMA SentStep ==
    ASSUME TypeOK, LineInv, TimerInv, QueueInv, SentWithinBound, Step
    PROVE  SentWithinBound'
  <1> SUFFICES ASSUME NEW q \in Requests, pc'[q] \in TimedAwaits
               PROVE  age'[q] <= Hold * inFront'[q] + HeldBefore(pc'[q]) + timer'[q]
    BY DEF SentWithinBound
  <1>1. inFront'[q] = inFront[q] /\ age'[q] = age[q]
    BY DEF Step, Retimed, TimedAwaits, Awaits
  <1>2. inFront[q] \in Nat /\ age[q] \in Nat /\ timer[q] \in Nat /\ Hold * inFront[q] \in Nat
    BY Holds DEF TimerInv
  <1>3. CASE pc'[q] = pc[q]
    BY <1>1, <1>3 DEF SentWithinBound, Step, Retimed
  <1>4. CASE pc'[q] # pc[q] /\ Granted(q)
    <2>1. StillInFront(q) = {} /\ age[q] <= Hold * (inFront[q] - Left(q))
      BY <1>4 DEF Granted, StillInFront, QueueInv, WaitsInTurn
    <2>2. Left(q) = 0
      BY <2>1, FS_EmptySet DEF Left
    <2>3. HeldBefore(pc'[q]) \in Nat /\ timer'[q] = 0
      BY <1>4, HeldBounds DEF TimedAwaits, LockedAwaits, Awaits, Step, Retimed
    <2>4. QED
      BY <1>1, <1>2, <2>1, <2>2, <2>3
  <1>5. CASE pc'[q] # pc[q] /\ Advances(q)
    <2>1. age[q] <= Hold * inFront[q] + HeldBefore(pc[q]) + timer[q] /\ timer[q] <= Timeout
      BY <1>5 DEF Advances, SentWithinBound, TimerInv, TimedAwaits
    <2>2. HeldBefore(pc[q]) \in Nat /\ HeldBefore(pc'[q]) = HeldBefore(pc[q]) + Timeout
      BY <1>5, HeldBounds DEF Advances, TypeOK, LockedAwaits, Awaits
    <2>3. timer'[q] = 0
      BY <1>5 DEF Step, Retimed
    <2>4. QED
      BY <1>1, <1>2, <2>1, <2>2, <2>3
  <1>6. pc'[q] # pc[q] => Granted(q) \/ Advances(q)
    <2>1. \A r \in Requests : Joins(r) \/ Leaves(r) => pc'[q] = pc[q]
      BY DEF Joins, Leaves, TypeOK, TimedAwaits
    <2>2. \A r \in Requests : (Granted(r) \/ Advances(r)) /\ r # q => pc'[q] = pc[q]
      BY DEF Granted, Advances, TypeOK
    <2>3. QED
      BY <2>1, <2>2, StepShape DEF Step
  <1>7. QED
    BY <1>3, <1>4, <1>5, <1>6

\* A tick adds to age and timer alike.
LEMMA SentTick ==
    ASSUME TypeOK, TimerInv, SentWithinBound, Tick
    PROVE  SentWithinBound'
  <1> SUFFICES ASSUME NEW q \in Requests, pc'[q] \in TimedAwaits
               PROVE  age'[q] <= Hold * inFront'[q] + HeldBefore(pc'[q]) + timer'[q]
    BY DEF SentWithinBound
  <1>1. UNCHANGED <<pc, inFront>>
    BY DEF Tick, vars
  <1>2. age'[q] = age[q] + 1 /\ timer'[q] = timer[q] + 1
    BY <1>1 DEF Tick, TimedAwaits, Awaits
  <1>3. inFront[q] \in Nat /\ age[q] \in Nat /\ timer[q] \in Nat /\ Hold * inFront[q] \in Nat
    BY Holds DEF TimerInv
  <1>4. HeldBefore(pc[q]) \in Nat
    BY <1>1, HeldBounds DEF TimedAwaits, LockedAwaits, Awaits
  <1>5. age[q] <= Hold * inFront[q] + HeldBefore(pc[q]) + timer[q]
    BY <1>1 DEF SentWithinBound
  <1>6. QED
    BY <1>1, <1>2, <1>3, <1>4, <1>5

-------------------------------------------------------------------------------
\* The bounds hold when nothing has happened.
LEMMA TimedInitInv == TimedInit => TimedInv
  <1> SUFFICES ASSUME TimedInit PROVE TimedInv
    OBVIOUS
  <1>1. \A r \in Requests : pc[r] = "idle" /\ ahead[r] = {} /\ age[r] = 0
                           /\ timer[r] = 0 /\ inFront[r] = 0
    BY DEF TimedInit, Init
  <1>2. Suspended = {}
    BY <1>1 DEF Suspended, Awaits
  <1>3. LineInv
    BY <1>1, <1>2, FS_EmptySet DEF LineInv
  <1>4. TimerInv /\ QueueInv /\ SentWithinBound
    BY <1>1 DEF TimerInv, QueueInv, SentWithinBound, TimedAwaits
  <1>5. QED
    BY <1>3, <1>4 DEF TimedInv

\* Every step keeps them: together with the mutex they are inductive.
LEMMA TimedNextInv ==
    IndInv /\ TimedInv /\ [TimedNext]_<<vars, timedVars>> => TimedInv'
  <1> SUFFICES ASSUME IndInv, TimedInv, [TimedNext]_<<vars, timedVars>>
               PROVE  TimedInv'
    OBVIOUS
  <1> USE DEF IndInv, TimedInv
  <1>1. CASE Step
    BY <1>1, LineNext, TimerStep, QueueStep, SentStep DEF Step
  <1>2. CASE Tick
    <2>1. LineInv'
      BY <1>2 DEF Tick, LineInv, Suspended, vars
    <2>2. QED
      BY <1>2, <2>1, TimerTick, QueueTick, SentTick
  <1>3. CASE UNCHANGED <<vars, timedVars>>
    BY <1>3 DEF vars, timedVars, LineInv, Suspended, TimerInv, QueueInv, WaitsInTurn,
                Left, StillInFront, HoldsLock, SentWithinBound
  <1>4. QED
    BY <1>1, <1>2, <1>3 DEF TimedNext

\* Time changes nothing of what the client does.
THEOREM TimedIsMtlsClient == TimedSpec => Spec
  <1>1. TimedInit => Init
    BY DEF TimedInit
  <1>2. [TimedNext]_<<vars, timedVars>> => [Next]_vars
    BY DEF TimedNext, Step, Tick
  <1>3. QED
    BY <1>1, <1>2, PTL DEF TimedSpec, Spec

\* The bounds hold in every reachable state, for any number of requests and any
\* timer.
THEOREM TimedInductive == TimedSpec => []TimedInv
  BY TimedIsMtlsClient, Inductive, TimedInitInv, TimedNextInv, PTL DEF TimedSpec

\* A frame leaves at most a hold per request in front and three timers after the
\* deadline was set, whoever times out, fails or is cancelled in the queue.
THEOREM SentWithinBoundHolds == TimedSpec => []SentWithinBound
  <1>1. TimedInv => SentWithinBound
    BY DEF TimedInv
  <1>2. QED
    BY <1>1, TimedInductive, PTL

-------------------------------------------------------------------------------
\* With finitely many requests nobody has more in front than all the others.
FrontInv == \A r \in Requests : inFront[r] + 1 <= Cardinality(Requests)

\* A step keeps that.
LEMMA FrontNext ==
    ASSUME IsFiniteSet(Requests), TypeOK, FrontInv, [TimedNext]_<<vars, timedVars>>
    PROVE  FrontInv'
  <1> SUFFICES ASSUME NEW q \in Requests
               PROVE  inFront'[q] + 1 <= Cardinality(Requests)
    BY DEF FrontInv
  <1>1. CASE pc[q] = "idle" /\ inFront'[q] = Cardinality(Suspended)
    <2>1. Suspended \subseteq Requests \ {q}
      BY <1>1 DEF Suspended, Awaits
    <2>2. /\ IsFiniteSet(Requests \ {q})
          /\ Cardinality(Requests \ {q}) = Cardinality(Requests) - 1
      BY FS_RemoveElement
    <2>3. /\ Cardinality(Suspended) <= Cardinality(Requests \ {q})
          /\ IsFiniteSet(Suspended)
      BY <2>1, <2>2, FS_Subset
    <2>4. Cardinality(Suspended) \in Nat /\ Cardinality(Requests) \in Nat
      BY <2>3, FS_CardinalityType
    <2>5. QED
      BY <1>1, <2>2, <2>3, <2>4
  <1>2. CASE inFront'[q] = inFront[q]
    BY <1>2 DEF FrontInv
  <1>3. QED
    BY <1>1, <1>2 DEF TimedNext, Step, Retimed, Tick, timedVars

\* What a caller can rely on, with the permits of the gateway for Requests: no
\* request is found connecting or exchanging frames later than one hold per
\* permit after its deadline was set.
THEOREM EveryFrameLeavesInTime ==
    ASSUME IsFiniteSet(Requests)
    PROVE  TimedSpec => [](\A r \in Requests :
                              pc[r] \in TimedAwaits => age[r] <= Hold * Cardinality(Requests))
  <1>1. TimedInit => FrontInv
    <2> SUFFICES ASSUME TimedInit, NEW r \in Requests
                 PROVE  inFront[r] + 1 <= Cardinality(Requests)
      BY DEF FrontInv
    <2>1. Cardinality(Requests) \in Nat /\ Cardinality(Requests) # 0
      BY FS_CardinalityType, FS_EmptySet
    <2>2. QED
      BY <2>1 DEF TimedInit
  <1>2. TypeOK /\ FrontInv /\ [TimedNext]_<<vars, timedVars>> => FrontInv'
    BY FrontNext
  <1>3. ASSUME TypeOK, TimedInv, FrontInv, NEW r \in Requests, pc[r] \in TimedAwaits
        PROVE  age[r] <= Hold * Cardinality(Requests)
    <2>1. /\ age[r] \in Nat /\ inFront[r] \in Nat /\ timer[r] \in Nat
          /\ Cardinality(Requests) \in Nat
      BY <1>3, FS_CardinalityType DEF TimedInv, TimerInv
    <2>2. /\ age[r] <= Hold * inFront[r] + HeldBefore(pc[r]) + timer[r]
          /\ timer[r] <= Timeout
      BY <1>3 DEF TimedInv, SentWithinBound, TimerInv
    <2>3. HeldBefore(pc[r]) \in Nat /\ HeldBefore(pc[r]) + Timeout <= 4 * Timeout
      BY <1>3, HeldBounds DEF TimedAwaits, LockedAwaits, Awaits
    <2>4. Hold * inFront[r] \in Nat
      BY <2>1, Holds
    <2>5. age[r] <= Hold * inFront[r] + 4 * Timeout
      BY <2>1, <2>2, <2>3, <2>4
    <2>6. Hold * (inFront[r] + 1) = Hold * inFront[r] + 4 * Timeout
      BY <2>1, Holds
    <2>7. inFront[r] + 1 \in Nat /\ inFront[r] + 1 <= Cardinality(Requests)
      BY <1>3, <2>1 DEF FrontInv
    <2>8. Hold * (inFront[r] + 1) <= Hold * Cardinality(Requests)
      BY <2>1, <2>7, Holds
    <2>9. Hold * (inFront[r] + 1) \in Nat /\ Hold * Cardinality(Requests) \in Nat
      BY <2>1, <2>7, Holds
    <2>10. QED
      BY <2>1, <2>5, <2>6, <2>8, <2>9
  <1>4. TimedSpec => []TypeOK
    <2>1. IndInv => TypeOK
      BY DEF IndInv
    <2>2. QED
      BY <2>1, TimedIsMtlsClient, Inductive, PTL
  <1>5. TypeOK /\ TimedInv /\ FrontInv =>
            \A r \in Requests :
               pc[r] \in TimedAwaits => age[r] <= Hold * Cardinality(Requests)
    BY <1>3
  <1>6. QED
    BY <1>1, <1>2, <1>4, <1>5, TimedInductive, PTL DEF TimedSpec

-------------------------------------------------------------------------------
\* MtlsGateway: a request's steps in the client and in the gateway.

Q == INSTANCE GatewayProofs WITH pc <- at, outcome <- answer

\* The instances count as this module does.
LEMMA SameCounting ==
    ASSUME NEW T
    PROVE  /\ G!Cardinality(T) = Q!Cardinality(T) /\ Cardinality(T) = Q!Cardinality(T)
           /\ IsFiniteSet(T) <=> Q!IsFiniteSet(T)
  BY DEF Cardinality, G!Cardinality, Q!Cardinality, IsFiniteSet, Q!IsFiniteSet

\* Q and G are instances of the same module.
LEMMA SameRequestNext ==
    ASSUME NEW r \in Requests
    PROVE  G!RequestNext(r) => Q!RequestNext(r)
  <1> USE DEF G!Await, Q!Await, G!Respond, Q!Respond, G!Static, Q!Static,
              G!EndRead, Q!EndRead, G!Borrowing, Q!Borrowing, G!InFlight, Q!InFlight
  <1>1. \/ G!Authenticate(r) \/ G!Refuse(r) \/ G!Me(r) \/ G!Status(r)
        \/ G!RefuseAuthorization(r) \/ G!Backpressure(r) \/ G!RefuseMode(r) \/ G!Admit(r)
        => Q!RequestNext(r)
    BY DEF Q!RequestNext, G!Authenticate, Q!Authenticate, G!Refuse, Q!Refuse, G!Me, Q!Me,
           G!Status, Q!Status, G!RefuseAuthorization, Q!RefuseAuthorization,
           G!Backpressure, Q!Backpressure, G!RefuseMode, Q!RefuseMode, G!Admit, Q!Admit,
           G!Modes, Q!Modes
  <1>2. G!WebProgress(r) => Q!WebProgress(r)
    BY SameCounting DEF G!WebProgress, Q!WebProgress, G!CallEnds, Q!CallEnds, G!StatusEnds,
           Q!StatusEnds, G!Borrow, Q!Borrow, G!BorrowTimeout, Q!BorrowTimeout,
           G!QueryTimeout, Q!QueryTimeout, G!Borrowed, Q!Borrowed,
           G!ConnectionLimit, Q!ConnectionLimit
  <1>3. G!DatabaseAnswers(r) => Q!DatabaseAnswers(r)
    BY DEF G!DatabaseAnswers, Q!DatabaseAnswers, G!Begun, Q!Begun, G!Rows, Q!Rows,
           G!Committed, Q!Committed, G!DatabaseError, Q!DatabaseError
  <1>4. G!Cancel(r) => Q!Cancel(r)
    BY DEF G!Cancel, Q!Cancel
  <1>5. QED
    BY <1>1, <1>2, <1>3, <1>4 DEF G!RequestNext, Q!RequestNext

\* What a step of the composition is for the gateway.
LEMMA GatewayStep ==
    ASSUME GatewayNext
    PROVE  (\E r \in Requests : G!RequestNext(r)) \/ G!ConnectionFree \/ UNCHANGED gatewayVars
  <1>1. ASSUME NEW r \in Requests, CallNext(r), ~GoesOn(r) PROVE G!RequestNext(r)
    BY <1>1 DEF CallNext, Refused, Enters, Ends, Drops, G!RequestNext, G!WebProgress
  <1>2. ASSUME NEW r \in Requests, GoesOn(r) PROVE UNCHANGED gatewayVars
    BY <1>2 DEF GoesOn
  <1>3. ASSUME NEW r \in Requests, Elsewhere(r) PROVE G!RequestNext(r)
    BY <1>3 DEF Elsewhere
  <1>4. ApiActs \/ TimePasses => UNCHANGED gatewayVars
    BY DEF ApiActs, TimePasses
  <1>5. PoolActs => G!ConnectionFree
    BY DEF PoolActs
  <1>6. Stopped => UNCHANGED gatewayVars
    BY DEF Stopped, G!Finished, G!vars, gatewayVars
  <1>7. QED
    BY <1>1, <1>2, <1>3, <1>4, <1>5, <1>6 DEF GatewayNext

\* What it is for the client and the clock.
LEMMA ClientStep ==
    ASSUME GatewayNext
    PROVE  Step \/ Tick \/ UNCHANGED mtlsVars
  <1>1. ASSUME NEW r \in Requests, CallNext(r) PROVE RequestNext(r) /\ Retimed
    BY <1>1 DEF CallNext, Refused, Enters, GoesOn, Ends, Drops, RequestNext
  <1>2. ASSUME NEW r \in Requests, Elsewhere(r) PROVE UNCHANGED mtlsVars
    BY <1>2 DEF Elsewhere
  <1>3. ApiActs => Step
    BY DEF ApiActs, Step, Next
  <1>4. TimePasses => Tick
    BY DEF TimePasses
  <1>5. PoolActs \/ Stopped => UNCHANGED mtlsVars
    BY DEF PoolActs, Stopped
  <1>6. QED
    BY <1>1, <1>2, <1>3, <1>4, <1>5 DEF GatewayNext, Step, Next

\* The gateway leaves the client and its clock as MtlsDeadline has them.
THEOREM GatewayIsTimed == GatewaySpec => TimedSpec
  <1>1. GatewayInit => TimedInit
    BY DEF GatewayInit
  <1>2. [GatewayNext]_allVars => [TimedNext]_<<vars, timedVars>>
    BY ClientStep DEF TimedNext, allVars, mtlsVars
  <1>3. QED
    BY <1>1, <1>2, PTL DEF GatewaySpec, TimedSpec

\* With its mTLS client the gateway is a Gateway: tcp_read takes permits and gives
\* them back as Gateway says of any call.
THEOREM MtlsGatewayIsGateway == GatewaySpec => G!Spec
  <1>1. GatewayInit => G!Init
    BY DEF GatewayInit
  <1>2. [GatewayNext]_allVars => [G!Next]_(G!vars)
    BY GatewayStep DEF G!Next, G!vars, allVars, gatewayVars
  <1>3. QED
    BY <1>1, <1>2, PTL DEF GatewaySpec, G!Spec

\* Permits and connections are conserved in the composition.
LEMMA PermitsHold == GatewaySpec => []Q!IndInv
  <1>1. GatewayInit => Q!IndInv
    <2>1. G!Init => Q!Init
      BY DEF G!Init, Q!Init, G!Modes, Q!Modes
    <2>2. QED
      BY <2>1, Q!IndInit, SameCounting,
         FiniteRequestsAssumption, PermitsAssumption, FourModesAssumption
      DEF GatewayInit
  <1>2. Q!IndInv /\ [GatewayNext]_allVars => Q!IndInv'
    <2>1. G!ConnectionFree => Q!ConnectionFree
      BY DEF G!ConnectionFree, Q!ConnectionFree, G!Static, Q!Static
    <2>2. [GatewayNext]_allVars => [Q!Next]_(Q!vars)
      BY <2>1, GatewayStep, SameRequestNext DEF Q!Next, Q!vars, allVars, gatewayVars
    <2>3. QED
      BY <2>2, Q!IndNext, SameCounting,
         FiniteRequestsAssumption, PermitsAssumption, FourModesAssumption
  <1>3. QED
    BY <1>1, <1>2, PTL DEF GatewaySpec

-------------------------------------------------------------------------------
\* What a call that goes on or ends does to the variables the two share out.
LEMMA ProgressMoves ==
    ASSUME TypeOK, NEW r \in Requests, Progress(r)
    PROVE  /\ pc[r] \in Awaits
           /\ pc'[r] \in Awaits => outcome' = outcome
           /\ \A s \in Requests \ {r} : pc'[s] = pc[s] /\ outcome'[s] = outcome[s]
  <1>1. CASE Acquire(r)
    BY <1>1 DEF Acquire, TypeOK, Awaits
  <1>2. CASE ConnectTcp(r) \/ ConnectTls(r) \/ Send(r)
    BY <1>2 DEF ConnectTcp, ConnectTls, Send, TypeOK, Awaits
  <1>3. ASSUME NEW o, Return(r, o)
        PROVE  /\ pc'[r] \notin Awaits
               /\ \A s \in Requests \ {r} : pc'[s] = pc[s] /\ outcome'[s] = outcome[s]
    BY <1>3 DEF Return, TypeOK, Awaits
  <1>4. CASE ConnectFails(r) \/ SendFails(r) \/ ReceiveReply(r) \/ ReceiveGarbage(r)
             \/ ReceiveEnd(r) \/ ReceiveTimeout(r)
    BY <1>3, <1>4 DEF ConnectFails, SendFails, ReceiveReply, ReceiveGarbage, ReceiveEnd,
                      ReceiveTimeout, Awaits
  <1>5. QED
    BY <1>1, <1>2, <1>4 DEF Progress

\* What any step of a request does to Gateway's.
LEMMA GatewayMoves ==
    ASSUME Q!TypeOK, NEW r \in Requests, G!RequestNext(r)
    PROVE  /\ at[r] # "done"
           /\ \A s \in Requests \ {r} : at'[s] = at[s] /\ answer'[s] = answer[s]
  <1> USE DEF G!Await, G!Respond, G!EndRead, G!Borrowing, G!InFlight, Q!TypeOK
  <1>1. CASE \/ G!Authenticate(r) \/ G!Refuse(r) \/ G!Me(r) \/ G!Status(r)
             \/ G!RefuseAuthorization(r) \/ G!Backpressure(r) \/ G!RefuseMode(r) \/ G!Admit(r)
    BY <1>1 DEF G!Authenticate, G!Refuse, G!Me, G!Status, G!RefuseAuthorization,
                G!Backpressure, G!RefuseMode, G!Admit
  <1>2. CASE G!WebProgress(r)
    BY <1>2 DEF G!WebProgress, G!CallEnds, G!StatusEnds, G!Borrow, G!BorrowTimeout,
                G!QueryTimeout
  <1>3. CASE G!DatabaseAnswers(r)
    BY <1>3 DEF G!DatabaseAnswers, G!Begun, G!Rows, G!Committed, G!DatabaseError
  <1>4. CASE G!Cancel(r)
    BY <1>4 DEF G!Cancel
  <1>5. QED
    BY <1>1, <1>2, <1>3, <1>4 DEF G!RequestNext

\* A request that is not the mover of a step keeps its place on both sides.
LEMMA OthersStay ==
    ASSUME TypeOK, Q!TypeOK, NEW r \in Requests, CallNext(r) \/ Elsewhere(r)
    PROVE  \A s \in Requests \ {r} :
              /\ pc'[s] = pc[s] /\ outcome'[s] = outcome[s]
              /\ at'[s] = at[s] /\ answer'[s] = answer[s]
  <1>1. CASE Refused(r) \/ Enters(r) \/ Drops(r)
    <2>1. \A s \in Requests \ {r} : pc'[s] = pc[s] /\ outcome'[s] = outcome[s]
      BY <1>1 DEF Refused, RefuseSubject, RefuseOperation, Enters, Enqueue, Drops, Cancel,
                  Return, TypeOK
    <2>2. G!RequestNext(r)
      BY <1>1 DEF Refused, Enters, Drops, G!RequestNext
    <2>3. QED
      BY <2>1, <2>2, GatewayMoves
  <1>2. CASE GoesOn(r)
    BY <1>2, ProgressMoves DEF GoesOn, gatewayVars
  <1>3. CASE Ends(r)
    <2>1. G!RequestNext(r)
      BY <1>3 DEF Ends, G!RequestNext, G!WebProgress
    <2>2. QED
      BY <1>3, <2>1, ProgressMoves, GatewayMoves DEF Ends
  <1>4. CASE Elsewhere(r)
    BY <1>4, GatewayMoves DEF Elsewhere, mtlsVars, vars
  <1>5. QED
    BY <1>1, <1>2, <1>3, <1>4 DEF CallNext

\* The steps of nobody: what they leave alone.
LEMMA NobodyMoves ==
    ASSUME ApiActs \/ PoolActs \/ TimePasses \/ Stopped \/ UNCHANGED allVars
    PROVE  /\ UNCHANGED <<pc, outcome, at, answer>>
           /\ \A r \in Requests : inFront'[r] = inFront[r]
  <1>1. CASE ApiActs
    <2>1. UNCHANGED <<clientVars, gatewayVars>>
      BY <1>1 DEF ApiActs, ApiNext, ApiExecutes, ApiRefuses, ApiCloses, ApiStrays
    <2>2. QED
      BY <1>1, <2>1 DEF ApiActs, Retimed, clientVars, gatewayVars
  <1>2. CASE PoolActs
    BY <1>2 DEF PoolActs, G!ConnectionFree, mtlsVars, vars, timedVars
  <1>3. CASE TimePasses
    BY <1>3 DEF TimePasses, Tick, vars, gatewayVars
  <1>4. CASE Stopped
    BY <1>4 DEF Stopped, G!Finished, G!vars, mtlsVars, vars, timedVars
  <1>5. CASE UNCHANGED allVars
    BY <1>5 DEF allVars, mtlsVars, vars, timedVars, gatewayVars
  <1>6. QED
    BY <1>1, <1>2, <1>3, <1>4, <1>5

-------------------------------------------------------------------------------
\* A request is at an await of the client only while the gateway has it calling.
LEMMA UnderPermitNext ==
    ASSUME TypeOK, Q!TypeOK, UnderPermit, [GatewayNext]_allVars
    PROVE  UnderPermit'
  <1>1. ASSUME NEW r \in Requests, CallNext(r) \/ Elsewhere(r),
               pc'[r] \in Awaits => at'[r] = "calling"
        PROVE  UnderPermit'
    BY <1>1, OthersStay DEF UnderPermit
  <1>2. ASSUME NEW r \in Requests, Refused(r) \/ Ends(r) \/ Drops(r)
        PROVE  pc'[r] \notin Awaits
    BY <1>2 DEF Refused, RefuseSubject, RefuseOperation, Ends, Drops, Cancel, Return,
                TypeOK, Awaits
  <1>3. ASSUME NEW r \in Requests, Enters(r) PROVE at'[r] = "calling"
    BY <1>3 DEF Enters
  <1>4. ASSUME NEW r \in Requests, GoesOn(r) PROVE at'[r] = "calling"
    BY <1>4, ProgressMoves DEF GoesOn, gatewayVars, UnderPermit
  <1>5. ASSUME NEW r \in Requests, Elsewhere(r) PROVE pc'[r] \notin Awaits
    BY <1>5 DEF Elsewhere, mtlsVars, vars
  <1>6. ASSUME ApiActs \/ PoolActs \/ TimePasses \/ Stopped \/ UNCHANGED allVars
        PROVE  UnderPermit'
    BY <1>6, NobodyMoves DEF UnderPermit
  <1>7. QED
    BY <1>1, <1>2, <1>3, <1>4, <1>5, <1>6 DEF GatewayNext, CallNext

\* A permit is free when a request queues, so that those before it hold fewer
\* than there are.
LEMMA RoomInFront ==
    ASSUME Q!IndInv, UnderPermit, permits > 0
    PROVE  IsFiniteSet(Suspended) /\ Cardinality(Suspended) < MaxInFlight
  <1> DEFINE Holding == {r \in Requests : Q!HoldsPermit(r)}
  <1>1. Suspended \subseteq Holding
    BY DEF Suspended, UnderPermit, Q!HoldsPermit, Q!InFlight
  <1>2. IsFiniteSet(Holding)
    BY FiniteRequestsAssumption, FS_Subset
  <1>3. /\ IsFiniteSet(Suspended) /\ Cardinality(Suspended) <= Cardinality(Holding)
        /\ Cardinality(Suspended) \in Nat /\ Cardinality(Holding) \in Nat
    BY <1>1, <1>2, FS_Subset, FS_CardinalityType
  <1>4. permits + Cardinality(Holding) = MaxInFlight /\ permits \in Nat
    BY SameCounting DEF Q!IndInv, Q!TypeOK, Q!PermitConservation
  <1>5. QED
    BY <1>3, <1>4, PermitsAssumption

\* Nobody has as many in front as there are permits.
LEMMA FrontPermitsNext ==
    ASSUME TypeOK, Q!IndInv, UnderPermit, FrontWithinPermits, [GatewayNext]_allVars
    PROVE  FrontWithinPermits'
  <1> Q!TypeOK
    BY DEF Q!IndInv
  <1>1. ASSUME NEW r \in Requests, CallNext(r), NEW s \in Requests, s # r, pc'[s] \in Awaits
        PROVE  inFront'[s] < MaxInFlight
    <2>1. pc'[s] = pc[s]
      BY <1>1, OthersStay
    <2>2. inFront'[s] = inFront[s]
      BY <1>1, <2>1 DEF CallNext, Refused, Enters, GoesOn, Ends, Drops, Retimed, Awaits
    <2>3. QED
      BY <1>1, <2>1, <2>2 DEF FrontWithinPermits
  <1>2. ASSUME NEW r \in Requests, Refused(r) \/ Ends(r) \/ Drops(r)
        PROVE  pc'[r] \notin Awaits
    BY <1>2 DEF Refused, RefuseSubject, RefuseOperation, Ends, Drops, Cancel, Return,
                TypeOK, Awaits
  <1>3. ASSUME NEW r \in Requests, Enters(r) PROVE inFront'[r] < MaxInFlight
    <2>1. inFront'[r] = Cardinality(Suspended) /\ permits > 0
      BY <1>3 DEF Enters, Enqueue, Retimed, G!Admit, TypeOK
    <2>2. QED
      BY <2>1, RoomInFront
  <1>4. ASSUME NEW r \in Requests, GoesOn(r) PROVE inFront'[r] < MaxInFlight
    BY <1>4, ProgressMoves DEF GoesOn, Retimed, FrontWithinPermits, Awaits
  <1>5. ASSUME NEW r \in Requests, CallNext(r) PROVE FrontWithinPermits'
    BY <1>1, <1>2, <1>3, <1>4, <1>5 DEF CallNext, FrontWithinPermits
  <1>6. ASSUME NEW r \in Requests, Elsewhere(r) PROVE FrontWithinPermits'
    BY <1>6 DEF Elsewhere, mtlsVars, vars, timedVars, FrontWithinPermits
  <1>7. ASSUME ApiActs \/ PoolActs \/ TimePasses \/ Stopped \/ UNCHANGED allVars
        PROVE  FrontWithinPermits'
    BY <1>7, NobodyMoves DEF FrontWithinPermits
  <1>8. QED
    BY <1>5, <1>6, <1>7 DEF GatewayNext

\* What the client keeps, and what the gateway keeps, holds in the composition.
LEMMA BothHold == GatewaySpec => [](IndInv /\ TimedInv /\ Q!IndInv)
  <1>1. GatewaySpec => []IndInv /\ []TimedInv
    BY GatewayIsTimed, TimedIsMtlsClient, Inductive, TimedInductive, PTL
  <1>2. QED
    BY <1>1, PermitsHold, PTL

\* Every call of the mTLS client is made under a permit, behind fewer calls than
\* there are permits: the semaphore is what bounds the queue of the mutex.
THEOREM CallsUnderPermits == GatewaySpec => [](UnderPermit /\ FrontWithinPermits)
  <1>1. GatewayInit => UnderPermit /\ FrontWithinPermits
    BY DEF GatewayInit, TimedInit, Init, UnderPermit, FrontWithinPermits, Awaits
  <1>2. /\ IndInv /\ TimedInv /\ Q!IndInv
        /\ UnderPermit /\ FrontWithinPermits /\ [GatewayNext]_allVars
        => UnderPermit' /\ FrontWithinPermits'
    BY UnderPermitNext, FrontPermitsNext DEF IndInv, Q!IndInv
  <1>3. QED
    BY <1>1, <1>2, BothHold, PTL DEF GatewaySpec

\* A waiter has waited a hold for each that was in front when it came, at most.
LEMMA WaitBound ==
    ASSUME TypeOK, TimedInv, NEW r \in Requests, pc[r] = "waiting"
    PROVE  age[r] <= Hold * inFront[r]
  <1>1. /\ Left(r) \in Nat /\ Left(r) <= inFront[r] /\ WaitsInTurn(r)
        /\ age[r] \in Nat /\ inFront[r] \in Nat
    BY LeftType DEF TimedInv, QueueInv, WaitsInTurn, TimerInv
  <1>2. CASE \A s \in Requests : ~HoldsLock(s)
    <2>1. age[r] <= Hold * (inFront[r] - Left(r))
      BY <1>1, <1>2 DEF WaitsInTurn
    <2>2. inFront[r] - Left(r) \in Nat /\ inFront[r] - Left(r) <= inFront[r]
      BY <1>1
    <2>3. Hold * (inFront[r] - Left(r)) <= Hold * inFront[r]
      BY <1>1, <2>2, Holds
    <2>4. Hold * (inFront[r] - Left(r)) \in Nat /\ Hold * inFront[r] \in Nat
      BY <1>1, <2>2, Holds
    <2>5. QED
      BY <1>1, <2>1, <2>3, <2>4
  <1>3. ASSUME NEW s \in Requests, HoldsLock(s) PROVE age[r] <= Hold * inFront[r]
    <2>1. age[r] <= Hold * (inFront[r] - Left(r)) + HeldBefore(pc[s]) + timer[s]
      BY <1>1, <1>3 DEF WaitsInTurn
    <2>2. /\ HeldBefore(pc[s]) \in Nat /\ timer[s] \in Nat
          /\ HeldBefore(pc[s]) + timer[s] <= 4 * Timeout
      BY <1>3, HeldBounds, HolderTimer DEF TimedInv, HoldsLock
    <2>3. s \in StillInFront(r)
      BY <1>3 DEF StillInFront
    <2>4. Left(r) # 0
      BY <2>3, LeftType, FS_EmptySet DEF TimedInv, Left
    <2>5. inFront[r] - Left(r) \in Nat /\ (inFront[r] - Left(r)) + 1 <= inFront[r]
      BY <1>1, <2>4
    <2>6. /\ Hold * ((inFront[r] - Left(r)) + 1) = Hold * (inFront[r] - Left(r)) + 4 * Timeout
          /\ Hold * (inFront[r] - Left(r)) \in Nat /\ Hold * inFront[r] \in Nat
      BY <1>1, <2>5, Holds
    <2>7. (inFront[r] - Left(r)) + 1 \in Nat
      BY <2>5
    <2>8. Hold * ((inFront[r] - Left(r)) + 1) <= Hold * inFront[r]
      BY <1>1, <2>5, <2>7, Holds
    <2>9. QED
      BY <1>1, <2>1, <2>2, <2>6, <2>8
  <1>4. QED
    BY <1>2, <1>3

\* With the permits of the gateway in front of it, the bound of MtlsDeadline does
\* not depend on how many requests there are.
THEOREM SentWithinPermitsHolds == GatewaySpec => []SentWithinPermits
  <1>1. IndInv /\ TimedInv /\ FrontWithinPermits => SentWithinPermits
    <2> SUFFICES ASSUME IndInv, TimedInv, FrontWithinPermits, NEW r \in Requests,
                        pc[r] \in Awaits
                 PROVE  /\ pc[r] = "waiting" => age[r] <= Hold * (MaxInFlight - 1)
                        /\ pc[r] \in TimedAwaits =>
                              age[r] <= Hold * (MaxInFlight - 1) + HeldBefore(pc[r]) + timer[r]
      BY DEF SentWithinPermits, TimedAwaits, Awaits
    <2>1. /\ inFront[r] \in Nat /\ age[r] \in Nat /\ timer[r] \in Nat
          /\ inFront[r] <= MaxInFlight - 1 /\ MaxInFlight - 1 \in Nat
      BY PermitsAssumption DEF TimedInv, TimerInv, FrontWithinPermits
    <2>2. Hold * inFront[r] <= Hold * (MaxInFlight - 1)
      BY <2>1, Holds
    <2>3. Hold * inFront[r] \in Nat /\ Hold * (MaxInFlight - 1) \in Nat
      BY <2>1, Holds
    <2>4. ASSUME pc[r] = "waiting" PROVE age[r] <= Hold * (MaxInFlight - 1)
      BY <2>1, <2>2, <2>3, <2>4, WaitBound DEF IndInv
    <2>5. ASSUME pc[r] \in TimedAwaits
          PROVE  age[r] <= Hold * (MaxInFlight - 1) + HeldBefore(pc[r]) + timer[r]
      <3>1. HeldBefore(pc[r]) \in Nat
        BY <2>5, HeldBounds DEF TimedAwaits, LockedAwaits, Awaits
      <3>2. age[r] <= Hold * inFront[r] + HeldBefore(pc[r]) + timer[r]
        BY <2>5 DEF TimedInv, SentWithinBound
      <3>3. QED
        BY <2>1, <2>2, <2>3, <3>1, <3>2
    <2>6. QED
      BY <2>4, <2>5
  <1>2. QED
    BY <1>1, BothHold, CallsUnderPermits, PTL

-------------------------------------------------------------------------------
\* What tcp_read returned is what the handler answered.
AnswerInv ==
    \A r \in Requests :
        outcome[r] # NoOutcome => at[r] = "done" /\ answer[r] = AnswerOf(outcome[r])

\* A step keeps that: the two return together, and nothing answers twice.
LEMMA AnswerNext ==
    ASSUME TypeOK, Q!TypeOK, AnswerInv, [GatewayNext]_allVars
    PROVE  AnswerInv'
  <1>1. ASSUME NEW r \in Requests, CallNext(r) \/ Elsewhere(r),
               outcome'[r] # NoOutcome =>
                  at'[r] = "done" /\ answer'[r] = AnswerOf(outcome'[r])
        PROVE  AnswerInv'
    BY <1>1, OthersStay DEF AnswerInv, AnswerOf
  <1>2. ASSUME NEW r \in Requests, Refused(r)
        PROVE  at'[r] = "done" /\ answer'[r] = AnswerOf(outcome'[r])
    <2>1. outcome'[r] = Err("InvalidRequest")
      BY <1>2 DEF Refused, RefuseSubject, RefuseOperation, Return, TypeOK
    <2>2. at'[r] = "done" /\ answer'[r] = "InvalidRequest"
      BY <1>2 DEF Refused, G!RefuseMode, G!Respond, Q!TypeOK
    <2>3. QED
      BY <2>1, <2>2 DEF AnswerOf, Err
  <1>3. ASSUME NEW r \in Requests, Enters(r) PROVE outcome'[r] = NoOutcome
    <2>1. at[r] = "verifying" /\ outcome' = outcome
      BY <1>3 DEF Enters, Enqueue, G!Admit
    <2>2. QED
      BY <2>1 DEF AnswerInv
  <1>4. ASSUME NEW r \in Requests, GoesOn(r)
        PROVE  outcome' = outcome /\ at' = at /\ answer' = answer
    BY <1>4, ProgressMoves DEF GoesOn, gatewayVars
  <1>5. ASSUME NEW r \in Requests, Ends(r)
        PROVE  at'[r] = "done" /\ answer'[r] = AnswerOf(outcome'[r])
    BY <1>5 DEF Ends, G!CallEnds, G!EndRead, G!Respond, Q!TypeOK
  <1>6. ASSUME NEW r \in Requests, Drops(r)
        PROVE  at'[r] = "done" /\ answer'[r] = AnswerOf(outcome'[r])
    <2>1. outcome'[r] = Cancelled
      BY <1>6 DEF Drops, Cancel, Return, TypeOK
    <2>2. at'[r] = "done" /\ answer'[r] = "cancelled"
      BY <1>6 DEF Drops, G!Cancel, G!EndRead, G!Respond, Q!TypeOK
    <2>3. QED
      BY <2>1, <2>2 DEF AnswerOf, Cancelled
  <1>7. ASSUME NEW r \in Requests, Elsewhere(r) PROVE outcome'[r] = NoOutcome
    <2>1. at[r] # "done" /\ outcome' = outcome
      BY <1>7, GatewayMoves DEF Elsewhere, mtlsVars, vars
    <2>2. QED
      BY <2>1 DEF AnswerInv
  <1>8. ASSUME ApiActs \/ PoolActs \/ TimePasses \/ Stopped \/ UNCHANGED allVars
        PROVE  AnswerInv'
    BY <1>8, NobodyMoves DEF AnswerInv, AnswerOf
  <1>9. ASSUME NEW r \in Requests, CallNext(r) PROVE AnswerInv'
    BY <1>1, <1>2, <1>3, <1>4, <1>5, <1>6, <1>9 DEF CallNext, AnswerInv, AnswerOf
  <1>10. QED
    BY <1>1, <1>7, <1>8, <1>9 DEF GatewayNext

\* A read that the gateway answers from its mTLS mode is answered with its own
\* caller's data, which the API executed the caller's operation for, once.
THEOREM OwnAnswerHolds == GatewaySpec => []OwnAnswer
  <1>1. GatewayInit => AnswerInv
    BY DEF GatewayInit, TimedInit, Init, AnswerInv
  <1>2. IndInv /\ TimedInv /\ Q!IndInv /\ AnswerInv /\ [GatewayNext]_allVars => AnswerInv'
    BY AnswerNext DEF IndInv, Q!IndInv
  <1>3. IndInv /\ AnswerInv => OwnAnswer
    <2> SUFFICES ASSUME IndInv, AnswerInv, NEW r \in Requests,
                        answer[r] = "ok", outcome[r] # NoOutcome
                 PROVE  outcome[r] = Projection(r) /\ executed[r] = 1
      BY DEF OwnAnswer
    <2>1. outcome[r].tag = "Projection" \/ outcome[r].tag = "ok"
      BY DEF AnswerInv, AnswerOf
    <2>2. outcome[r] \in Outcomes
      BY DEF IndInv, TypeOK
    <2>3. outcome[r].tag = "Projection"
      BY <2>1, <2>2 DEF Outcomes, GatewayErrors
    <2>4. outcome[r].owner = r /\ executed[r] = 1
      BY <2>3 DEF IndInv, OwnProjection
    <2>5. QED
      BY <2>2, <2>3, <2>4 DEF Outcomes, Projection
  <1>4. QED
    BY <1>1, <1>2, <1>3, BothHold, PTL DEF GatewaySpec

\* However calls of the client fail, time out or are abandoned, no permit is lost
\* or given back twice, and direct reads never hold all of them.
THEOREM MtlsGatewayConservesPermits ==
    GatewaySpec => []G!PermitConservation /\ []G!DatabaseNeverHoldsAllPermits
  <1> USE DEF Q!HoldsPermit, G!HoldsPermit, Q!InFlight, G!InFlight, Q!Borrowing, G!Borrowing
  <1>1. Q!IndInv => G!PermitConservation
    BY SameCounting DEF Q!IndInv, Q!PermitConservation, G!PermitConservation
  <1>2. Q!IndInv => Q!DatabaseNeverHoldsAllPermits
    BY SameCounting, Q!PermitsLeft,
       FiniteRequestsAssumption, PermitsAssumption, FourModesAssumption
  <1>3. Q!DatabaseNeverHoldsAllPermits => G!DatabaseNeverHoldsAllPermits
    BY DEF Q!DatabaseNeverHoldsAllPermits, G!DatabaseNeverHoldsAllPermits
  <1>4. QED
    BY <1>1, <1>2, <1>3, PermitsHold, PTL
===============================================================================
