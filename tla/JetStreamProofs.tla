---------------------------- MODULE JetStreamProofs ----------------------------
(***************************************************************************)
(* Proofs about JetStreamSubmit for one process, any number of submissions *)
(* and restarts: its operation ids are distinct, what it reports as        *)
(* accepted is in the stream, once, and every step implements one of       *)
(* CorrelatedCall.  None of this holds of two processes.                   *)
(***************************************************************************)
EXTENDS JetStreamSubmit, TLAPS

OneProcess == \A p, q \in Processes : p = q

USE NoneAssumption

\* Nothing is drawn or stored at the start.
LEMMA IndInit == Init => IndInv
  BY DEF Init, IndInv, TypeOK, DrawnInv, StreamInv, OperationIdsDistinct,
         AcceptedIsStored, StoredOnce, FirstSequence, Running, Awaits, Errors

\* The steps of the handlers and of the broker keep the types.
LEMMA TypeNext == TypeOK /\ DrawnInv /\ [Next]_vars => TypeOK'
  <1> SUFFICES ASSUME TypeOK, DrawnInv, [Next]_vars PROVE TypeOK'
    OBVIOUS
  <1> USE DEF TypeOK, Running, Awaits, Errors
  <1>1. ASSUME NEW r \in Requests, RefuseSubject(r) PROVE TypeOK'
    BY <1>1 DEF RefuseSubject, Return
  <1>13. ASSUME NEW r \in Requests, ReadClock(r) PROVE TypeOK'
    BY <1>13 DEF ReadClock
  <1>2. ASSUME NEW r \in Requests, DrawnInv, Submit(r) PROVE TypeOK'
    <2>1. home[r] \in Processes
      BY <1>2 DEF Submit, DrawnInv
    <2>2. NewId(r) \in Ids
      BY <2>1 DEF NewId, Ids
    <2>3. QED
      BY <1>2, <2>1, <2>2 DEF Submit, Return
  <1>3. ASSUME NEW r \in Requests, Publish(r) PROVE TypeOK'
    BY <1>3 DEF Publish
  <1>4. ASSUME NEW r \in Requests, PublishFails(r) PROVE TypeOK'
    BY <1>4 DEF PublishFails, Return
  <1>5. ASSUME NEW r \in Requests, Acknowledge(r) PROVE TypeOK'
    BY <1>5 DEF Acknowledge, Return
  <1>6. ASSUME NEW r \in Requests, AcknowledgeFails(r) PROVE TypeOK'
    BY <1>6 DEF AcknowledgeFails, Return
  <1>7. ASSUME NEW r \in Requests, BrokerTakes(r) PROVE TypeOK'
    BY <1>7 DEF BrokerTakes
  <1>8. ASSUME NEW r \in Requests, Loses(r) PROVE TypeOK'
    BY <1>8 DEF Loses
  <1>9. CASE Tick \/ SetBack
    BY <1>9 DEF Tick, SetBack
  <1>10. ASSUME NEW p \in Processes, ClockOverRestart(p), Restart(p) PROVE TypeOK'
    BY <1>10 DEF ClockOverRestart, Restart, FirstSequence
  <1>11. CASE Finished \/ UNCHANGED vars
    BY <1>11 DEF Finished, vars
  <1>12. QED
    BY <1>1, <1>2, <1>3, <1>4, <1>5, <1>6, <1>7, <1>8, <1>9, <1>10, <1>11, <1>13
    DEF Next, Progress

\* A new id lies outside the ids drawn before, and behind the counter after.
LEMMA DrawNext ==
    OneProcess /\ TypeOK /\ DrawnInv /\ StreamInv /\ OperationIdsDistinct /\ [Next]_vars
       => DrawnInv' /\ OperationIdsDistinct'
  <1> SUFFICES ASSUME OneProcess, TypeOK, DrawnInv, StreamInv,
                      OperationIdsDistinct, [Next]_vars
               PROVE  (DrawnInv /\ OperationIdsDistinct)'
    OBVIOUS
  <1>0. CASE /\ UNCHANGED <<clock, started, sequence, home, stamp, operationId>>
             /\ \A s \in Requests : pc'[s] = "stamped" => pc[s] = "stamped"
    BY <1>0 DEF DrawnInv, OperationIdsDistinct
  <1>5. ASSUME NEW r \in Requests, ReadClock(r) PROVE (DrawnInv /\ OperationIdsDistinct)'
    <2>1. PICK p \in Processes : home' = [home EXCEPT ![r] = p]
      BY <1>5 DEF ReadClock
    <2>2. /\ stamp'[r] = clock /\ home'[r] = p /\ started[p] <= clock
          /\ operationId[r] = None
          /\ \A s \in Requests \ {r} :
                stamp'[s] = stamp[s] /\ home'[s] = home[s] /\ pc'[s] = pc[s]
      BY <1>5, <2>1 DEF ReadClock, TypeOK, DrawnInv, StreamInv
    <2>3. QED
      BY <1>5, <2>2 DEF ReadClock, DrawnInv, OperationIdsDistinct
  <1>1. ASSUME NEW r \in Requests, Submit(r) PROVE (DrawnInv /\ OperationIdsDistinct)'
    <2> PICK p \in Processes :
           /\ home[r] = p /\ started[p] <= stamp[r]
           /\ operationId' = [operationId EXCEPT ![r] = NewId(r)]
           /\ sequence' = [sequence EXCEPT ![p] = @ + 1]
      BY <1>1 DEF Submit, DrawnInv
    <2> PICK id : id = NewId(r)
      OBVIOUS
    <2>1. id.ms = stamp[r] /\ id.seq = sequence[p] /\ id # None
      BY <1>1 DEF NewId, Ids, TypeOK
    <2>2. /\ sequence[p] \in Nat /\ sequence'[p] = sequence[p] + 1
          /\ started[p] \in Nat /\ stamp[r] \in Nat
          /\ UNCHANGED <<clock, started, home, stamp>>
      BY <1>1 DEF TypeOK, Submit
    <2>3. \A q \in Processes : q = p
      BY DEF OneProcess
    <2>4. \A s \in Requests : operationId[s] # None =>
             /\ home[s] = p
             /\ operationId[s].ms \in Nat /\ operationId[s].seq \in Nat
             /\ operationId[s].ms < started[p] \/ operationId[s].seq < sequence[p]
      BY <2>3 DEF TypeOK, DrawnInv, StreamInv, Ids
    <2>5. \A s \in Requests : operationId[s] # id
      BY <2>1, <2>2, <2>4 DEF TypeOK
    <2>6. /\ operationId'[r] = id
          /\ \A s \in Requests : s # r => operationId'[s] = operationId[s]
          /\ \A s \in Requests : pc'[s] = "stamped" => pc[s] = "stamped"
      BY <1>1 DEF TypeOK, Submit, Return
    <2>7. OperationIdsDistinct'
      BY <2>5, <2>6 DEF OperationIdsDistinct
    <2>8. DrawnInv'
      <3>1. \A s \in Requests : operationId'[s] # None =>
               operationId'[s].ms < started[p] \/ operationId'[s].seq < sequence'[p]
        BY <2>1, <2>2, <2>4, <2>6
      <3>2. QED
        BY <2>2, <2>3, <2>6, <3>1 DEF DrawnInv, TypeOK
    <2>9. QED
      BY <2>7, <2>8
  <1>2. CASE Tick \/ SetBack
    BY <1>2 DEF Tick, SetBack, DrawnInv, OperationIdsDistinct, TypeOK
  <1>3. ASSUME NEW p \in Processes, ClockOverRestart(p), Restart(p)
        PROVE (DrawnInv /\ OperationIdsDistinct)'
    <2>1. /\ UNCHANGED <<home, operationId>> /\ clock' = clock + 1
          /\ started' = [started EXCEPT ![p] = clock + 1]
          /\ \A r \in Requests :
                home[r] = p /\ operationId[r] # None => operationId[r].ms <= clock
      BY <1>3 DEF ClockOverRestart, Restart
    <2>2. \A r \in Requests : operationId[r] # None =>
             home[r] = p /\ operationId[r].ms \in Nat
      BY DEF StreamInv, TypeOK, Ids, OneProcess
    <2>3. started'[p] = clock' /\ \A q \in Processes : q = p
      BY <2>1 DEF OneProcess, TypeOK
    <2>4. \A r \in Requests : operationId[r] # None => operationId[r].ms < started'[p]
      BY <2>1, <2>2, <2>3 DEF TypeOK
    <2>5. clock \in Nat
      BY DEF TypeOK
    <2>7. \A r \in Requests : pc'[r] # "stamped"
      BY <1>3, <2>3 DEF Restart, Running, DrawnInv
    <2>6. QED
      BY <2>1, <2>3, <2>4, <2>5, <2>7 DEF DrawnInv, OperationIdsDistinct
  <1>4. QED
    BY <1>0, <1>1, <1>2, <1>3, <1>5
    DEF Next, Progress, RefuseSubject, Publish, PublishFails, Acknowledge,
        AcknowledgeFails, BrokerTakes, Loses, Finished, vars, Return, TypeOK

\* The stream holds each acknowledged operation once.
LEMMA StreamNext ==
    /\ TypeOK /\ DrawnInv /\ StreamInv /\ OperationIdsDistinct
    /\ AcceptedIsStored /\ StoredOnce /\ [Next]_vars
    => StreamInv' /\ AcceptedIsStored' /\ StoredOnce'
  <1> SUFFICES ASSUME TypeOK, DrawnInv, StreamInv, OperationIdsDistinct,
                      AcceptedIsStored, StoredOnce, [Next]_vars
               PROVE  (StreamInv /\ AcceptedIsStored /\ StoredOnce)'
    OBVIOUS
  <1> DEFINE P == StreamInv /\ AcceptedIsStored /\ StoredOnce
  <1> USE DEF TypeOK, StreamInv, AcceptedIsStored, StoredOnce, Running, Awaits
  <1>1. ASSUME NEW r \in Requests, RefuseSubject(r) PROVE P'
    BY <1>1 DEF RefuseSubject, Return
  <1>13. ASSUME NEW r \in Requests, ReadClock(r) PROVE P'
    <2>1. PICK p \in Processes : home' = [home EXCEPT ![r] = p]
      BY <1>13 DEF ReadClock
    <2>2. QED
      BY <1>13, <2>1 DEF ReadClock
  <1>2. ASSUME NEW r \in Requests, Submit(r) PROVE P'
    <2>1. /\ UNCHANGED home /\ home[r] \in Processes
          /\ operationId' = [operationId EXCEPT ![r] = NewId(r)]
      BY <1>2 DEF Submit, DrawnInv
    <2>2. NewId(r) # None
      BY <2>1 DEF NewId, Ids
    <2>3. \A s \in Requests : /\ s # r => operationId'[s] = operationId[s]
                              /\ operationId[s] # None => operationId'[s] # None
                              /\ operationId'[s] # None => home'[s] \in Processes
      BY <2>1, <2>2
    <2>4. /\ operationId'[r] # None /\ pc'[r] \in {"done", "publishing"}
          /\ outcome'[r] # "accepted"
      BY <1>2, <2>1, <2>2 DEF Submit, Return
    <2>5. /\ \A s \in Requests : s # r => pc'[s] = pc[s] /\ outcome'[s] = outcome[s]
          /\ UNCHANGED <<network, stored, acks>>
      BY <1>2 DEF Submit, Return
    <2>6. QED
      BY <2>3, <2>4, <2>5
  <1>3. ASSUME NEW r \in Requests, Publish(r) PROVE P'
    BY <1>3 DEF Publish
  <1>4. ASSUME NEW r \in Requests, PublishFails(r) PROVE P'
    BY <1>4 DEF PublishFails, Return
  <1>5. ASSUME NEW r \in Requests, Acknowledge(r) PROVE P'
    BY <1>5 DEF Acknowledge, Return
  <1>6. ASSUME NEW r \in Requests, AcknowledgeFails(r) PROVE P'
    BY <1>6 DEF AcknowledgeFails, Return
  <1>7. ASSUME NEW r \in Requests, BrokerTakes(r) PROVE P'
    <2>1. operationId[r] # None
      BY <1>7 DEF BrokerTakes
    <2>2. /\ DedupeKey(r) # None
          /\ \A s \in Requests : stored[s] > 0 /\ DedupeKey(s) = DedupeKey(r) => s = r
      BY <2>1 DEF DedupeKey, OperationIdsDistinct
    <2>3. stored'[r] = 1 /\ \A s \in Requests : s # r => stored'[s] = stored[s]
      <3>1. CASE \E s \in Requests : stored[s] > 0 /\ DedupeKey(s) = DedupeKey(r)
        BY <1>7, <2>2, <3>1 DEF BrokerTakes
      <3>2. CASE ~\E s \in Requests : stored[s] > 0 /\ DedupeKey(s) = DedupeKey(r)
        <4>1. stored[r] = 0 /\ stored' = [stored EXCEPT ![r] = @ + 1]
          BY <1>7, <3>2 DEF BrokerTakes
        <4>2. QED
          BY <4>1
      <3>3. QED
        BY <3>1, <3>2
    <2>4. /\ UNCHANGED <<home, pc, operationId, outcome>>
          /\ acks' = acks \cup {r} /\ network' \subseteq network
      BY <1>7 DEF BrokerTakes
    <2>5. QED
      BY <2>1, <2>3, <2>4
  <1>8. ASSUME NEW r \in Requests, Loses(r) PROVE P'
    BY <1>8 DEF Loses
  <1>9. CASE Tick \/ SetBack
    BY <1>9 DEF Tick, SetBack
  <1>10. ASSUME NEW p \in Processes, Restart(p) PROVE P'
    BY <1>10 DEF Restart
  <1>11. CASE Finished \/ UNCHANGED vars
    BY <1>11 DEF Finished, vars
  <1>12. QED
    BY <1>1, <1>2, <1>3, <1>4, <1>5, <1>6, <1>7, <1>8, <1>9, <1>10, <1>11, <1>13
    DEF Next, Progress

\* With one process the invariant holds of every behaviour.
THEOREM Inductive == ASSUME OneProcess PROVE Spec => []IndInv
  <1>1. IndInv /\ [Next]_vars => IndInv'
    BY TypeNext, DrawNext, StreamNext DEF IndInv
  <1>2. QED
    BY <1>1, IndInit, PTL DEF Spec

\* A process never gives two operations one id, before and after any restarts.
THEOREM OperationIdsDistinctHolds ==
    ASSUME OneProcess PROVE Spec => []OperationIdsDistinct
  <1>1. IndInv => OperationIdsDistinct
    BY DEF IndInv
  <1>2. QED
    BY <1>1, Inductive, PTL

\* What one process reports as accepted is in the stream, once.
THEOREM AcceptedIsStoredHolds ==
    ASSUME OneProcess PROVE Spec => []AcceptedIsStored
  <1>1. IndInv => AcceptedIsStored
    BY DEF IndInv
  <1>2. QED
    BY <1>1, Inductive, PTL

\* What one process publishes is in the stream at most once, whatever the
\* network repeats.
THEOREM StoredOnceHolds ==
    ASSUME OneProcess PROVE Spec => []StoredOnce
  <1>1. IndInv => StoredOnce
    BY DEF IndInv
  <1>2. QED
    BY <1>1, Inductive, PTL

\* The state of the submissions of one process keeps its shape.
THEOREM TypeCorrect == ASSUME OneProcess PROVE Spec => []TypeOK
  <1>1. IndInv => TypeOK
    BY DEF IndInv
  <1>2. QED
    BY <1>1, Inductive, PTL

-------------------------------------------------------------------------------
\* A submission has an outcome when it has returned and not before.
OutcomeInv == \A r \in Requests : outcome[r] # "none" <=> pc[r] = "done"

\* Every step keeps OutcomeInv.
LEMMA OutcomeNext == TypeOK /\ OutcomeInv /\ [Next]_vars => OutcomeInv'
  <1> SUFFICES ASSUME TypeOK, OutcomeInv, [Next]_vars PROVE OutcomeInv'
    OBVIOUS
  <1> USE DEF OutcomeInv, TypeOK, Return, Running, Awaits
  <1>1. ASSUME NEW r \in Requests, RefuseSubject(r) \/ ReadClock(r) PROVE OutcomeInv'
    BY <1>1 DEF RefuseSubject, ReadClock
  <1>2. ASSUME NEW r \in Requests, Progress(r) PROVE OutcomeInv'
    BY <1>2 DEF Progress, Submit, Publish, PublishFails, Acknowledge, AcknowledgeFails
  <1>3. ASSUME NEW r \in Requests, BrokerTakes(r) \/ Loses(r) PROVE OutcomeInv'
    BY <1>3 DEF BrokerTakes, Loses
  <1>4. ASSUME NEW p \in Processes, Restart(p) PROVE OutcomeInv'
    BY <1>4 DEF Restart
  <1>5. CASE Tick \/ SetBack \/ Finished \/ UNCHANGED vars
    BY <1>5 DEF Tick, SetBack, Finished, vars
  <1>6. QED
    BY <1>1, <1>2, <1>3, <1>4, <1>5 DEF Next

\* The id an accepted caller was told stands for its own operation.
OwnIdInv ==
    [r \in Requests |-> OwnerToldTo(r)]
       = [r \in Requests |-> IF outcome[r] = "accepted" THEN r ELSE None]

\* That follows from ids being distinct.
LEMMA OwnId == IndInv => OwnIdInv
  <1> SUFFICES ASSUME IndInv PROVE OwnIdInv
    OBVIOUS
  <1>1. ASSUME NEW r \in Requests, outcome[r] = "accepted" PROVE OwnerToldTo(r) = r
    <2>1. stored[r] > 0 /\ operationId[r] # None
      BY <1>1 DEF IndInv, AcceptedIsStored, StreamInv
    <2>2. \A s \in Requests : operationId[s] = operationId[r] <=> s = r
      BY <2>1 DEF IndInv, OperationIdsDistinct
    <2>3. QED
      BY <1>1, <2>2 DEF OwnerToldTo
  <1>2. QED
    BY <1>1 DEF OwnIdInv, OwnerToldTo

\* Every step of one process, the network and the broker is a step of
\* CorrelatedCall or none.
LEMMA RefinementStep ==
    IndInv /\ OwnIdInv /\ OwnIdInv' /\ OutcomeInv /\ [Next]_vars
       => [Abstract!CallNext]_(Abstract!callVars)
  <1> SUFFICES ASSUME IndInv, OwnIdInv, OwnIdInv', OutcomeInv, [Next]_vars
               PROVE  [Abstract!CallNext]_(Abstract!callVars)
    OBVIOUS
  <1> DEFINE call == [r \in Requests |-> CallOf(r)]
             shown == [r \in Requests |-> OwnerToldTo(r)]
             told == [r \in Requests |-> IF outcome[r] = "accepted" THEN r ELSE None]
  <1>00. TypeOK /\ StreamInv /\ AcceptedIsStored /\ shown = told /\ shown' = told'
    BY DEF IndInv, OwnIdInv
  <1>01. \A r \in Requests : Abstract!Fail(r) \/ Abstract!Start(r) \/ Abstract!Answer(r)
                                \/ Abstract!Execute(r) => Abstract!CallNext
    BY DEF Abstract!CallNext
  <1>02. ASSUME UNCHANGED <<outcome, stored>>,
                \A r \in Requests : pc'[r] = pc[r]
                                      \/ (pc[r] \in Running /\ pc'[r] \in Running)
         PROVE  UNCHANGED Abstract!callVars
    <2>1. call' = call
      BY <1>02 DEF CallOf, Running, Awaits
    <2>2. told' = told
      BY <1>02
    <2>3. QED
      BY <1>00, <1>02, <2>1, <2>2 DEF Abstract!callVars
  <1>03. ASSUME NEW r \in Requests, NEW error \in Errors \cup {"cancelled"},
                pc[r] \in Running \cup {"idle"}, Return(r, error), UNCHANGED stored
         PROVE  Abstract!CallNext
    <2>1. call[r] \in {"idle", "pending"}
      BY <1>03 DEF CallOf, Running, Awaits
    <2>2. call' = [call EXCEPT ![r] = "failed"]
      BY <1>03, <1>00 DEF Return, CallOf, TypeOK, Running, Awaits, Errors
    <2>3. told' = told
      BY <1>03, <1>00 DEF Return, TypeOK, Running, Awaits, Errors, OutcomeInv
    <2>4. QED
      BY <1>00, <1>01, <1>03, <2>1, <2>2, <2>3 DEF Abstract!Fail
  <1>1. ASSUME NEW r \in Requests, RefuseSubject(r) PROVE Abstract!CallNext
    BY <1>1, <1>03 DEF RefuseSubject, Errors
  <1>11. ASSUME NEW r \in Requests, ReadClock(r) PROVE Abstract!CallNext
    <2>1. call[r] = "idle" /\ call' = [call EXCEPT ![r] = "pending"]
      BY <1>11, <1>00 DEF ReadClock, CallOf, TypeOK, Running, Awaits
    <2>2. told' = told /\ stored' = stored
      BY <1>11 DEF ReadClock
    <2>3. QED
      BY <1>00, <1>01, <2>1, <2>2 DEF Abstract!Start
  <1>2. ASSUME NEW r \in Requests, Submit(r)
        PROVE  [Abstract!CallNext]_(Abstract!callVars)
    <2>1. CASE Return(r, "InvalidRequest")
      BY <1>2, <2>1, <1>03 DEF Submit, Errors, Running
    <2>2. CASE pc' = [pc EXCEPT ![r] = "publishing"] /\ UNCHANGED outcome
      BY <1>2, <2>2, <1>00, <1>02 DEF Submit, TypeOK, Running, Awaits
    <2>3. QED
      BY <1>2, <2>1, <2>2 DEF Submit
  <1>3. ASSUME NEW r \in Requests, Publish(r) PROVE UNCHANGED Abstract!callVars
    BY <1>3, <1>00, <1>02 DEF Publish, TypeOK, Running, Awaits
  <1>4. ASSUME NEW r \in Requests, PublishFails(r) \/ AcknowledgeFails(r)
        PROVE  Abstract!CallNext
    BY <1>4, <1>03 DEF PublishFails, AcknowledgeFails, Running, Awaits, Errors
  <1>5. ASSUME NEW r \in Requests, Acknowledge(r) PROVE Abstract!CallNext
    <2>1. call[r] = "pending" /\ stored[r] = 1 /\ stored' = stored
      BY <1>5, <1>00 DEF Acknowledge, CallOf, Running, Awaits, StreamInv
    <2>2. call' = [call EXCEPT ![r] = "answered"]
      BY <1>5, <1>00 DEF Acknowledge, Return, CallOf, TypeOK, Running, Awaits
    <2>3. told' = [told EXCEPT ![r] = r]
      BY <1>5, <1>00 DEF Acknowledge, Return, TypeOK
    <2>4. QED
      BY <1>00, <1>01, <2>1, <2>2, <2>3 DEF Abstract!Answer
  <1>6. ASSUME NEW r \in Requests, BrokerTakes(r) PROVE [Abstract!CallNext]_(Abstract!callVars)
    <2>1. UNCHANGED <<pc, operationId, outcome>> /\ operationId[r] # None
      BY <1>6, <1>00 DEF BrokerTakes, StreamInv
    <2>2. CASE stored' = stored
      BY <2>1, <2>2, <1>02
    <2>3. CASE stored' # stored
      <3>1. ~(stored[r] > 0) /\ stored' = [stored EXCEPT ![r] = @ + 1]
        BY <1>6, <2>1, <2>3 DEF BrokerTakes, DedupeKey
      <3>2. stored[r] = 0 /\ stored' = [stored EXCEPT ![r] = 1]
        <4>1. stored[r] \in Nat
          BY <1>00 DEF TypeOK
        <4>2. stored[r] = 0
          BY <3>1, <4>1
        <4>3. QED
          BY <3>1, <4>2
      <3>3. outcome[r] # "accepted" /\ pc[r] # "idle"
        BY <2>1, <3>2, <1>00 DEF AcceptedIsStored, StreamInv
      <3>4. call[r] \in {"pending", "failed"}
        BY <3>3, <1>00 DEF CallOf, TypeOK
      <3>5. call' = call /\ told' = told
        BY <2>1 DEF CallOf
      <3>6. QED
        BY <1>00, <1>01, <3>2, <3>4, <3>5 DEF Abstract!Execute
    <2>4. QED
      BY <2>2, <2>3
  <1>7. ASSUME NEW r \in Requests, Loses(r) PROVE UNCHANGED Abstract!callVars
    BY <1>7, <1>02 DEF Loses
  <1>8. ASSUME NEW p \in Processes, Restart(p) PROVE Abstract!CallNext
    <2> DEFINE served == {r \in Requests : home[r] = p /\ pc[r] \in Running}
    <2>1. \A r \in served : call[r] = "pending"
      BY DEF CallOf, Running, Awaits
    <2>2. call' = [r \in Requests |-> IF r \in served THEN "failed" ELSE call[r]]
      BY <1>8 DEF Restart, CallOf, Running, Awaits
    <2>3. told' = told /\ stored' = stored
      BY <1>8, <1>00 DEF Restart, OutcomeInv, Running, Awaits
    <2>4. Abstract!Crash(served)
      BY <1>00, <2>1, <2>2, <2>3 DEF Abstract!Crash
    <2>5. QED
      BY <2>4 DEF Abstract!CallNext
  <1>9. CASE Tick \/ SetBack \/ Finished \/ UNCHANGED vars
    BY <1>9, <1>02 DEF Tick, SetBack, Finished, vars
  <1>10. QED
    BY <1>1, <1>2, <1>3, <1>4, <1>5, <1>6, <1>7, <1>8, <1>9, <1>11 DEF Next, Progress

\* The submissions of one process implement CorrelatedCall: whatever the network
\* loses or repeats and however often the process dies, an operation takes
\* effect once at most, and its caller is told of its own, after the effect.
THEOREM Refinement == ASSUME OneProcess PROVE Spec => CorrelatedCallSpec
  <1>1. Init => OutcomeInv /\ Abstract!CallInit
    <2> SUFFICES ASSUME Init PROVE OutcomeInv /\ Abstract!CallInit
      OBVIOUS
    <2>1. \A r \in Requests : pc[r] = "idle" /\ outcome[r] = "none"
      BY DEF Init
    <2>2. \A r \in Requests : CallOf(r) = "idle" /\ OwnerToldTo(r) = None
      BY <2>1 DEF CallOf, OwnerToldTo, Running, Awaits
    <2>3. stored = [r \in Requests |-> 0]
      BY DEF Init
    <2>4. QED
      BY <2>1, <2>2, <2>3 DEF OutcomeInv, Abstract!CallInit
  <1>2. Spec => []OutcomeInv
    <2>1. IndInv => TypeOK
      BY DEF IndInv
    <2>2. QED
      BY <1>1, <2>1, OutcomeNext, Inductive, PTL DEF Spec
  <1>3. Spec => []OwnIdInv
    BY Inductive, OwnId, PTL
  <1>4. QED
    BY <1>1, <1>2, <1>3, RefinementStep, Inductive, PTL
    DEF Spec, CorrelatedCallSpec, Abstract!CallSpec
===============================================================================
