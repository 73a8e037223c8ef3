---------------------------- MODULE JetStreamSubmit ----------------------------
(***************************************************************************)
(* The jetstream_submit path of src/data_plane.rs: a handler reads the     *)
(* clock, draws from the counter of its process, and makes its operation   *)
(* id of both; it publishes the attested operation with that id as its     *)
(* deduplication id, awaits the acknowledgement of the broker and reports  *)
(* the operation as accepted.  Handlers run on several threads.  Both      *)
(* awaits are under a timeout; the handler can be dropped at either; a     *)
(* process can die and start again, with its counter back at its start.    *)
(* What the clock may do is an assumption about the environment, apart     *)
(* from the actions of the code: SetBack and ClockOverRestart.             *)
(*                                                                         *)
(* The broker (external) keeps at most one message per deduplication id    *)
(* and acknowledges a duplicate like a first copy.  A message on its way   *)
(* can be lost or arrive twice.  The message of a request is named after   *)
(* the request.                                                            *)
(***************************************************************************)
EXTENDS Naturals

CONSTANTS Requests,     \* submissions, each by a caller of its own
          Processes,    \* the replicas of the web server
          MaxClock,     \* bound: milliseconds that pass
          None          \* "no operation id", "no process"

ASSUME MaxClockAssumption == MaxClock \in Nat

Ids == [ms : Nat, seq : Nat]

ASSUME NoneAssumption == None \notin Processes /\ None \notin Ids

VARIABLES
    clock,              \* the wall clock, in milliseconds, shared by replicas
    started,            \* when each process started
    sequence,           \* OPERATION_SEQUENCE of each process
    home,               \* the process that serves a request
    pc,                 \* the statement a request is at
    stamp,              \* the clock as it read it
    operationId,        \* its operation id
    outcome,            \* what jetstream_submit returned
    network,            \* messages on their way to the broker
    stored,             \* copies of each message in the stream
    acks                \* requests whose acknowledgement is on its way

vars == <<clock, started, sequence, home, pc, stamp, operationId, outcome, network,
          stored, acks>>

Awaits == {"publishing", "acknowledging"}
Running == Awaits \cup {"stamped"}
Errors == {"InvalidRequest", "Timeout", "Upstream"}

\* AtomicU64::new(1)
FirstSequence == 1

Init ==
    /\ clock = 0
    /\ started = [p \in Processes |-> 0]
    /\ sequence = [p \in Processes |-> FirstSequence]
    /\ home = [r \in Requests |-> None]
    /\ pc = [r \in Requests |-> "idle"]
    /\ stamp = [r \in Requests |-> 0]
    /\ operationId = [r \in Requests |-> None]
    /\ outcome = [r \in Requests |-> "none"]
    /\ network = {}
    /\ stored = [r \in Requests |-> 0]
    /\ acks = {}

\* Fault: the clock is left out of the operation id.
NewId_SequenceOnly(r) == [ms |-> 0, seq |-> sequence[home[r]]]

\* format!("web-{now}-{sequence}")
NewId(r) == [ms |-> stamp[r], seq |-> sequence[home[r]]]

\* Fault: the message leaves without the header.
DedupeKey_NoHeader(r) == None

\* The Nats-Msg-Id header of a request's message, None if it has none.
DedupeKey(r) == operationId[r]

Return(r, result) ==
    /\ pc' = [pc EXCEPT ![r] = "done"]
    /\ outcome' = [outcome EXCEPT ![r] = result]

-------------------------------------------------------------------------------
\* A subject validate_identifier refuses: nothing is drawn from the counter.
RefuseSubject(r) ==
    /\ pc[r] = "idle"
    /\ Return(r, "InvalidRequest")
    /\ UNCHANGED <<clock, started, sequence, home, stamp, operationId, network, stored, acks>>

\* now_unix_ms; other handlers of the process may run before the counter is drawn.
ReadClock(r) ==
    /\ pc[r] = "idle"
    /\ \E p \in Processes : home' = [home EXCEPT ![r] = p]
    /\ stamp' = [stamp EXCEPT ![r] = clock]
    /\ pc' = [pc EXCEPT ![r] = "stamped"]
    /\ UNCHANGED <<clock, started, sequence, operationId, outcome, network, stored, acks>>

\* fetch_add, and the envelope is made; it is refused by the contract or for its
\* size, or its publication begins.
Submit(r) ==
    /\ pc[r] = "stamped"
    /\ operationId' = [operationId EXCEPT ![r] = NewId(r)]
    /\ sequence' = [sequence EXCEPT ![home[r]] = @ + 1]
    /\ \/ Return(r, "InvalidRequest")
       \/ pc' = [pc EXCEPT ![r] = "publishing"] /\ UNCHANGED outcome
    /\ UNCHANGED <<clock, started, home, stamp, network, stored, acks>>

\* Fault: the operation is accepted once it is published.
Publish_AndAccept(r) ==
    /\ pc[r] = "publishing"
    /\ network' = network \cup {r}
    /\ Return(r, "accepted")
    /\ UNCHANGED <<clock, started, sequence, home, stamp, operationId, stored, acks>>

\* publish_with_headers returns: the message left, its ack is still to come.
Publish(r) ==
    /\ pc[r] = "publishing"
    /\ network' = network \cup {r}
    /\ pc' = [pc EXCEPT ![r] = "acknowledging"]
    /\ UNCHANGED <<clock, started, sequence, home, stamp, operationId, outcome, stored, acks>>

\* It fails or times out, or the handler is dropped; the message may have left.
PublishFails(r) ==
    /\ pc[r] = "publishing"
    /\ \E error \in {"Timeout", "Upstream", "cancelled"} : Return(r, error)
    /\ network' \in {network, network \cup {r}}
    /\ UNCHANGED <<clock, started, sequence, home, stamp, operationId, stored, acks>>

\* The acknowledgement arrives; its duplicate flag is not looked at.
Acknowledge(r) ==
    /\ pc[r] = "acknowledging"
    /\ r \in acks
    /\ Return(r, "accepted")
    /\ acks' = acks \ {r}
    /\ UNCHANGED <<clock, started, sequence, home, stamp, operationId, network, stored>>

\* Fault: only an error ends the wait for the acknowledgement.
AcknowledgeFails_NoTimer(r) ==
    /\ pc[r] = "acknowledging"
    /\ r \in acks
    /\ Return(r, "Upstream")
    /\ UNCHANGED <<clock, started, sequence, home, stamp, operationId, network, stored, acks>>

\* The broker reports an error, OPERATION_TIMEOUT elapses, or the handler is
\* dropped; the message may be stored all the same.
AcknowledgeFails(r) ==
    /\ pc[r] = "acknowledging"
    /\ \E error \in {"Timeout", "Upstream", "cancelled"} : Return(r, error)
    /\ UNCHANGED <<clock, started, sequence, home, stamp, operationId, network, stored, acks>>

\* The broker takes a message: it keeps the first of its deduplication id and
\* acknowledges every copy.  A second copy may still be on its way.
BrokerTakes(r) ==
    /\ r \in network
    /\ stored' = IF /\ DedupeKey(r) # None
                    /\ \E s \in Requests : stored[s] > 0 /\ DedupeKey(s) = DedupeKey(r)
                 THEN stored
                 ELSE [stored EXCEPT ![r] = @ + 1]
    /\ acks' = acks \cup {r}
    /\ network' \in {network, network \ {r}}
    /\ UNCHANGED <<clock, started, sequence, home, pc, stamp, operationId, outcome>>

\* A message, or an acknowledgement, is lost.
Loses(r) ==
    /\ \/ r \in network /\ network' = network \ {r} /\ UNCHANGED acks
       \/ r \in acks /\ acks' = acks \ {r} /\ UNCHANGED network
    /\ UNCHANGED <<clock, started, sequence, home, pc, stamp, operationId, outcome, stored>>

\* A millisecond passes.
Tick ==
    /\ clock < MaxClock
    /\ clock' = clock + 1
    /\ UNCHANGED <<started, sequence, home, pc, stamp, operationId, outcome, network, stored, acks>>

\* The clock is set back, as far as the start of the process that started last.
SetBack ==
    /\ \E earlier \in 0 .. clock - 1 :
          (\A p \in Processes : started[p] <= earlier) /\ clock' = earlier
    /\ UNCHANGED <<started, sequence, home, pc, stamp, operationId, outcome, network, stored, acks>>

\* Environment: a restart takes a millisecond at least, and at its end the clock
\* has passed the ids the process drew before.
ClockOverRestart(p) ==
    /\ clock < MaxClock
    /\ clock' = clock + 1
    /\ \A r \in Requests :
          home[r] = p /\ operationId[r] # None => operationId[r].ms <= clock

\* A process dies and starts again: its handlers are gone, its counter starts over.
Restart(p) ==
    /\ started' = [started EXCEPT ![p] = clock']
    /\ sequence' = [sequence EXCEPT ![p] = FirstSequence]
    /\ pc' = [r \in Requests |->
                 IF home[r] = p /\ pc[r] \in Running THEN "done" ELSE pc[r]]
    /\ outcome' = [r \in Requests |->
                 IF home[r] = p /\ pc[r] \in Running THEN "cancelled" ELSE outcome[r]]
    /\ UNCHANGED <<home, stamp, operationId, network, stored, acks>>

Progress(r) ==
    Submit(r) \/ Publish(r) \/ PublishFails(r) \/ Acknowledge(r) \/ AcknowledgeFails(r)

Finished == (\A r \in Requests : pc[r] = "done") /\ UNCHANGED vars

Next ==
    \/ \E r \in Requests :
          \/ RefuseSubject(r) \/ ReadClock(r) \/ Progress(r)
          \/ BrokerTakes(r) \/ Loses(r)
    \/ Tick \/ SetBack
    \/ \E p \in Processes : ClockOverRestart(p) /\ Restart(p)
    \/ Finished

Spec == Init /\ [][Next]_vars

\* The timers fire and ready tasks run; the broker owes nothing.
FairSpec == Spec /\ \A r \in Requests : WF_vars(Progress(r))

-------------------------------------------------------------------------------
\* The shape of the state.
TypeOK ==
    /\ clock \in Nat /\ started \in [Processes -> Nat]
    /\ sequence \in [Processes -> Nat \ {0}]
    /\ home \in [Requests -> Processes \cup {None}]
    /\ pc \in [Requests -> Running \cup {"idle", "done"}]
    /\ stamp \in [Requests -> Nat]
    /\ operationId \in [Requests -> Ids \cup {None}]
    /\ outcome \in [Requests -> Errors \cup {"none", "accepted", "cancelled"}]
    /\ network \subseteq Requests
    /\ stored \in [Requests -> Nat]
    /\ acks \subseteq Requests

\* No two operations get the same id: the counter tells those of one life of the
\* process apart, whatever the clock does meanwhile, and the clock those of two.
OperationIdsDistinct ==
    \A r, s \in Requests :
        operationId[r] # None /\ operationId[r] = operationId[s] => r = s

\* An operation reported as accepted is the caller's own operation, in the
\* stream once.  An acknowledgement alone does not say so: the broker gives it
\* to a message it drops as a duplicate too.
AcceptedIsStored ==
    \A r \in Requests : outcome[r] = "accepted" => stored[r] = 1

\* No operation is in the stream twice, though its message may arrive twice.
StoredOnce == \A r \in Requests : stored[r] <= 1

\* What makes the properties above inductive: an id is older than the process as
\* it runs now, or lies behind its counter; one that is being made is not older.
DrawnInv ==
    /\ \A r \in Requests : pc[r] = "stamped" =>
          home[r] \in Processes /\ started[home[r]] <= stamp[r]
    /\ \A p \in Processes : started[p] <= clock
    /\ \A r \in Requests : \A p \in Processes :
          operationId[r] # None /\ home[r] = p =>
             operationId[r].ms < started[p] \/ operationId[r].seq < sequence[p]

\* An operation that left the handler has an id, and one whose acknowledgement
\* is on its way is stored.
StreamInv ==
    \A r \in Requests :
        /\ operationId[r] # None => home[r] \in Processes
        /\ pc[r] \in {"idle", "stamped"} => operationId[r] = None
        /\ pc[r] \in Awaits \/ r \in network \/ stored[r] > 0 => operationId[r] # None
        /\ r \in acks => stored[r] = 1

IndInv == /\ TypeOK /\ DrawnInv /\ StreamInv
          /\ OperationIdsDistinct /\ AcceptedIsStored /\ StoredOnce

\* Every submission returns, whatever the broker does.
EverySubmissionReturns ==
    \A r \in Requests : pc[r] \in Running ~> pc[r] = "done"

\* A submission as CorrelatedCall sees it.
CallOf(r) ==
    CASE pc[r] = "idle" -> "idle"
      [] pc[r] \in Running -> "pending"
      [] pc[r] = "done" /\ outcome[r] = "accepted" -> "answered"
      [] OTHER -> "failed"

\* Whose operation the id stands for that an accepted caller was told.
OwnerToldTo(r) ==
    IF outcome[r] = "accepted"
    THEN CHOOSE s \in Requests : operationId[s] = operationId[r]
    ELSE None

Abstract == INSTANCE CorrelatedCall
                WITH NoOwner <- None,
                     call <- [r \in Requests |-> CallOf(r)],
                     executed <- stored,
                     shown <- [r \in Requests |-> OwnerToldTo(r)]

\* Submissions of one process implement CorrelatedCall, across its restarts: an
\* operation is stored at most once, and its caller is told an id that stands
\* for it and for no other, after it was stored.
CorrelatedCallSpec == Abstract!CallSpec
===============================================================================
