----------------------------- MODULE MtlsDeadline -----------------------------
(***************************************************************************)
(* MtlsClient with time.  An operation gets its deadline_unix_ms before    *)
(* its request queues for the mutex, and nothing looks at it again before  *)
(* the frame is sent; what bounds the delay are the timers of those in     *)
(* front.  A tick passes only when no timer is due and the mutex is not    *)
(* about to be granted: tokio fires timers and wakes the first waiter      *)
(* without delay.  Time is kept as ages, which stop growing when a request *)
(* ends, so it needs no bound.                                             *)
(***************************************************************************)
EXTENDS MtlsClient, FiniteSets

CONSTANT Timeout        \* OPERATION_TIMEOUT, in ticks

ASSUME TimeoutAssumption == Timeout \in Nat \ {0}

VARIABLES
    age,        \* ticks since the operation's deadline was set
    timer,      \* ticks the request has been at its present await
    inFront     \* requests in the queue or at the lock when it joined

timedVars == <<age, timer, inFront>>

TimedInit ==
    /\ Init
    /\ age = [r \in Requests |-> 0]
    /\ timer = [r \in Requests |-> 0]
    /\ inFront = [r \in Requests |-> 0]

\* The requests that are suspended.
Suspended == {s \in Requests : pc[s] \in Awaits}

\* An await that begins is timed anew; an age ends with its request.
Retimed ==
    /\ age' = [r \in Requests |-> IF pc'[r] \in Awaits THEN age[r] ELSE 0]
    /\ timer' = [r \in Requests |-> IF pc'[r] = pc[r] THEN timer[r] ELSE 0]
    /\ inFront' = [r \in Requests |->
                      IF pc[r] = "idle" /\ pc'[r] = "waiting"
                      THEN Cardinality(Suspended)
                      ELSE inFront[r]]

\* A step of MtlsClient takes no time.
Step == Next /\ Retimed

\* Fault: one timer around the TCP connection only; the handshake has none.
TimedAwaits_NoHandshake == {"tcp", "sending", "receiving"}

\* The awaits inside tokio::time::timeout.
TimedAwaits == {"tcp", "tls", "sending", "receiving"}

Due(r) == pc[r] \in TimedAwaits /\ timer[r] >= Timeout

\* Time passes for everybody who waits, and not while the mutex is free for one
\* of them.
Tick ==
    /\ \A r \in Requests : ~Due(r)
    /\ \A r \in Requests : pc[r] = "waiting" => \E s \in Requests : HoldsLock(s)
    /\ \E r \in Requests : pc[r] \in Awaits
    /\ age' = [r \in Requests |-> IF pc[r] \in Awaits THEN age[r] + 1 ELSE 0]
    /\ timer' = [r \in Requests |-> IF pc[r] \in Awaits THEN timer[r] + 1 ELSE 0]
    /\ UNCHANGED <<vars, inFront>>

TimedNext == Step \/ Tick

TimedSpec == TimedInit /\ [][TimedNext]_<<vars, timedVars>>

-------------------------------------------------------------------------------
\* The longest a request may hold the mutex: four timed awaits.
Hold == 4 * Timeout

\* What a request has behind it at most when it gets to an await, measured from
\* the moment it got the mutex.
HeldBefore(await) ==
    CASE await = "tcp" -> 0
      [] await = "tls" -> Timeout
      [] await = "sending" -> 2 * Timeout
      [] await = "receiving" -> 3 * Timeout

\* A frame leaves at most a Hold per request in front and three timers after its
\* deadline was set, and its request ends one timer later: with MAX_IN_FLIGHT
\* permits of 64 that is 63 Holds, which no deadline of ten seconds covers.
SentWithinBound ==
    \A r \in Requests :
        pc[r] \in TimedAwaits =>
           age[r] <= Hold * inFront[r] + HeldBefore(pc[r]) + timer[r]

\* No await outlives its timer.
TimerInv ==
    \A r \in Requests :
        /\ age[r] \in Nat /\ timer[r] \in Nat /\ inFront[r] \in Nat
        /\ pc[r] \in TimedAwaits => timer[r] <= Timeout
        /\ pc[r] = "idle" => age[r] = 0

\* The queue is a line: of two that wait one is in front of the other.
LineInv ==
    /\ IsFiniteSet(Suspended)
    /\ \A r \in Requests : \A s \in ahead[r] : pc[s] = "waiting" /\ s # r
    /\ \A r, s \in Requests :
          pc[r] = "waiting" /\ pc[s] = "waiting" /\ r # s =>
             r \in ahead[s] \/ s \in ahead[r]

\* Those in front of a waiting request wait or hold the mutex, and it has not
\* waited longer than those who have gone held it, and the holder so far.
StillInFront(r) == {s \in Requests : s \in ahead[r] \/ HoldsLock(s)}
Left(r) == Cardinality(StillInFront(r))
WaitsInTurn(r) ==
    /\ Left(r) <= inFront[r]
    /\ \A s \in Requests : HoldsLock(s) =>
          age[r] <= Hold * (inFront[r] - Left(r)) + HeldBefore(pc[s]) + timer[s]
    /\ (\A s \in Requests : ~HoldsLock(s)) =>
          age[r] <= Hold * (inFront[r] - Left(r))

QueueInv == \A r \in Requests : pc[r] = "waiting" => WaitsInTurn(r)

\* What makes the bounds inductive.
TimedInv == TimerInv /\ LineInv /\ QueueInv /\ SentWithinBound
===============================================================================
