---------------------------- MODULE CorrelatedCall ----------------------------
(***************************************************************************)
(* What the transports with operation ids promise their callers, without   *)
(* locks, connections, frames or messages.  A call is answered with the    *)
(* data of its own caller and only after its operation took effect; it     *)
(* fails otherwise.  An operation takes effect at most once, possibly      *)
(* after the caller has given up.  MtlsClient is shown to implement this   *)
(* module, where the effect is the execution by the API, and so is         *)
(* JetStreamSubmit, where it is the copy in the stream.                    *)
(***************************************************************************)
EXTENDS Naturals

CONSTANTS Requests,    \* the calls, one caller each
          NoOwner      \* "no data was shown"

VARIABLES call,        \* where each call stands
          executed,    \* how often each call took effect
          shown        \* whose data each caller was shown

callVars == <<call, executed, shown>>

CallInit ==
    /\ call = [r \in Requests |-> "idle"]
    /\ executed = [r \in Requests |-> 0]
    /\ shown = [r \in Requests |-> NoOwner]

\* The caller starts the call.
Start(r) ==
    /\ call[r] = "idle"
    /\ call' = [call EXCEPT ![r] = "pending"]
    /\ UNCHANGED <<executed, shown>>

\* A call that was started takes effect, even one its caller gave up.
Execute(r) ==
    /\ call[r] \in {"pending", "failed"}
    /\ executed[r] = 0
    /\ executed' = [executed EXCEPT ![r] = 1]
    /\ UNCHANGED <<call, shown>>

\* The caller receives its own data, after the effect.
Answer(r) ==
    /\ call[r] = "pending"
    /\ executed[r] = 1
    /\ call' = [call EXCEPT ![r] = "answered"]
    /\ shown' = [shown EXCEPT ![r] = r]
    /\ UNCHANGED executed

\* The call ends without data: refused, failed, timed out or abandoned.
Fail(r) ==
    /\ call[r] \in {"idle", "pending"}
    /\ call' = [call EXCEPT ![r] = "failed"]
    /\ UNCHANGED <<executed, shown>>

\* The calls a process serves end together when it dies.
Crash(served) ==
    /\ \A r \in served : call[r] = "pending"
    /\ call' = [r \in Requests |-> IF r \in served THEN "failed" ELSE call[r]]
    /\ UNCHANGED <<executed, shown>>

CallNext ==
    \/ \E r \in Requests : Start(r) \/ Execute(r) \/ Answer(r) \/ Fail(r)
    \/ \E served \in SUBSET Requests : Crash(served)

CallSpec == CallInit /\ [][CallNext]_callVars
===============================================================================
