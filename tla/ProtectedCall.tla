----------------------------- MODULE ProtectedCall -----------------------------
(***************************************************************************)
(* A protected request from its Authorization header to the document of    *)
(* the API: SharedAuth composed with BoundedBody.  A request that is sent  *)
(* on by http_read or status of src/data_plane.rs makes one call of        *)
(* bounded_http_get, and its answer is what the call returned; the other   *)
(* routes end as in SharedAuth.                                            *)
(***************************************************************************)
EXTENDS BoundedBody

\* The request; its pc is step here.
VARIABLES configured, header, route, step, grant, introspected, identity,
          sent, status

requestVars == <<configured, header, route, step, grant, introspected,
                 identity, sent, status>>

A == INSTANCE SharedAuth WITH pc <- step

ASSUME AbsentAssumption == None \notin A!Grants \cup A!Messages \cup A!Codes

CallInit == Init /\ A!Init

\* The routes that end in bounded_http_get.
OverHttp == route \in {"http", "status"}

\* The request up to its transport; the call begins when it is sent on.
Request ==
    /\ \/ A!RequireAuth \/ A!IntrospectFails \/ A!Introspected
       \/ A!Me \/ A!Status \/ A!ReadData \/ A!NotForwarded
       \/ ~OverHttp /\ A!Answer
    /\ IF OverHttp /\ step' = "sent" THEN Call ELSE UNCHANGED vars

\* The call at its awaits.
Fetch == Awaited /\ UNCHANGED requestVars

\* Fault: an error of the call is an empty document.
AnswerCode_Lenient(result) == 200

\* ApiError::from_gateway of what the call returned.
AnswerCode(result) == IF result = "ok" THEN 200 ELSE 503

\* The answer; a dropped handler gives none.
AnswerCall ==
    /\ OverHttp /\ step = "sent" /\ pc = "done" /\ outcome # "cancelled"
    /\ step' = "done" /\ status' = AnswerCode(outcome)
    /\ UNCHANGED <<configured, header, route, grant, introspected, identity,
                   sent, vars>>

RequestEnded ==
    /\ step = "done" \/ outcome = "cancelled"
    /\ UNCHANGED <<vars, requestVars>>

CallNext == Request \/ Fetch \/ AnswerCall \/ RequestEnded

\* Ready tasks run and the timer of the call fires; the API owes nothing.
CallFairness ==
    /\ WF_vars(Fetch /\ SendFails) /\ WF_vars(Fetch /\ BodyFails)
    /\ WF_<<vars, requestVars>>(AnswerCall)

CallSpec == CallInit /\ [][CallNext]_<<vars, requestVars>> /\ CallFairness

-------------------------------------------------------------------------------

\* As in SharedAuth: whatever leaves the process leaves on the word of Shared Auth.
SentOnItsWord == A!SentOnItsWord

\* An answer of 200 over HTTP has a whole document behind it that the API was asked
\* for with the vouched-for token; every refusal before that makes no call.
DocumentsAreVouchedFor ==
    /\ OverHttp /\ status = 200 =>
          /\ outcome = "ok" /\ body = response.length
          /\ grant.active /\ sent.bearer = introspected
    /\ pc # "idle" => sent # None /\ OverHttp

\* A request that was sent on over HTTP is answered or given up by its client.
SentIsAnswered ==
    step = "sent" /\ OverHttp ~> step = "done" \/ outcome = "cancelled"
===============================================================================
