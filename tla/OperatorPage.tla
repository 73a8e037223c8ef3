------------------------------ MODULE OperatorPage ------------------------------
(***************************************************************************)
(* The form of the operator page, the submit handler in SCRIPT of          *)
(* src/ui.rs: it hides both verdicts, asks /api/me and shows one of them.  *)
(* Nothing stops a second submission while the first one waits, and        *)
(* answers come in any order.                                              *)
(*                                                                         *)
(* The browser (external) lets a fetch fail, and lets one whose head has   *)
(* arrived fail in its body.  Texts stand for themselves; a hidden element *)
(* has the text Hidden.                                                    *)
(***************************************************************************)
EXTENDS Naturals

CONSTANTS MaxSubmissions,       \* bound: how often the form is submitted
          Hidden                \* an element that is not shown

VARIABLES
    submitted,      \* submissions so far; a submission is its number
    pending,        \* [number, await] of handlers that are suspended
    error,          \* text of identity-error
    result,         \* text of identity-result
    lastVerdict,    \* what the last submission to complete was told
    overlapped      \* some submission began while another was pending

vars == <<submitted, pending, error, result, lastVerdict, overlapped>>

\* The statuses of GET /api/me: the handlers give 200, 401 and 503, which the page
\* has a text for; the stack around the router (external) refuses for a rate, a
\* deadline or a transport, and 429 stands for whatever it then answers.
Explained == {200, 401, 503}
Statuses == Explained \cup {429}

\* The handlers that may be suspended, and the texts of identity-error.
Handlers(count) == [number : 1 .. count, await : {"fetch", "json"}]
Errors == {"enter_a_token_first", "token_rejected", "verification_unavailable",
           "unexpected_response", "request_failed"}

Init ==
    /\ submitted = 0 /\ pending = {} /\ overlapped = FALSE
    /\ error = Hidden /\ result = Hidden /\ lastVerdict = Hidden

-------------------------------------------------------------------------------
\* Fault: the result of an earlier submission is left where it is.
HideVerdicts_KeepsResult == error' = Hidden /\ UNCHANGED result

\* What a submission does first.
HideVerdicts == error' = Hidden /\ result' = Hidden

\* A submission with a token: both verdicts are hidden, /api/me is asked.
Submit ==
    /\ submitted < MaxSubmissions
    /\ submitted' = submitted + 1
    /\ HideVerdicts
    /\ pending' = pending \cup {[number |-> submitted', await |-> "fetch"]}
    /\ overlapped' = (overlapped \/ pending # {})
    /\ UNCHANGED lastVerdict

\* A submission without one: the handler returns at once.
SubmitBlank ==
    /\ submitted < MaxSubmissions
    /\ submitted' = submitted + 1
    /\ error' = "enter_a_token_first" /\ result' = Hidden
    /\ lastVerdict' = "enter_a_token_first"
    /\ overlapped' = (overlapped \/ pending # {})
    /\ UNCHANGED pending

\* The handler ends with a text in one of the elements; the other is left.
ShowError(handler, text) ==
    /\ error' = text /\ lastVerdict' = text /\ UNCHANGED result
    /\ pending' = pending \ {handler}

ShowResult(handler) ==
    /\ result' = "identity" /\ lastVerdict' = "identity" /\ UNCHANGED error
    /\ pending' = pending \ {handler}

\* The head of an answer: an ok one has its body read first.
Answered(handler) ==
    /\ handler.await = "fetch"
    /\ \E status \in Statuses :
          \/ /\ status = 200
             /\ pending' = (pending \ {handler})
                           \cup {[number |-> handler.number, await |-> "json"]}
             /\ UNCHANGED <<error, result, lastVerdict>>
          \/ status = 401 /\ ShowError(handler, "token_rejected")
          \/ status = 503 /\ ShowError(handler, "verification_unavailable")
          \/ status \notin Explained /\ ShowError(handler, "unexpected_response")
    /\ UNCHANGED <<submitted, overlapped>>

\* The body of an ok answer.
Identified(handler) ==
    /\ handler.await = "json"
    /\ ShowResult(handler)
    /\ UNCHANGED <<submitted, overlapped>>

\* Fault: the handler has no catch; it ends as an unhandled rejection.
RequestFails_Uncaught(handler) ==
    /\ pending' = pending \ {handler}
    /\ UNCHANGED <<error, result, lastVerdict, submitted, overlapped>>

\* Either await is rejected: the network, or a body that is not JSON.
RequestFails(handler) ==
    /\ ShowError(handler, "request_failed")
    /\ UNCHANGED <<submitted, overlapped>>

Settles == \E handler \in pending :
              Answered(handler) \/ Identified(handler) \/ RequestFails(handler)

Finished ==
    /\ submitted = MaxSubmissions /\ pending = {}
    /\ UNCHANGED vars

Next == Submit \/ SubmitBlank \/ Settles \/ Finished

Spec == Init /\ [][Next]_vars

-------------------------------------------------------------------------------
\* The shape of the state.
TypeOK ==
    /\ overlapped \in BOOLEAN
    /\ submitted \in 0 .. MaxSubmissions
    /\ pending \subseteq Handlers(submitted)
    /\ error \in Errors \cup {Hidden}
    /\ result \in {"identity", Hidden}
    /\ lastVerdict \in Errors \cup {"identity", Hidden}

\* As long as no submission began while another was pending, the page shows the
\* verdict on the last one and nothing else, and nothing while it is asked for:
\* never the identity behind an earlier token next to the rejection of a later.
SoloVerdict ==
    ~overlapped =>
        /\ pending # {} => error = Hidden /\ result = Hidden
        /\ pending = {} /\ submitted > 0 =>
              /\ error = Hidden <=> result # Hidden
              /\ lastVerdict \in {error, result}

\* Whatever overlapped and in whatever order the answers came: when nothing is
\* pending any more, the operator is not left looking at an empty page.
EveryVerdictIsShown ==
    pending = {} /\ submitted > 0 => error # Hidden \/ result # Hidden
===============================================================================
