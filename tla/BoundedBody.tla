------------------------------ MODULE BoundedBody ------------------------------
(***************************************************************************)
(* bounded_http_get of src/data_plane.rs, which http_read and status share:*)
(* a GET to the HTTP API under one timer, a look at the status and the     *)
(* declared length, a loop that appends the body chunk by chunk up to a    *)
(* limit, and a parse of what was collected.                               *)
(*                                                                         *)
(* The API (external) answers over HTTP/1.1.  A body it frames by length   *)
(* or by chunks and breaks off is an error of the stream; one that ends    *)
(* with the connection and is broken off looks like a whole one, and only  *)
(* the parser can tell.  Its documents are JSON objects, of which no       *)
(* proper prefix parses.                                                   *)
(***************************************************************************)
EXTENDS Naturals

CONSTANTS Limit,        \* MAX_HTTP_RESPONSE_BYTES
          MaxBody,      \* bound: the longest body the API sends
          None          \* no response head yet

ASSUME LimitAssumption == Limit \in Nat
ASSUME MaxBodyAssumption == MaxBody \in Nat

\* What the API sends: length is that of the whole body.
Responses ==
    [status : {"success", "redirection", "failure"},
     framing : {"length", "chunked", "close"},
     length : 0 .. MaxBody,
     json : BOOLEAN]

ASSUME NoneAssumption == None \notin Responses

VARIABLES pc,           \* the await at which the call is suspended, or "idle"
          response,     \* the API's response, once its head has arrived
          body,         \* bytes in the Vec
          cut,          \* the API broke the body off
          outcome       \* what bounded_http_get returned

vars == <<pc, response, body, cut, outcome>>

Init ==
    /\ pc = "idle"
    /\ response = None
    /\ body = 0
    /\ cut = FALSE
    /\ outcome = "none"

Return(result) == pc' = "done" /\ outcome' = result

\* http_read or status makes the request.
Call ==
    /\ pc = "idle"
    /\ pc' = "sending"
    /\ UNCHANGED <<response, body, cut, outcome>>

\* content_length() exceeds the limit; only one framing declares a length.
DeclaredTooLong(answer) == answer.framing = "length" /\ answer.length > Limit

\* The head of the response: its status, then its declared length.
Head ==
    /\ pc = "sending"
    /\ \E answer \in Responses :
          /\ response' = answer
          /\ \/ answer.status # "success" /\ Return("Upstream")
             \/ answer.status = "success" /\ DeclaredTooLong(answer)
                /\ Return("InvalidResponse")
             \/ answer.status = "success" /\ ~DeclaredTooLong(answer)
                /\ pc' = "reading" /\ UNCHANGED outcome
    /\ UNCHANGED <<body, cut>>

\* send fails: connection, TLS, a malformed head, or the timer.
SendFails ==
    /\ pc = "sending"
    /\ \E error \in {"Timeout", "Upstream"} : Return(error)
    /\ UNCHANGED <<response, body, cut>>

\* Fault: the declared length is trusted, and a chunk is not measured.
Chunk_Trusting ==
    /\ pc = "reading"
    /\ \E size \in 1 .. (response.length - body) : body' = body + size
    /\ UNCHANGED <<pc, response, cut, outcome>>

\* Fault: the limit itself is refused.
Chunk_Exclusive ==
    /\ pc = "reading"
    /\ \E size \in 1 .. (response.length - body) :
          \/ body + size >= Limit /\ Return("InvalidResponse") /\ UNCHANGED body
          \/ body + size < Limit /\ body' = body + size /\ UNCHANGED <<pc, outcome>>
    /\ UNCHANGED <<response, cut>>

\* A chunk: measured before it is appended.
Chunk ==
    /\ pc = "reading"
    /\ \E size \in 1 .. (response.length - body) :
          \/ body + size > Limit /\ Return("InvalidResponse") /\ UNCHANGED body
          \/ body + size <= Limit /\ body' = body + size /\ UNCHANGED <<pc, outcome>>
    /\ UNCHANGED <<response, cut>>

\* Fault: a body that does not parse is the value null.
Parsed_Lenient == "ok"

\* serde_json::from_slice on what was collected.
Parsed == IF response.json /\ body = response.length /\ body > 0
          THEN "ok" ELSE "InvalidResponse"

\* The stream ends.
End ==
    /\ pc = "reading"
    /\ body = response.length
    /\ Return(Parsed)
    /\ UNCHANGED <<response, body, cut>>

\* The API breaks the body off.
CutShort ==
    /\ pc = "reading"
    /\ body < response.length
    /\ cut' = TRUE
    /\ Return(IF response.framing = "close" THEN Parsed ELSE "Upstream")
    /\ UNCHANGED <<response, body>>

\* Fault: the timer ends with the arrival of the head.
BodyFails_HeadTimerOnly ==
    /\ pc = "reading"
    /\ body < response.length /\ body > 0
    /\ Return("Upstream")
    /\ UNCHANGED <<response, body, cut>>

\* The stream reports an error: HTTP_TIMEOUT also covers the body.
BodyFails ==
    /\ pc = "reading"
    /\ Return("Upstream")
    /\ UNCHANGED <<response, body, cut>>

\* axum drops the handler's future.
Cancel ==
    /\ pc \in {"sending", "reading"}
    /\ Return("cancelled")
    /\ UNCHANGED <<response, body, cut>>

Finished == pc = "done" /\ UNCHANGED vars

Awaited == Head \/ SendFails \/ Chunk \/ End \/ CutShort \/ BodyFails \/ Cancel

Next == Call \/ Awaited \/ Finished

Spec == Init /\ [][Next]_vars

-------------------------------------------------------------------------------
\* The shape of the state.
TypeOK ==
    /\ pc \in {"idle", "sending", "reading", "done"}
    /\ response \in Responses \cup {None}
    /\ body \in Nat
    /\ cut \in BOOLEAN
    /\ outcome \in {"none", "ok", "InvalidResponse", "Timeout", "Upstream", "cancelled"}

\* What is collected never exceeds the limit or the body, however the API splits
\* it and whatever length it declares or does not declare.
BodyBounded == body <= Limit /\ (body > 0 => body <= response.length)

\* A caller is given a document only when all of it arrived from a successful
\* answer: nothing truncated, empty, oversized or redirected is passed off as one.
OkIsWholeDocument ==
    outcome = "ok" =>
        /\ response.status = "success" /\ response.json
        /\ ~cut /\ body = response.length
        /\ response.length \in 1 .. Limit

\* A document within the limit, of exactly the limit as well, is not refused
\* for its contents.
GoodDocumentIsNotRefused ==
    outcome = "InvalidResponse" =>
        \/ response.length \notin 1 .. Limit
        \/ ~response.json
        \/ cut /\ response.framing = "close"

\* Between head and end there is a successful answer that declared no more than
\* the limit.
ReadingInv ==
    /\ pc \in {"idle", "sending"} => response = None /\ body = 0 /\ outcome = "none" /\ ~cut
    /\ pc = "reading" =>
          /\ response \in Responses /\ response.status = "success"
          /\ outcome = "none" /\ ~cut
    /\ pc = "done" => outcome # "none"
    /\ outcome \in {"ok", "InvalidResponse"} => response \in Responses

\* What makes the properties above inductive.
IndInv == TypeOK /\ ReadingInv /\ BodyBounded /\ OkIsWholeDocument
          /\ GoodDocumentIsNotRefused
===============================================================================
