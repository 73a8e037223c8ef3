------------------------------- MODULE SharedAuth -------------------------------
(***************************************************************************)
(* Who a protected request is and what leaves for the API in its name:     *)
(* require_auth and SharedAuthVerifier of src/auth.rs, the handlers of     *)
(* src/routes.rs, and the second look that src/data_plane.rs takes at the  *)
(* same header, with a parser of its own.                                  *)
(*                                                                         *)
(* Shared Auth (external) knows each token; the client that asks it checks *)
(* the scopes, may already check the rest, and may fail.  A value of the   *)
(* Authorization header is a scheme, the spaces behind it and the rest.    *)
(***************************************************************************)
EXTENDS Naturals, Sequences

CONSTANTS None

VARIABLES
    configured,     \* AppState.shared_auth is Some
    header,         \* the values of the Authorization header, as sent
    route,          \* what is asked for
    pc,             \* the step of the request
    grant,          \* what Shared Auth holds of the token it was asked about
    introspected,   \* the token it was asked about
    identity,       \* VerifiedIdentity
    sent,           \* what the API or the broker received
    status          \* the status of the answer

vars == <<configured, header, route, pc, grant, introspected, identity,
          sent, status>>

HeaderValues ==
    [scheme : {"Bearer", "bearer", "Basic"},
     spaces : 0 .. 2,
     rest : {"", "token", "other", "two_words"},
     long : BOOLEAN]                \* over MAX_AUTHORIZATION_BYTES
Plain(token) == [scheme |-> "Bearer", spaces |-> 1, rest |-> token, long |-> FALSE]

\* No value that is text, one of any form, or two.
Headers == {<<>>} \cup {<<value>> : value \in HeaderValues}
                  \cup {<<Plain("token"), Plain("other")>>}

Routes == {"me", "status", "direct", "http", "tcp", "jetstream"}

\* A subject may have blanks around it, be nothing but blanks, or be missing.
Grants == [active : BOOLEAN,
           aud : {"act-api", "other", None},
           scopes : BOOLEAN,
           sub : {"subject", "padded", "blank", None}]

\* What leaves the process, and the codes of the answers.
Messages == [bearer : {"token", "other", None}, subject : {"subject", "padded", None}]
Codes == {200, 400, 401, 503}

Init ==
    /\ configured \in BOOLEAN
    /\ header \in Headers
    /\ route \in Routes
    /\ pc = "require_auth"
    /\ grant = None /\ introspected = None
    /\ identity = None
    /\ sent = None
    /\ status = None

Respond(code) == pc' = "done" /\ status' = code

\* headers.get and to_str: the first value, if it is text.
Authorization == IF header = <<>> THEN None ELSE header[1]

\* The rest is one word, and nothing but it follows the one space.
Word(value) == value.spaces = 1 /\ value.rest \in {"token", "other"}

\* bearer_token: the scheme in any case.
BearerAccepted(value) ==
    value # None /\ value.scheme \in {"Bearer", "bearer"} /\ Word(value)

\* Fault: the gateway reads the last value of the header.
Forwarded_Last == IF header = <<>> THEN None ELSE header[Len(header)]

\* The string the handlers pass on.
Forwarded == Authorization

\* validate_authorization: "Bearer " as it stands.
GatewayAccepts(value) == value.scheme = "Bearer" /\ Word(value) /\ ~value.long

-------------------------------------------------------------------------------
\* require_auth: closed without a verifier; a header that is not a bearer is
\* refused without asking anybody.
RequireAuth ==
    /\ pc = "require_auth"
    /\ \/ ~configured /\ Respond(503) /\ UNCHANGED introspected
       \/ configured /\ ~BearerAccepted(Authorization) /\ Respond(401)
          /\ UNCHANGED introspected
       \/ /\ configured /\ BearerAccepted(Authorization)
          /\ introspected' = Authorization.rest
          /\ pc' = "introspect" /\ UNCHANGED status
    /\ UNCHANGED <<configured, header, route, grant, identity, sent>>

\* The variants of the client's error, and those that map_client_error lays to
\* the token.
ClientErrors ==
    {"Unauthorized", "InvalidInput", "MissingServiceCredential", "InvalidBaseUrl",
     "RequestTooLarge", "ResponseTooLarge", "Encode", "Decode", "Transport",
     "Status", "InsecureTransport"}
TokensFault == {"Unauthorized", "InvalidInput"}

\* map_client_error, and the status require_auth answers with.
ClientErrorStatus(error) == IF error \in TokensFault THEN 401 ELSE 503

\* The introspection ends in an error of the client.
IntrospectFails ==
    /\ pc = "introspect"
    /\ \E error \in ClientErrors : Respond(ClientErrorStatus(error))
    /\ UNCHANGED <<configured, header, route, grant, introspected, identity, sent>>

\* Fault: a subject of blanks, or none, is a subject.
ClaimsAccepted_AnySubject(claims) == claims.active /\ claims.aud = "act-api"

\* verify: active, for this audience, and of a subject that says something.
ClaimsAccepted(claims) ==
    claims.active /\ claims.aud = "act-api" /\ claims.sub \notin {None, "blank"}

\* Shared Auth answers with the claims of a token that has the scopes.
Introspected ==
    /\ pc = "introspect"
    /\ \E claims \in Grants :
          /\ claims.scopes
          /\ grant' = claims
          /\ \/ ~ClaimsAccepted(claims) /\ Respond(401) /\ UNCHANGED identity
             \/ ClaimsAccepted(claims) /\ identity' = claims.sub
                /\ pc' = "handler" /\ UNCHANGED status
    /\ UNCHANGED <<configured, header, route, introspected, sent>>

-------------------------------------------------------------------------------
\* GET /api/me.
Me ==
    /\ pc = "handler" /\ route = "me"
    /\ Respond(200)
    /\ UNCHANGED <<configured, header, route, grant, introspected, identity, sent>>

\* What leaves the process: a bearer, and the subject it is sent for if any.
Send(bearer, subject) ==
    /\ sent' = [bearer |-> bearer, subject |-> subject]
    /\ pc' = "sent"
    /\ UNCHANGED status

\* GET /api/operations/:id goes to the API with the header as it came.
Status ==
    /\ pc = "handler" /\ route = "status"
    /\ Send(Forwarded.rest, None)
    /\ UNCHANGED <<configured, header, route, grant, introspected, identity>>

\* validate_identifier, and the same check of events_for_subject.
SubjectAccepted(subject) == subject = "subject"

\* GET /api/data/:mode: the second look at the header, then the mode.
ReadData ==
    /\ pc = "handler" /\ route \in {"direct", "http", "tcp", "jetstream"}
    /\ \/ ~GatewayAccepts(Forwarded) /\ Respond(401) /\ UNCHANGED sent
       \/ /\ GatewayAccepts(Forwarded)
          /\ \/ route = "http" /\ Send(Forwarded.rest, None)
             \/ route = "direct" /\ SubjectAccepted(identity)
                /\ Send(None, identity)
             \/ route = "direct" /\ ~SubjectAccepted(identity)
                /\ Respond(503) /\ UNCHANGED sent
             \/ route = "tcp" /\ SubjectAccepted(identity)
                /\ Send(Forwarded.rest, identity)
             \/ route = "jetstream" /\ SubjectAccepted(identity)
                /\ Send(None, identity)
             \/ route \in {"tcp", "jetstream"} /\ ~SubjectAccepted(identity)
                /\ Respond(400) /\ UNCHANGED sent
    /\ UNCHANGED <<configured, header, route, grant, introspected, identity>>

\* A transport that is not configured, no permit left or an operation id that is
\* not one: nothing is sent.
NotForwarded ==
    /\ pc = "handler" /\ route # "me"
    /\ route # "status" => GatewayAccepts(Forwarded)
    /\ \/ Respond(503)
       \/ route = "status" /\ Respond(400)
    /\ UNCHANGED <<configured, header, route, grant, introspected, identity, sent>>

\* ApiError::from_gateway: the transport's outcome as a status.
Answer ==
    /\ pc = "sent"
    /\ \E code \in {200, 400, 503} : Respond(code)
    /\ UNCHANGED <<configured, header, route, grant, introspected, identity, sent>>

Ended == pc = "done" /\ UNCHANGED vars

Next ==
    \/ RequireAuth \/ IntrospectFails \/ Introspected
    \/ Me \/ Status \/ ReadData \/ NotForwarded \/ Answer \/ Ended

Spec == Init /\ [][Next]_vars

-------------------------------------------------------------------------------
\* The shape of the state.
TypeOK ==
    /\ configured \in BOOLEAN
    /\ header \in Headers /\ route \in Routes
    /\ pc \in {"require_auth", "introspect", "handler", "sent", "done"}
    /\ grant \in Grants \cup {None}
    /\ introspected \in {"token", "other", None}
    /\ identity \in {"subject", "padded", None}
    /\ sent \in Messages \cup {None}
    /\ status \in Codes \cup {None}

\* Whatever leaves the process leaves on the word of Shared Auth, for the exact
\* audience and with the scopes: the bearer is the very token it was asked about,
\* although two parsers read it, and the subject is the one it named.  The database
\* and the broker get no bearer.
SentOnItsWord ==
    sent # None =>
        /\ grant # None /\ grant.active /\ grant.scopes /\ grant.aud = "act-api"
        /\ sent.bearer = IF route \in {"direct", "jetstream"} THEN None ELSE introspected
        /\ sent.subject \in {grant.sub, None}
===============================================================================
