--------------------------- MODULE ProtectedCallProofs ---------------------------
(***************************************************************************)
(* Proofs about a protected request and about the form of the operator     *)
(* page, for every limit, every body and any number of submissions: what   *)
(* bounded_http_get collects and returns, on whose word a request leaves   *)
(* the process and what its answer stands for, and what the page shows.    *)
(***************************************************************************)
EXTENDS MCProtectedCall, TLAPS

-------------------------------------------------------------------------------
\* BoundedBody.
\* The invariant holds when the call begins.
LEMMA InitInv == Init => IndInv
  <1> SUFFICES ASSUME Init PROVE IndInv
    OBVIOUS
  <1>1. TypeOK /\ ReadingInv /\ OkIsWholeDocument /\ GoodDocumentIsNotRefused
    BY DEF Init, TypeOK, ReadingInv, OkIsWholeDocument, GoodDocumentIsNotRefused
  <1>2. BodyBounded
    BY LimitAssumption DEF Init, BodyBounded
  <1> QED
    BY <1>1, <1>2 DEF IndInv

\* The arrival of the head: the only step that chooses a response.
LEMMA HeadInv == IndInv /\ Head => IndInv'
  <1> SUFFICES ASSUME IndInv, Head PROVE IndInv'
    OBVIOUS
  <1> USE LimitAssumption, MaxBodyAssumption, NoneAssumption
  <1>1. PICK answer \in Responses :
           /\ response' = answer
           /\ \/ answer.status # "success" /\ Return("Upstream")
              \/ answer.status = "success" /\ DeclaredTooLong(answer)
                 /\ Return("InvalidResponse")
              \/ answer.status = "success" /\ ~DeclaredTooLong(answer)
                 /\ pc' = "reading" /\ UNCHANGED outcome
    BY DEF Head
  <1>2. pc = "sending" /\ UNCHANGED <<body, cut>> /\ answer.length \in Nat
    BY DEF Head, Responses
  <1>3. /\ response' = answer /\ response' \in Responses
        /\ body' = 0 /\ cut' = cut /\ cut \in BOOLEAN
    BY <1>1, <1>2 DEF IndInv, TypeOK, ReadingInv
  <1>4. BodyBounded'
    BY <1>3 DEF BodyBounded
  <1>5. CASE answer.status # "success" /\ Return("Upstream")
    <2>1. pc' = "done" /\ outcome' = "Upstream"
      BY <1>5 DEF Return
    <2> QED
      BY <2>1, <1>3, <1>4
      DEF IndInv, TypeOK, ReadingInv, OkIsWholeDocument, GoodDocumentIsNotRefused
  <1>6. CASE answer.status = "success" /\ DeclaredTooLong(answer)
             /\ Return("InvalidResponse")
    <2>1. /\ pc' = "done" /\ outcome' = "InvalidResponse"
          /\ response'.length \notin 1 .. Limit
      BY <1>6, <1>2, <1>3 DEF Return, DeclaredTooLong
    <2> QED
      BY <2>1, <1>3, <1>4
      DEF IndInv, TypeOK, ReadingInv, OkIsWholeDocument, GoodDocumentIsNotRefused
  <1>7. CASE answer.status = "success" /\ pc' = "reading" /\ UNCHANGED outcome
    <2>1. outcome = "none" /\ ~cut
      BY <1>2 DEF IndInv, ReadingInv, TypeOK
    <2> QED
      BY <2>1, <1>7, <1>3, <1>4
      DEF IndInv, TypeOK, ReadingInv, OkIsWholeDocument, GoodDocumentIsNotRefused
  <1> QED
    BY <1>1, <1>5, <1>6, <1>7

\* A chunk: appended only when it fits.
LEMMA ChunkInv == IndInv /\ Chunk => IndInv'
  <1> SUFFICES ASSUME IndInv, Chunk PROVE IndInv'
    OBVIOUS
  <1> USE LimitAssumption, MaxBodyAssumption, NoneAssumption
  <1>1. response \in Responses /\ response.length \in Nat /\ body \in Nat
    BY DEF IndInv, TypeOK, ReadingInv, Chunk, Responses
  <1>2. PICK size \in 1 .. (response.length - body) :
           \/ body + size > Limit /\ Return("InvalidResponse") /\ UNCHANGED body
           \/ body + size <= Limit /\ body' = body + size /\ UNCHANGED <<pc, outcome>>
    BY DEF Chunk
  <1>3. size \in Nat /\ body + size <= response.length
    BY <1>1
  <1> QED
    BY <1>1, <1>2, <1>3
    DEF Chunk, IndInv, TypeOK, ReadingInv, BodyBounded, OkIsWholeDocument,
        GoodDocumentIsNotRefused, Return

\* The end of the stream, or a body broken off.
LEMMA EndInv == IndInv /\ (End \/ CutShort) => IndInv'
  <1> SUFFICES ASSUME IndInv, End \/ CutShort PROVE IndInv'
    OBVIOUS
  <1> USE LimitAssumption, MaxBodyAssumption, NoneAssumption
  <1>1. response \in Responses /\ response.length \in Nat /\ body \in Nat
    BY DEF IndInv, TypeOK, ReadingInv, End, CutShort, Responses
  <1>2. CASE End
    BY <1>1, <1>2
    DEF End, IndInv, TypeOK, ReadingInv, BodyBounded, OkIsWholeDocument,
        GoodDocumentIsNotRefused, Return, Parsed
  <1>3. CASE CutShort
    BY <1>1, <1>3
    DEF CutShort, IndInv, TypeOK, ReadingInv, BodyBounded, OkIsWholeDocument,
        GoodDocumentIsNotRefused, Return, Parsed
  <1> QED
    BY <1>2, <1>3

\* A call that begins, fails or is dropped, and the steps that change nothing.
LEMMA FailInv ==
    /\ IndInv
    /\ Call \/ SendFails \/ BodyFails \/ Cancel \/ Finished \/ UNCHANGED vars
    => IndInv'
  <1> USE LimitAssumption, NoneAssumption
      DEF IndInv, TypeOK, ReadingInv, BodyBounded, OkIsWholeDocument,
          GoodDocumentIsNotRefused, Return, vars
  <1>1. IndInv /\ SendFails => IndInv'
    BY DEF SendFails
  <1>2. IndInv /\ BodyFails => IndInv'
    BY DEF BodyFails
  <1>3. IndInv /\ Cancel => IndInv'
    BY DEF Cancel
  <1>4. IndInv /\ Call => IndInv'
    BY DEF Call
  <1>5. IndInv /\ (Finished \/ UNCHANGED vars) => IndInv'
    BY DEF Finished
  <1> QED
    BY <1>1, <1>2, <1>3, <1>4, <1>5

\* Every step preserves the invariant.
LEMMA StepInv == IndInv /\ [Next]_vars => IndInv'
  BY HeadInv, ChunkInv, EndInv, FailInv DEF Next, Awaited

\* The invariant holds in every reachable state, for every limit and body.
THEOREM Inductive == Spec => []IndInv
  BY InitInv, StepInv, PTL DEF Spec

\* What is collected stays within the limit.
THEOREM BodyBoundedHolds == Spec => []BodyBounded
  <1>1. IndInv => BodyBounded
    BY DEF IndInv
  <1> QED
    BY <1>1, Inductive, PTL

\* What is returned is a whole document.
THEOREM OkIsWholeDocumentHolds == Spec => []OkIsWholeDocument
  <1>1. IndInv => OkIsWholeDocument
    BY DEF IndInv
  <1> QED
    BY <1>1, Inductive, PTL

\* A document within the limit is not refused.
THEOREM GoodDocumentIsNotRefusedHolds == Spec => []GoodDocumentIsNotRefused
  <1>1. IndInv => GoodDocumentIsNotRefused
    BY DEF IndInv
  <1> QED
    BY <1>1, Inductive, PTL

-------------------------------------------------------------------------------
\* SharedAuth, as the composition instantiates it.
authVars == <<configured, header, route, step, grant, introspected, identity,
              sent, status>>

\* Shared Auth was asked about the token of the header the handlers pass on.
AskedAboutIt ==
    A!BearerAccepted(A!Authorization) /\ introspected = A!Authorization.rest

\* It has vouched for that token, and the identity is the subject it named.
VouchedFor ==
    /\ grant \in A!Grants /\ grant.scopes /\ A!ClaimsAccepted(grant)
    /\ identity = grant.sub
    /\ AskedAboutIt

\* What is known of a request at each of its steps.
AuthInv ==
    /\ A!TypeOK
    /\ step = "introspect" => AskedAboutIt
    /\ step \in {"handler", "sent"} => VouchedFor
    /\ step \in {"require_auth", "introspect", "handler"} =>
          sent = None /\ status = None
    /\ step = "sent" => sent # None /\ status = None /\ route # "me"
    /\ A!SentOnItsWord

\* A request starts with nothing asked and nothing sent.
LEMMA AuthInit == A!Init => AuthInv
  BY DEF A!Init, AuthInv, A!TypeOK, A!SentOnItsWord, A!Codes

\* A request that is answered before anything was sent.
Refused ==
    /\ step' = "done" /\ status' \in A!Codes
    /\ sent = None /\ UNCHANGED <<configured, header, route, sent>>
    /\ grant' \in A!Grants \cup {None} /\ UNCHANGED <<introspected, identity>>

\* A refusal keeps AuthInv.
LEMMA RefusedInv == AuthInv /\ Refused => AuthInv'
  BY DEF AuthInv, Refused, A!TypeOK, A!SentOnItsWord

\* require_auth refuses, or asks Shared Auth about the token of the header.
LEMMA RequireAuthInv == AuthInv /\ A!RequireAuth => AuthInv'
  <1> SUFFICES ASSUME AuthInv, A!RequireAuth PROVE AuthInv'
    OBVIOUS
  <1>1. CASE ~configured \/ ~A!BearerAccepted(A!Authorization)
    <2>1. step = "require_auth" /\ step' = "done" /\ status' \in {401, 503}
      BY <1>1 DEF A!RequireAuth, A!Respond
    <2>2. UNCHANGED <<configured, header, route, grant, introspected, identity, sent>>
      BY <1>1 DEF A!RequireAuth
    <2>3. sent = None /\ grant \in A!Grants \cup {None}
      BY <2>1 DEF AuthInv, A!TypeOK
    <2>4. status' \in A!Codes
      BY <2>1, <2>2, <2>3 DEF A!Codes
    <2>5. Refused
      BY <2>1, <2>2, <2>3, <2>4 DEF Refused
    <2>6. QED
      BY <2>5, RefusedInv
  <1>2. CASE configured /\ A!BearerAccepted(A!Authorization)
    <2>1. /\ step' = "introspect" /\ introspected' = A!Authorization.rest
          /\ UNCHANGED <<configured, header, route, grant, identity, sent, status>>
      BY <1>2 DEF A!RequireAuth
    <2>2. A!Authorization.rest \in {"token", "other"}
      BY <1>2 DEF A!BearerAccepted, A!Word
    <2>3. AskedAboutIt'
      BY <1>2, <2>1 DEF AskedAboutIt, A!BearerAccepted, A!Word, A!Authorization
    <2>4. step = "require_auth"
      BY DEF A!RequireAuth
    <2>5. QED
      BY <2>1, <2>2, <2>3, <2>4 DEF AuthInv, A!TypeOK, A!SentOnItsWord
  <1>3. QED
    BY <1>1, <1>2

\* The introspection fails.
LEMMA IntrospectFailsInv == AuthInv /\ A!IntrospectFails => AuthInv'
  <1> SUFFICES ASSUME AuthInv, A!IntrospectFails PROVE Refused
    BY RefusedInv
  <1>1. PICK failure \in A!ClientErrors : A!Respond(A!ClientErrorStatus(failure))
    BY DEF A!IntrospectFails
  <1>2. step' = "done" /\ status' \in {401, 503}
    BY <1>1 DEF A!Respond, A!ClientErrorStatus
  <1>3. sent = None /\ grant \in A!Grants \cup {None}
    BY DEF A!IntrospectFails, AuthInv, A!TypeOK
  <1>4. QED
    BY <1>1, <1>2, <1>3 DEF Refused, A!IntrospectFails, A!Codes

\* Shared Auth answers: its claims are refused, or vouch for the token.
LEMMA IntrospectedInv == AuthInv /\ A!Introspected => AuthInv'
  <1> SUFFICES ASSUME AuthInv, A!Introspected PROVE AuthInv'
    OBVIOUS
  <1>1. PICK claims \in A!Grants :
           /\ claims.scopes
           /\ grant' = claims
           /\ \/ ~A!ClaimsAccepted(claims) /\ A!Respond(401) /\ UNCHANGED identity
              \/ A!ClaimsAccepted(claims) /\ identity' = claims.sub
                 /\ step' = "handler" /\ UNCHANGED status
    BY DEF A!Introspected
  <1>2. /\ step = "introspect"
        /\ UNCHANGED <<configured, header, route, introspected, sent>>
    BY DEF A!Introspected
  <1>3. CASE ~A!ClaimsAccepted(claims)
    <2>1. Refused
      BY <1>1, <1>2, <1>3 DEF Refused, AuthInv, A!Respond, A!TypeOK, A!Codes
    <2>2. QED
      BY <2>1, RefusedInv
  <1>4. CASE A!ClaimsAccepted(claims)
    <2>1. step' = "handler" /\ identity' = claims.sub /\ UNCHANGED status
      BY <1>1, <1>4
    <2>2. claims.sub \in {"subject", "padded", "blank", None}
      BY DEF A!Grants
    <2>3. identity' \in {"subject", "padded", None}
      BY <1>4, <2>1, <2>2 DEF A!ClaimsAccepted
    <2>4. AskedAboutIt'
      BY <1>2 DEF AuthInv, AskedAboutIt, A!BearerAccepted, A!Word, A!Authorization
    <2>5. VouchedFor'
      BY <1>1, <1>4, <2>1, <2>4 DEF VouchedFor, A!ClaimsAccepted, A!Grants
    <2>6. QED
      BY <1>1, <1>2, <2>1, <2>3, <2>5 DEF AuthInv, A!TypeOK, A!SentOnItsWord
  <1>5. QED
    BY <1>3, <1>4

\* A handler answers by itself.
LEMMA HandlerAnswers ==
    ASSUME AuthInv, step = "handler", step' = "done", status' \in A!Codes,
           UNCHANGED <<configured, header, route, grant, introspected, identity, sent>>
    PROVE  AuthInv'
  <1>1. sent = None /\ grant \in A!Grants \cup {None}
    BY DEF AuthInv, A!TypeOK
  <1>2. Refused
    BY <1>1 DEF Refused
  <1>3. QED
    BY <1>2, RefusedInv

\* What may leave the process for a route: the token Shared Auth vouched for, or
\* the subject it named, or both.
LEMMA HandlerSends ==
    ASSUME AuthInv, step = "handler", route # "me", NEW bearer, NEW subject,
           A!Send(bearer, subject),
           bearer = IF route \in {"direct", "jetstream"} THEN None ELSE A!Forwarded.rest,
           subject \in {identity, None},
           UNCHANGED <<configured, header, route, grant, introspected, identity>>
    PROVE  AuthInv'
  <1>1. VouchedFor /\ status = None
    BY DEF AuthInv, A!TypeOK
  <1>2. VouchedFor'
    BY <1>1 DEF VouchedFor, AskedAboutIt, A!ClaimsAccepted, A!BearerAccepted, A!Word,
                A!Authorization
  <1>3. /\ sent' = [bearer |-> bearer, subject |-> subject]
        /\ step' = "sent" /\ status' = None
    BY <1>1 DEF A!Send
  <1>4. bearer \in {"token", "other", None}
    BY <1>1 DEF VouchedFor, AskedAboutIt, A!BearerAccepted, A!Word, A!Forwarded
  <1>5. subject \in {"subject", "padded", None}
    BY DEF AuthInv, A!TypeOK
  <1>6. sent' \in A!Messages /\ sent' # None
    <2>1. [bearer |-> bearer, subject |-> subject] \in A!Messages
      BY <1>4, <1>5 DEF A!Messages
    <2>2. QED
      BY <1>3, <2>1, AbsentAssumption
  <1>7. A!TypeOK'
    BY <1>3, <1>6 DEF AuthInv, A!TypeOK
  <1>8. A!SentOnItsWord'
    <2>1. grant # None /\ grant.active /\ grant.scopes /\ grant.aud = "act-api"
      BY <1>1, AbsentAssumption DEF VouchedFor, A!ClaimsAccepted
    <2>2. bearer = IF route \in {"direct", "jetstream"} THEN None ELSE introspected
      BY <1>1 DEF VouchedFor, AskedAboutIt, A!Forwarded
    <2>3. subject \in {grant.sub, None}
      BY <1>1 DEF VouchedFor
    <2>4. QED
      BY <1>3, <2>1, <2>2, <2>3 DEF A!SentOnItsWord
  <1>9. QED
    BY <1>2, <1>3, <1>6, <1>7, <1>8 DEF AuthInv

\* The handlers: they answer by themselves or send the request on.
LEMMA HandlerInv ==
    AuthInv /\ (A!Me \/ A!Status \/ A!ReadData \/ A!NotForwarded) => AuthInv'
  <1> SUFFICES ASSUME AuthInv, A!Me \/ A!Status \/ A!ReadData \/ A!NotForwarded
               PROVE  AuthInv'
    OBVIOUS
  <1>1. step = "handler" /\ UNCHANGED <<configured, header, route, grant, introspected, identity>>
    BY DEF A!Me, A!Status, A!ReadData, A!NotForwarded
  <1>2. CASE A!Me
    BY <1>1, <1>2, HandlerAnswers DEF A!Me, A!Respond, A!Codes
  <1>3. CASE A!Status
    BY <1>1, <1>3, HandlerSends DEF A!Status
  <1>4. CASE A!NotForwarded
    BY <1>1, <1>4, HandlerAnswers DEF A!NotForwarded, A!Respond, A!Codes
  <1>5. CASE A!ReadData
    <2>1. route \in {"direct", "http", "tcp", "jetstream"}
      BY <1>5 DEF A!ReadData
    <2>2. \/ step' = "done" /\ status' \in {400, 401, 503} /\ UNCHANGED sent
          \/ route = "http" /\ A!Send(A!Forwarded.rest, None)
          \/ route = "direct" /\ A!Send(None, identity)
          \/ route = "tcp" /\ A!Send(A!Forwarded.rest, identity)
          \/ route = "jetstream" /\ A!Send(None, identity)
      BY <1>5 DEF A!ReadData, A!Respond
    <2>3. CASE step' = "done" /\ status' \in {400, 401, 503} /\ UNCHANGED sent
      BY <1>1, <2>1, <2>3, HandlerAnswers DEF A!Codes
    <2>4. CASE route = "http" /\ A!Send(A!Forwarded.rest, None)
      BY <1>1, <2>4, HandlerSends
    <2>5. CASE route \in {"direct", "jetstream"} /\ A!Send(None, identity)
      BY <1>1, <2>5, HandlerSends
    <2>6. CASE route = "tcp" /\ A!Send(A!Forwarded.rest, identity)
      BY <1>1, <2>6, HandlerSends
    <2>7. QED
      BY <2>2, <2>3, <2>4, <2>5, <2>6
  <1>6. QED
    BY <1>2, <1>3, <1>4, <1>5

\* The answer of a transport is the end of the request.
LEMMA AnswerInv ==
    ASSUME AuthInv, step = "sent", step' = "done", status' \in A!Codes,
           UNCHANGED <<configured, header, route, grant, introspected, identity, sent>>
    PROVE  AuthInv'
  <1>1. A!TypeOK /\ route # "me" /\ A!SentOnItsWord
    BY DEF AuthInv, A!TypeOK
  <1>2. A!TypeOK'
    BY <1>1 DEF A!TypeOK
  <1>3. A!SentOnItsWord'
    BY <1>1 DEF A!SentOnItsWord
  <1>4. QED
    BY <1>1, <1>2, <1>3 DEF AuthInv

\* Every step of SharedAuth preserves the invariant.
LEMMA AuthNext == AuthInv /\ [A!Next]_authVars => AuthInv'
  <1> SUFFICES ASSUME AuthInv, [A!Next]_authVars PROVE AuthInv'
    OBVIOUS
  <1>1. CASE A!Answer
    BY <1>1, AnswerInv DEF A!Answer, A!Respond, A!Codes
  <1>2. CASE A!Ended \/ UNCHANGED authVars
    <2>1. UNCHANGED <<configured, header, route, step, grant, introspected,
                      identity, sent, status>>
      BY <1>2 DEF A!Ended, A!vars, authVars
    <2>2. AskedAboutIt' <=> AskedAboutIt
      BY <2>1 DEF AskedAboutIt, A!Authorization, A!BearerAccepted, A!Word
    <2>3. VouchedFor' <=> VouchedFor
      BY <2>1, <2>2 DEF VouchedFor
    <2>4. A!TypeOK'
      BY <2>1 DEF AuthInv, A!TypeOK
    <2>5. A!SentOnItsWord'
      BY <2>1 DEF AuthInv, A!SentOnItsWord
    <2>6. QED
      BY <2>1, <2>2, <2>3, <2>4, <2>5 DEF AuthInv
  <1>3. QED
    BY <1>1, <1>2, RequireAuthInv, IntrospectFailsInv, IntrospectedInv, HandlerInv
    DEF A!Next

-------------------------------------------------------------------------------
\* ProtectedCall.
\* Every step of the server is a step of the request, of the call, or of both.
LEMMA ServerSteps ==
    ASSUME CallNext
    PROVE  [Next]_vars /\ [A!Next]_authVars
  <1>1. CASE Request
    BY <1>1 DEF Request, Next, A!Next
  <1>2. CASE Fetch
    BY <1>2 DEF Fetch, Next, requestVars, authVars
  <1>3. CASE AnswerCall
    <2>1. A!Answer
      BY <1>3 DEF AnswerCall, A!Answer, A!Respond, AnswerCode
    <2>2. QED
      BY <1>3, <2>1 DEF AnswerCall, A!Next
  <1>4. CASE RequestEnded
    BY <1>4 DEF RequestEnded, vars, requestVars, authVars
  <1>5. QED
    BY <1>1, <1>2, <1>3, <1>4 DEF CallNext

\* The same with the page at the other end.
LEMMA EndSteps ==
    ASSUME [MCNext]_<<serverVars, pageVars, end>>
    PROVE  /\ [CallNext]_serverVars /\ [P!Next]_pageVars
           /\ [Next]_vars /\ [A!Next]_authVars
  <1>1. [CallNext]_serverVars /\ [P!Next]_pageVars
    BY DEF MCNext
  <1>2. CASE UNCHANGED serverVars
    BY <1>1, <1>2 DEF serverVars, requestVars, authVars
  <1>3. QED
    BY <1>1, <1>2, ServerSteps

\* The call that a protected request makes is a bounded_http_get.
THEOREM CallIsBoundedBody == MCSpec => Spec
  <1>1. MCInit => Init
    BY DEF MCInit, CallInit
  <1>2. QED
    BY <1>1, EndSteps, PTL DEF MCSpec, Spec

\* The request itself is one of SharedAuth, whatever becomes of its call.
THEOREM RequestIsSharedAuth == MCSpec => A!Spec
  <1>1. MCInit => A!Init
    BY DEF MCInit, CallInit
  <1>2. [MCNext]_<<serverVars, pageVars, end>> => [A!Next]_(A!vars)
    BY EndSteps DEF authVars, A!vars
  <1>3. QED
    BY <1>1, <1>2, PTL DEF MCSpec, A!Spec

\* No step of the server touches the page: what is proved of the form alone below
\* may be said of the two modules in one run.  It says no more than that.
LEMMA PageIsOperatorPage == MCSpec => P!Spec
  <1>1. MCInit => P!Init
    BY DEF MCInit
  <1>2. [MCNext]_<<serverVars, pageVars, end>> => [P!Next]_(P!vars)
    BY EndSteps DEF pageVars, P!vars
  <1>3. QED
    BY <1>1, <1>2, PTL DEF MCSpec, P!Spec

\* The invariants of both parts hold of the composition.
LEMMA PartsHold == MCSpec => [](IndInv /\ AuthInv)
  <1>1. [A!Next]_(A!vars) => [A!Next]_authVars
    BY DEF A!vars, authVars
  <1>2. A!Spec => []AuthInv
    BY <1>1, AuthInit, AuthNext, PTL DEF A!Spec
  <1>3. QED
    BY <1>2, CallIsBoundedBody, RequestIsSharedAuth, Inductive, PTL

\* Whatever leaves the process leaves on the word of Shared Auth, for the exact
\* audience, with the token it was asked about and the subject it named.
THEOREM SentOnItsWordHolds == MCSpec => []SentOnItsWord
  <1>1. AuthInv => SentOnItsWord
    BY DEF AuthInv, SentOnItsWord
  <1>2. QED
    BY <1>1, PartsHold, PTL

-------------------------------------------------------------------------------
\* How the request and its call hang together: the call begins when the request
\* is sent on, and a success is answered only when it has returned a document.
CallInv ==
    /\ pc # "idle" => step \in {"sent", "done"} /\ OverHttp /\ sent # None
    /\ OverHttp /\ status = 200 => step = "done" /\ pc = "done" /\ outcome = "ok"
                                   /\ sent # None

\* Every step of the server keeps them together.
LEMMA CallInvNext ==
    ASSUME IndInv, AuthInv, AuthInv', CallInv, CallNext
    PROVE  CallInv'
  <1>1. CASE Request
    <2>1. step # "done" /\ status # 200 /\ route' = route /\ (OverHttp => step # "sent")
      <3>1. step # "done" /\ (OverHttp => step # "sent")
        BY <1>1 DEF Request, A!RequireAuth, A!IntrospectFails, A!Introspected, A!Me,
                    A!Status, A!ReadData, A!NotForwarded, A!Answer
      <3>2. status = None
        BY <3>1 DEF AuthInv, A!TypeOK
      <3>3. route' = route
        BY <1>1 DEF Request, A!RequireAuth, A!IntrospectFails, A!Introspected, A!Me,
                    A!Status, A!ReadData, A!NotForwarded, A!Answer
      <3>4. QED
        BY <3>1, <3>2, <3>3, AbsentAssumption DEF A!Codes
    <2>2. OverHttp => pc = "idle" /\ status' # 200
      <3> SUFFICES ASSUME OverHttp PROVE pc = "idle" /\ status' # 200
        OBVIOUS
      <3>1. pc = "idle"
        BY <2>1 DEF CallInv
      <3>2. status' # 200
        BY <1>1, <2>1 DEF Request, A!RequireAuth, A!IntrospectFails, A!Introspected, A!Me,
                    A!Status, A!ReadData, A!NotForwarded, A!Respond, A!Send, OverHttp,
                    A!ClientErrorStatus
      <3>3. QED
        BY <3>1, <3>2
    <2>3. CASE OverHttp /\ step' = "sent"
      <3>1. sent' # None /\ OverHttp'
        BY <2>1, <2>3 DEF AuthInv, OverHttp
      <3>2. QED
        BY <2>2, <2>3, <3>1 DEF CallInv
    <2>4. CASE ~(OverHttp /\ step' = "sent")
      <3>1. UNCHANGED vars /\ OverHttp' = OverHttp
        BY <1>1, <2>1, <2>4 DEF Request, OverHttp
      <3>2. pc = "idle" \/ ~OverHttp
        BY <2>2
      <3>3. pc = "idle"
        BY <3>2 DEF CallInv
      <3>4. QED
        BY <2>2, <3>1, <3>3 DEF CallInv, vars
    <2>5. QED
      BY <2>3, <2>4
  <1>2. CASE Fetch
    <2>1. pc \in {"sending", "reading"} /\ UNCHANGED requestVars
      BY <1>2 DEF Fetch, Awaited, Head, SendFails, Chunk, End, CutShort, BodyFails, Cancel
    <2>2. UNCHANGED <<step, route, sent, status>>
      BY <2>1 DEF requestVars
    <2>3. QED
      BY <2>1, <2>2 DEF CallInv, OverHttp
  <1>3. CASE AnswerCall
    <2>1. /\ pc = "done" /\ step' = "done" /\ OverHttp' = OverHttp
          /\ UNCHANGED <<pc, outcome, sent>> /\ status' = AnswerCode(outcome)
      BY <1>3 DEF AnswerCall, OverHttp, vars
    <2>2. status' = 200 => outcome = "ok"
      BY <2>1 DEF AnswerCode
    <2>3. QED
      BY <2>1, <2>2 DEF CallInv
  <1>4. CASE RequestEnded
    BY <1>4 DEF RequestEnded, vars, requestVars, CallInv, OverHttp
  <1>5. QED
    BY <1>1, <1>2, <1>3, <1>4 DEF CallNext

\* They hold of the composition.
LEMMA CallInvHolds == MCSpec => []CallInv
  <1>1. MCInit => CallInv
    BY AbsentAssumption DEF MCInit, CallInit, Init, A!Init, A!Codes, CallInv
  <1>2. /\ IndInv /\ AuthInv /\ AuthInv' /\ CallInv
        /\ [MCNext]_<<serverVars, pageVars, end>>
        => CallInv'
    <2> SUFFICES ASSUME IndInv, AuthInv, AuthInv', CallInv,
                        [MCNext]_<<serverVars, pageVars, end>>
                 PROVE  CallInv'
      OBVIOUS
    <2>1. CASE UNCHANGED serverVars
      BY <2>1 DEF serverVars, vars, requestVars, CallInv, OverHttp
    <2>2. QED
      BY <2>1, EndSteps, CallInvNext
  <1>3. QED
    BY <1>1, <1>2, PartsHold, PTL DEF MCSpec

\* An answer of 200 over HTTP has a whole document behind it that the API was
\* asked for with the vouched-for token, and a refused request makes no call.
THEOREM DocumentsAreVouchedForHolds == MCSpec => []DocumentsAreVouchedFor
  <1>1. IndInv /\ AuthInv /\ CallInv => DocumentsAreVouchedFor
    <2> SUFFICES ASSUME IndInv, AuthInv, CallInv PROVE DocumentsAreVouchedFor
      OBVIOUS
    <2>1. ASSUME OverHttp, status = 200
          PROVE  /\ outcome = "ok" /\ body = response.length
                 /\ grant.active /\ sent.bearer = introspected
      <3>1. outcome = "ok" /\ sent # None
        BY <2>1 DEF CallInv
      <3>2. body = response.length
        BY <3>1 DEF IndInv, OkIsWholeDocument
      <3>3. grant.active /\ sent.bearer = introspected
        BY <2>1, <3>1 DEF AuthInv, A!SentOnItsWord, OverHttp
      <3>4. QED
        BY <3>1, <3>2, <3>3
    <2>2. QED
      BY <2>1 DEF CallInv, DocumentsAreVouchedFor
  <1>2. QED
    BY <1>1, PartsHold, CallInvHolds, PTL

-------------------------------------------------------------------------------
\* OperatorPage.
\* Without an overlap at most one handler is pending; what it will show is not
\* there yet, and what the last one showed is the only thing there.
SoloInv ==
    /\ ~overlapped => \A g, h \in pending : g = h
    /\ P!SoloVerdict

PageInv == P!TypeOK /\ SoloInv /\ P!EveryVerdictIsShown

\* The page starts with an empty form.
LEMMA PageInit == P!Init => PageInv
  <1> SUFFICES ASSUME P!Init PROVE PageInv
    OBVIOUS
  <1>1. P!TypeOK
    <2>1. submitted \in 0 .. MaxSubmissions
      BY MaxSubmissionsAssumption DEF P!Init
    <2>2. QED
      BY <2>1 DEF P!Init, P!TypeOK
  <1>2. SoloInv /\ P!EveryVerdictIsShown
    BY DEF P!Init, SoloInv, P!SoloVerdict, P!EveryVerdictIsShown
  <1>3. QED
    BY <1>1, <1>2 DEF PageInv

\* A submission is numbered one higher than any before.
LEMMA PendingGrows ==
    ASSUME P!TypeOK, submitted' = submitted + 1
    PROVE  /\ pending \subseteq P!Handlers(submitted')
           /\ [number |-> submitted', await |-> "fetch"] \in P!Handlers(submitted')
           /\ submitted < MaxSubmissions => submitted' \in 0 .. MaxSubmissions
  <1>1. submitted \in 0 .. MaxSubmissions /\ pending \subseteq P!Handlers(submitted)
    BY DEF P!TypeOK
  <1>2. submitted \in Nat
    BY <1>1, MaxSubmissionsAssumption
  <1>3. P!Handlers(submitted) \subseteq P!Handlers(submitted')
    BY <1>2 DEF P!Handlers
  <1>4. [number |-> submitted', await |-> "fetch"] \in P!Handlers(submitted')
    BY <1>2 DEF P!Handlers
  <1>5. QED
    BY <1>1, <1>2, <1>3, <1>4, MaxSubmissionsAssumption

\* A submission hides both verdicts.
LEMMA SubmitInv == PageInv /\ P!Submit => PageInv'
  <1> SUFFICES ASSUME PageInv, P!Submit PROVE PageInv'
    OBVIOUS
  <1> DEFINE new == [number |-> submitted', await |-> "fetch"]
  <1>1. /\ submitted < MaxSubmissions /\ submitted' = submitted + 1
        /\ error' = Hidden /\ result' = Hidden /\ UNCHANGED lastVerdict
        /\ pending' = pending \cup {new}
        /\ overlapped' = (overlapped \/ pending # {})
    BY DEF P!Submit, P!HideVerdicts
  <1>2. pending' \subseteq P!Handlers(submitted')
    BY <1>1, PendingGrows DEF PageInv
  <1>3. P!TypeOK'
    BY <1>1, <1>2, PendingGrows DEF PageInv, P!TypeOK
  <1>4. ~overlapped' => pending' = {new}
    BY <1>1
  <1>5. SoloInv' /\ P!EveryVerdictIsShown'
    BY <1>1, <1>4 DEF SoloInv, P!SoloVerdict, P!EveryVerdictIsShown
  <1>6. QED
    BY <1>3, <1>5 DEF PageInv

\* A submission without a token is told so at once.
LEMMA SubmitBlankInv == PageInv /\ P!SubmitBlank => PageInv'
  <1> SUFFICES ASSUME PageInv, P!SubmitBlank PROVE PageInv'
    OBVIOUS
  <1>1. /\ submitted < MaxSubmissions /\ submitted' = submitted + 1
        /\ error' = "enter_a_token_first" /\ result' = Hidden
        /\ lastVerdict' = "enter_a_token_first"
        /\ pending' = pending
        /\ overlapped' = (overlapped \/ pending # {})
    BY DEF P!SubmitBlank
  <1>2. P!TypeOK'
    BY <1>1, PendingGrows DEF PageInv, P!TypeOK, P!Errors
  <1>3. error' # Hidden
    BY <1>1, HiddenAssumption DEF P!Errors
  <1>4. SoloInv' /\ P!EveryVerdictIsShown'
    BY <1>1, <1>3 DEF SoloInv, P!SoloVerdict, P!EveryVerdictIsShown
  <1>5. QED
    BY <1>2, <1>4 DEF PageInv

\* A handler ends with a text in one element; if it was the only one the other
\* element is hidden.
LEMMA HandlerEnds ==
    ASSUME PageInv, NEW handler \in pending, pending' = pending \ {handler},
           \/ \E text \in P!Errors : error' = text /\ lastVerdict' = text /\ UNCHANGED result
           \/ result' = "identity" /\ lastVerdict' = "identity" /\ UNCHANGED error,
           UNCHANGED <<submitted, overlapped>>
    PROVE  PageInv'
  <1>1. P!TypeOK'
    BY DEF PageInv, P!TypeOK
  <1>2. error' # Hidden \/ result' # Hidden
    BY HiddenAssumption
  <1>3. ~overlapped => pending' = {} /\ error = Hidden /\ result = Hidden
    BY DEF PageInv, SoloInv, P!SoloVerdict
  <1>4. SoloInv'
    BY <1>3, HiddenAssumption DEF SoloInv, P!SoloVerdict
  <1>5. QED
    BY <1>1, <1>2, <1>4 DEF PageInv, P!EveryVerdictIsShown

\* An ok answer: its handler waits on for the body.
LEMMA BodyAwaited ==
    ASSUME PageInv, NEW handler \in pending,
           pending' = (pending \ {handler})
                      \cup {[number |-> handler.number, await |-> "json"]},
           UNCHANGED <<submitted, overlapped,
                       error, result, lastVerdict>>
    PROVE  PageInv'
  <1>1. P!TypeOK'
    <2>1. [number |-> handler.number, await |-> "json"] \in P!Handlers(submitted)
      BY DEF PageInv, P!TypeOK, P!Handlers
    <2>2. pending' \subseteq P!Handlers(submitted)
      BY <2>1 DEF PageInv, P!TypeOK
    <2> P!TypeOK
      BY DEF PageInv
    <2>3. QED
      BY <2>2, SMT DEF P!TypeOK, P!Handlers
  <1>2. pending # {} /\ pending' # {}
    OBVIOUS
  <1>3. ~overlapped => pending' = {[number |-> handler.number, await |-> "json"]}
    BY DEF PageInv, SoloInv
  <1>4. SoloInv'
    BY <1>2, <1>3 DEF PageInv, SoloInv, P!SoloVerdict
  <1>5. QED
    BY <1>1, <1>2, <1>4 DEF PageInv, P!EveryVerdictIsShown

\* Answers and failures of the fetches, in any order.
LEMMA SettlesInv == PageInv /\ P!Settles => PageInv'
  <1> SUFFICES ASSUME PageInv, NEW handler \in pending,
                      \/ P!Answered(handler) \/ P!Identified(handler)
                      \/ P!RequestFails(handler)
               PROVE  PageInv'
    BY DEF P!Settles
  <1>1. UNCHANGED <<submitted, overlapped>>
    BY DEF P!Answered, P!Identified, P!RequestFails
  <1>2. ASSUME NEW text \in P!Errors, P!ShowError(handler, text) PROVE PageInv'
    BY <1>1, <1>2, HandlerEnds DEF P!ShowError
  <1>3. CASE P!Answered(handler)
    <2>1. \/ /\ pending' = (pending \ {handler})
                           \cup {[number |-> handler.number, await |-> "json"]}
             /\ UNCHANGED <<error, result, lastVerdict>>
          \/ \E text \in P!Errors : P!ShowError(handler, text)
      BY <1>3 DEF P!Answered, P!Errors
    <2>2. QED
      BY <1>1, <1>2, <2>1, BodyAwaited
  <1>4. CASE P!Identified(handler)
    BY <1>1, <1>4, HandlerEnds DEF P!Identified, P!ShowResult
  <1>5. CASE P!RequestFails(handler)
    BY <1>2, <1>5 DEF P!RequestFails, P!Errors
  <1>6. QED
    BY <1>3, <1>4, <1>5

\* Every step of the page preserves its invariant.
LEMMA PageNext == PageInv /\ [P!Next]_(P!vars) => PageInv'
  <1> SUFFICES ASSUME PageInv, [P!Next]_(P!vars) PROVE PageInv'
    OBVIOUS
  <1>1. CASE P!Finished \/ UNCHANGED P!vars
    <2>1. UNCHANGED <<submitted, pending,
                      error, result, lastVerdict, overlapped>>
      BY <1>1 DEF P!Finished, P!vars
    <2> P!TypeOK
      BY DEF PageInv
    <2>2. P!TypeOK'
      BY <2>1, SMT DEF P!TypeOK, P!Handlers
    <2>3. SoloInv'
      BY <2>1 DEF PageInv, SoloInv, P!SoloVerdict
    <2>4. P!EveryVerdictIsShown'
      BY <2>1 DEF PageInv, P!EveryVerdictIsShown
    <2>5. QED
      BY <2>2, <2>3, <2>4 DEF PageInv
  <1>2. QED
    BY <1>1, SubmitInv, SubmitBlankInv, SettlesInv DEF P!Next

\* It holds of the page, however often the form is submitted.
LEMMA PageHolds == MCSpec => []PageInv
  <1>1. P!Spec => []PageInv
    BY PageInit, PageNext, PTL DEF P!Spec
  <1>2. QED
    BY <1>1, PageIsOperatorPage, PTL

\* A submission alone shows its own verdict and nothing else.
THEOREM SoloVerdictHolds == MCSpec => []SoloVerdict
  <1>1. PageInv => SoloVerdict
    BY DEF PageInv, SoloInv, SoloVerdict
  <1>2. QED
    BY <1>1, PageHolds, PTL

\* Whatever overlapped, the operator is told something.
THEOREM EveryVerdictIsShownHolds == MCSpec => []EveryVerdictIsShown
  <1>1. PageInv => EveryVerdictIsShown
    BY DEF PageInv, EveryVerdictIsShown
  <1>2. QED
    BY <1>1, PageHolds, PTL

\* The state keeps its shape at both ends.
THEOREM AllTypesCorrect == MCSpec => []AllTypesOK
  <1>1. IndInv /\ AuthInv /\ PageInv => AllTypesOK
    BY DEF IndInv, AuthInv, PageInv, AllTypesOK
  <1>2. QED
    BY <1>1, PartsHold, PageHolds, PTL

===============================================================================
