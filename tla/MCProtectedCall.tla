---------------------------- MODULE MCProtectedCall ----------------------------
(***************************************************************************)
(* Two modules in one run of TLC: the request on the server                *)
(* (ProtectedCall) and, apart from it, the form of the operator page.      *)
(* They share no state, and a behaviour follows one of them; the page      *)
(* takes the status of an answer as it comes.                              *)
(***************************************************************************)
EXTENDS ProtectedCall

CONSTANTS MaxSubmissions, Hidden        \* as in OperatorPage

VARIABLES end,          \* "server" or "page"
          submitted, pending, error, result, overlapped, lastVerdict

P == INSTANCE OperatorPage

ASSUME MaxSubmissionsAssumption == MaxSubmissions \in Nat
ASSUME HiddenAssumption == Hidden \notin P!Errors \cup {"identity"}

serverVars == <<vars, requestVars>>
pageVars == <<submitted, pending, error, result, overlapped, lastVerdict>>

\* The end that does not move is in one of its initial states.
MCInit ==
    /\ CallInit /\ P!Init
    /\ \/ end = "server"
       \/ end = "page" /\ header = <<>> /\ route = "me" /\ configured

MCNext ==
    \/ end = "server" /\ CallNext /\ UNCHANGED <<pageVars, end>>
    \/ end = "page" /\ P!Next /\ UNCHANGED <<serverVars, end>>

MCSpec ==
    /\ MCInit /\ [][MCNext]_<<serverVars, pageVars, end>>
    /\ CallFairness

\* The shape of the state at both ends.
AllTypesOK == TypeOK /\ A!TypeOK /\ P!TypeOK

\* Of the page: a submission alone shows its own verdict and nothing else.
SoloVerdict == P!SoloVerdict

\* Of the page: whatever overlapped, the operator is told something.
EveryVerdictIsShown == P!EveryVerdictIsShown
===============================================================================
