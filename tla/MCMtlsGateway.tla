---------------------------- MODULE MCMtlsGateway ----------------------------
(***************************************************************************)
(* MtlsGateway for TLC, deployed with the mTLS mode only.  Either all      *)
(* requests come, and the API takes connections and frames and answers     *)
(* with a result, as late as it likes, or never; or some come, and the API *)
(* may do anything, with a server name that may not parse.  Of the         *)
(* requests that make no call, which hold no permit, those are kept that   *)
(* are refused for want of one.                                            *)
(***************************************************************************)
EXTENDS MtlsGateway

CONSTANT Few            \* the requests that come when the API may do anything

VARIABLE callers        \* the requests that come

MCInit ==
    /\ GatewayInit /\ verifierConfigured /\ configured = {Tcp}
    /\ \/ callers = Requests /\ serverNameParses
       \/ callers = Few

Arrives(r) == Elsewhere(r) /\ (at'[r] = "verifying" \/ answer'[r] = "Backpressure")

MCAnswers == {"none", "ok", "Timeout", "Backpressure", "cancelled"}

ApiAnswers ==
    /\ ApiActs /\ executed' # executed
    /\ \A c \in Requests : toWeb'[c] # <<>> => Head(toWeb'[c]).kind = "result"

MCNext ==
    /\ \/ \E r \in callers : CallNext(r) \/ Arrives(r)
       \/ callers = Requests /\ ApiAnswers
       \/ callers = Few /\ ApiActs
       \/ TimePasses
       \/ (\A r \in callers : at[r] = "done") /\ UNCHANGED allVars
    /\ callers = Requests => \A r \in Requests : answer'[r] \in MCAnswers
    /\ UNCHANGED callers

MCSpec == MCInit /\ [][MCNext]_<<allVars, callers>> /\ CallFairness
===============================================================================
