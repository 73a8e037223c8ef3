------------------------------- MODULE MCStartup -------------------------------
(***************************************************************************)
(* The two halves of a start for TLC: flags::process_control, which makes  *)
(* the configuration, and the rest of main, which reads it (Startup).  The *)
(* second looks at its variables in a coarser way than the first writes    *)
(* them, so they share no state, and a behaviour follows one of them.      *)
(***************************************************************************)
EXTENDS Flags, Naturals, TLC

CONSTANTS yes, false, bad, blank,       \* texts
          MaxBad        \* how many variables main would refuse are set at once

VARIABLES half,         \* "flags" or "main"
          env, hostUsable, database, broker, gateway, ready,
          step          \* pc of Startup

S == INSTANCE Startup WITH pc <- step

mainVars == <<env, hostUsable, database, broker, step, gateway, ready>>

MCDefaults == (Help :> false) @@ (Version :> false) @@ (Command :> yes)
MCCanonical == (yes :> True) @@ [text \in Values \ {yes} |-> text]

\* The half that does not move is in one of its initial states.
MCInit ==
    /\ \/ /\ half = "flags" /\ hostUsable = TRUE
          /\ env = CHOOSE e \in S!Environments : \A name \in DOMAIN e : e[name] = "ok"
          /\ database = "up" /\ broker = "up"
       \/ /\ half = "main" /\ environment = Nothing /\ tempWritable = TRUE
          /\ env \in S!Environments
          /\ Cardinality({name \in DOMAIN env \ {"OTEL_EXPORTER_OTLP_ENDPOINT"} :
                             env[name] = "bad"}) <= MaxBad
    /\ Init /\ S!Init

MCNext ==
    \/ half = "flags" /\ Next /\ UNCHANGED <<mainVars, half>>
    \/ half = "main" /\ S!Next /\ UNCHANGED <<vars, half>>

\* main runs on; the fairness of Startup.
MCSpec ==
    /\ MCInit /\ [][MCNext]_<<vars, mainVars, half>>
    /\ WF_<<vars, mainVars, half>>(half = "main" /\ S!StartupStep /\ UNCHANGED <<vars, half>>)

\* Of main: what the probe says is what the gateway serves.
ReadyMatchesGateway == S!ReadyMatchesGateway

\* Of main: what JetStream accepts can be asked about, by someone who is known.
AcceptedIsQueryable == S!AcceptedIsQueryable

\* Of main: an outage disables a mode or the traces; only the role query of a
\* database that stalls holds up the start.
StartWaitsForTheDatabaseOnly == half = "main" => S!StartWaitsForTheDatabaseOnly
===============================================================================
