------------------------------- MODULE MCEnvFiles -------------------------------
(***************************************************************************)
(* Two modules in one run of TLC: the recipes on the files of an           *)
(* environment (EnvFiles) and, apart from them, the container that starts  *)
(* with a ciphertext in its image (Entrypoint).  The image is a copy: they *)
(* share no state, and a behaviour follows one of them.                    *)
(***************************************************************************)
EXTENDS EnvFiles, Sequences

CONSTANTS MaxLines              \* as in Entrypoint

VARIABLES end,          \* "recipes" or "container"
          container, env, present, supplied, required, sops, readable, file, read,
          step          \* pc of Entrypoint

C == INSTANCE Entrypoint WITH pc <- step

containerVars == <<container, env, present, supplied, required, sops, readable,
                   file, read, step>>

\* The end that does not move is in one of its initial states.
MCInit ==
    /\ Init /\ C!Init
    /\ \/ end = "recipes" /\ ~present /\ ~supplied /\ ~required /\ ~sops /\ ~readable
                          /\ file = <<>> /\ \A name \in Names : container[name] = C!Unset
       \/ end = "container" /\ enc = Whole(Blank) /\ dec = Absent

MCNext ==
    \/ end = "recipes" /\ Next /\ UNCHANGED <<containerVars, end>>
    \/ end = "container" /\ C!Next /\ UNCHANGED <<vars, end>>

MCSpec == MCInit /\ [][MCNext]_<<vars, containerVars, end>>

\* Of the entrypoint: what the container sets is what the application sees.
ContainerWins == C!ContainerWins

\* Of the entrypoint: every secret or no start.
AllOrNothing == C!AllOrNothing
===============================================================================
