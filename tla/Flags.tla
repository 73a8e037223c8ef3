--------------------------------- MODULE Flags ---------------------------------
(***************************************************************************)
(* src/flags.rs: the command line, the defaults of .cli-flags.toml and the *)
(* process environment become one map, once, before main does anything     *)
(* else; process_control answers --help and --version from it and every    *)
(* later flags::var reads it.                                              *)
(*                                                                         *)
(* The parser, flags2env, is external.  Of argv it reports what it could   *)
(* not place, the flags that were given, and values of its own that go     *)
(* above the environment; from a map of texts it makes typed values, among *)
(* them null, or refuses.  A layer is a function on the names it defines.  *)
(***************************************************************************)
EXTENDS FiniteSets

CONSTANTS Names,            \* names of variables
          Contract,         \* those .cli-flags.toml has a flag for
          Command,          \* FLAGS2ENV_COMMAND
          Help, Version,    \* CLI_HELP_REQUESTED, CLI_VERSION_REQUESTED
          Values,           \* texts
          True,             \* the text "true"
          Malformed,        \* texts that are not of a flag's type
          Blank,            \* texts that become null
          Canonical,        \* how the others are written once they are typed
          Defaults          \* what the contract sets by itself

ASSUME NamesAssumption ==
    /\ Contract \subseteq Names /\ {Help, Version} \subseteq Contract
    /\ Command \in Names \ Contract
ASSUME ValuesAssumption ==
    /\ Malformed \subseteq Values /\ Blank \subseteq Values
    /\ Canonical \in [Values -> Values]

\* The maps from some of the names to texts.
Layer(names) == UNION {[defined -> Values] : defined \in SUBSET names}

ASSUME DefaultsAssumption == Defaults \in Layer(Contract \cup {Command})

VARIABLES
    environment,    \* the process environment
    tempWritable,   \* a temporary file can be created
    pc,             \* the stage of process_control, or how it ended
    reason,         \* why it failed
    overrides,      \* dotenv_overrides of the parser
    flags,          \* provided_flags of the parser
    resolved        \* RESOLVED

parsed == <<overrides, flags>>
vars == <<environment, tempWritable, pc, reason, overrides, flags, resolved>>

Nothing == [name \in {} |-> True]

Init ==
    /\ environment \in Layer(Names)
    /\ tempWritable \in BOOLEAN
    /\ pc = "contract"
    /\ reason = "none"
    /\ overrides = Nothing /\ flags = Nothing
    /\ resolved = Nothing

Fail(why) ==
    /\ pc' = "failed" /\ reason' = why
    /\ UNCHANGED <<environment, tempWritable, overrides, flags, resolved>>

\* The parser reads the contract from a file, so the embedded one is written
\* to a temporary file first.
WriteContract ==
    /\ pc = "contract"
    /\ \/ ~tempWritable /\ Fail("contract")
       \/ /\ tempWritable
          /\ pc' = "parse"
          /\ UNCHANGED <<environment, tempWritable, reason, parsed, resolved>>

\* Options nobody knows, values that do not fit, and positional arguments.
Refused(problems) == problems # {}

\* parse_structured, and the checks on what it reports.
Parse ==
    /\ pc = "parse"
    /\ \/ Fail("argv")
       \/ \E problems \in SUBSET {"unknown_options", "errors", "extras"} :
             \/ Refused(problems) /\ Fail("argv")
             \/ /\ ~Refused(problems)
                /\ overrides' \in Layer(Contract)
                /\ flags' \in Layer(Contract)
                /\ pc' = "layers"
                /\ reason' = IF problems = {} THEN "none" ELSE "ignored"
                /\ UNCHANGED <<environment, tempWritable, resolved>>

-------------------------------------------------------------------------------
\* raw.extend(upper): the upper layer wins.
Over(lower, upper) ==
    [name \in DOMAIN lower \cup DOMAIN upper |->
        IF name \in DOMAIN upper THEN upper[name] ELSE lower[name]]

Without(layer, name) == [other \in DOMAIN layer \ {name} |-> layer[other]]

\* Fault: the environment is laid over the command line.
Raw_EnvironmentLast ==
    Over(Without(Over(Over(Defaults, flags), overrides), Command), environment)

\* The four layers, from the lowest to the highest.
Raw == Over(Without(Over(Over(Defaults, environment), overrides), Command), flags)

\* coerce refuses them all if one is malformed, writes typed values its own way
\* and hands on the names it has no type for.
CoerceFails(raw) == \E name \in Contract \cap DOMAIN raw : raw[name] \in Malformed
NotNull(raw) == {name \in DOMAIN raw : name \in Contract => raw[name] \notin Blank}
Typed(raw) == [name \in NotNull(raw) |->
                  IF name \in Contract THEN Canonical[raw[name]] ELSE raw[name]]

\* Fault: a null erases what the environment had.
Resolved_NullErases(raw) ==
    Over([name \in DOMAIN environment \ DOMAIN raw |-> environment[name]], Typed(raw))

\* The environment, with the typed values that are not null on top.
Resolved(raw) == Over(environment, Typed(raw))

\* The layers are laid, typed and kept in the OnceLock.
Resolve ==
    /\ pc = "layers"
    /\ \/ CoerceFails(Raw) /\ Fail("types")
       \/ /\ ~CoerceFails(Raw)
          /\ resolved' = Resolved(Raw)
          /\ pc' = "control"
          /\ UNCHANGED <<environment, tempWritable, reason, parsed>>

Requested(name) == name \in DOMAIN resolved /\ resolved[name] = True

\* Help or version is printed and main returns; else main goes on to
\* Config::from_env.
Control ==
    /\ pc = "control"
    /\ pc' = IF Requested(Help) THEN "helped"
             ELSE IF Requested(Version) THEN "versioned" ELSE "running"
    /\ UNCHANGED <<environment, tempWritable, reason, parsed, resolved>>

Ended == pc \in {"failed", "helped", "versioned", "running"} /\ UNCHANGED vars

Next == WriteContract \/ Parse \/ Resolve \/ Control \/ Ended

Spec == Init /\ [][Next]_vars

-------------------------------------------------------------------------------
Stages == {"contract", "parse", "layers", "control", "failed", "helped", "versioned",
           "running"}
Decided == {"control", "helped", "versioned", "running"}

\* The shape of the state.
TypeOK ==
    /\ environment \in Layer(Names)
    /\ tempWritable \in BOOLEAN
    /\ pc \in Stages
    /\ reason \in {"none", "contract", "argv", "types", "ignored"}
    /\ overrides \in Layer(Contract)
    /\ flags \in Layer(Contract)
    /\ resolved \in Layer(Names)

\* The layers from the highest to the lowest, and the first that has a name.
Candidates(name) ==
    IF name \in DOMAIN flags THEN <<flags[name]>>
    ELSE IF name \in DOMAIN overrides THEN <<overrides[name]>>
    ELSE IF name \in DOMAIN environment THEN <<environment[name]>>
    ELSE IF name \in DOMAIN Defaults THEN <<Defaults[name]>>
    ELSE <<>>

\* What the program reads of a name the contract has a flag for is the value of
\* the highest layer that defines it: flag, override, environment, default.  A
\* value that says nothing leaves the environment's in place.
Precedence ==
    pc \in Decided =>
        \A name \in Contract :
           LET best == Candidates(name)
           IN  IF best # <<>> /\ best[1] \notin Blank
               THEN name \in DOMAIN resolved /\ resolved[name] = Canonical[best[1]]
               ELSE IF name \in DOMAIN environment
               THEN name \in DOMAIN resolved /\ resolved[name] = environment[name]
               ELSE name \notin DOMAIN resolved

\* What the contract does not know passes from the environment untouched, the
\* secrets it lists as ignored among them; the parser's own command is no
\* configuration.
OthersUntouched ==
    pc \in Decided =>
        \A name \in Names \ Contract :
           /\ name \in DOMAIN resolved <=> name \in DOMAIN environment
           /\ name \in DOMAIN resolved => resolved[name] = environment[name]

\* The program runs only on a command line that was understood in full, and
\* never when that line asks for help or the version, whatever the environment
\* says of either.
RunsOnlyWhatWasAsked ==
    pc = "running" =>
        /\ reason = "none"
        /\ \A name \in {Help, Version} \cap DOMAIN flags :
              flags[name] \notin Blank => Canonical[flags[name]] # True

\* Nothing is resolved before the layers are laid; afterwards the map is what
\* they give.
ResolvedInv ==
    /\ pc \in {"contract", "parse"} => overrides = Nothing /\ flags = Nothing
    /\ pc \in {"contract", "parse", "layers"} => resolved = Nothing
    /\ pc \in {"layers", "control", "helped", "versioned", "running"} => reason = "none"
    /\ pc \in Decided => resolved = Resolved(Raw) /\ ~CoerceFails(Raw)
    /\ pc = "running" => ~Requested(Help) /\ ~Requested(Version)

\* What makes the properties above inductive.
IndInv == TypeOK /\ ResolvedInv
===============================================================================
