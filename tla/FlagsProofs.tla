------------------------------ MODULE FlagsProofs ------------------------------
(***************************************************************************)
(* For any names, texts and layers: which layer decides what the program   *)
(* reads, and that it runs only on a command line it understood; and of    *)
(* both halves of a start, that each is what its module says.              *)
(***************************************************************************)
EXTENDS MCStartup, TLAPS

\* What is proved of main.
M == INSTANCE StartupProofs WITH pc <- step

\* The empty layer defines nothing.
LEMMA NothingIsLayer == ASSUME NEW names PROVE Nothing \in Layer(names)
  <1>1. Nothing \in [{} -> Values]
    BY DEF Nothing
  <1> QED
    BY <1>1 DEF Layer

\* A layer is a function from some of its names to texts.
LEMMA LayerValues ==
    ASSUME NEW names, NEW layer \in Layer(names)
    PROVE  /\ DOMAIN layer \subseteq names
           /\ \A name \in DOMAIN layer : layer[name] \in Values
           /\ layer \in [DOMAIN layer -> Values]
  BY DEF Layer

\* The other way round.
LEMMA LayerIntro ==
    ASSUME NEW names, NEW defined \in SUBSET names, NEW layer \in [defined -> Values]
    PROVE  layer \in Layer(names)
  BY DEF Layer

\* Laying one layer over another.
LEMMA OverIsLayer ==
    ASSUME NEW names, NEW lower \in Layer(names), NEW upper \in Layer(names)
    PROVE  Over(lower, upper) \in Layer(names)
  <1>1. DOMAIN lower \cup DOMAIN upper \in SUBSET names
    BY LayerValues
  <1>2. Over(lower, upper) \in [DOMAIN lower \cup DOMAIN upper -> Values]
    BY LayerValues DEF Over
  <1> QED
    BY <1>1, <1>2, LayerIntro

\* Which of two layers decides.
LEMMA OverValues ==
    ASSUME NEW lower, NEW upper
    PROVE  /\ DOMAIN Over(lower, upper) = DOMAIN lower \cup DOMAIN upper
           /\ \A name \in DOMAIN upper : Over(lower, upper)[name] = upper[name]
           /\ \A name \in DOMAIN lower \ DOMAIN upper :
                 Over(lower, upper)[name] = lower[name]
  BY DEF Over

\* A name taken out of a layer.
LEMMA WithoutValues ==
    ASSUME NEW layer, NEW name
    PROVE  /\ DOMAIN Without(layer, name) = DOMAIN layer \ {name}
           /\ \A other \in DOMAIN layer \ {name} :
                 Without(layer, name)[other] = layer[other]
  BY DEF Without

\* What the four layers have for a name: the command is not configuration, and
\* the rest is decided by the highest layer.
LEMMA RawValues ==
    ASSUME TypeOK
    PROVE  /\ DOMAIN Raw \subseteq Names
           /\ \A name \in DOMAIN Raw : Raw[name] \in Values
           /\ Command \notin DOMAIN Raw
           /\ \A name \in Contract :
                 /\ name \in DOMAIN Raw <=> Candidates(name) # <<>>
                 /\ name \in DOMAIN Raw => Raw[name] = Candidates(name)[1]
           /\ \A name \in Names \ (Contract \cup {Command}) :
                 /\ name \in DOMAIN Raw <=> name \in DOMAIN environment
                 /\ name \in DOMAIN Raw => Raw[name] = environment[name]
  <1> DEFINE low == Over(Over(Defaults, environment), overrides)
             mid == Without(low, Command)
  <1>1. /\ DOMAIN Defaults \subseteq Contract \cup {Command}
        /\ \A name \in DOMAIN Defaults : Defaults[name] \in Values
        /\ DOMAIN environment \subseteq Names
        /\ \A name \in DOMAIN environment : environment[name] \in Values
        /\ DOMAIN overrides \subseteq Contract
        /\ \A name \in DOMAIN overrides : overrides[name] \in Values
        /\ DOMAIN flags \subseteq Contract
        /\ \A name \in DOMAIN flags : flags[name] \in Values
    BY LayerValues, DefaultsAssumption DEF TypeOK
  <1>2. /\ DOMAIN low = (DOMAIN Defaults \cup DOMAIN environment) \cup DOMAIN overrides
        /\ \A name \in DOMAIN low :
              low[name] = IF name \in DOMAIN overrides THEN overrides[name]
                          ELSE IF name \in DOMAIN environment THEN environment[name]
                          ELSE Defaults[name]
    BY DEF Over
  <1>3. /\ DOMAIN mid = DOMAIN low \ {Command}
        /\ \A name \in DOMAIN mid : mid[name] = low[name]
    BY WithoutValues
  <1> HIDE DEF low, mid
  <1>4. /\ DOMAIN Raw = DOMAIN mid \cup DOMAIN flags
        /\ \A name \in DOMAIN Raw :
              Raw[name] = IF name \in DOMAIN flags THEN flags[name] ELSE mid[name]
    BY OverValues DEF Raw, low, mid, Over
  <1>5. Command \notin Contract /\ Contract \subseteq Names /\ Command \in Names
    BY NamesAssumption
  <1>6. ASSUME NEW name \in Contract
        PROVE  /\ name \in DOMAIN Raw <=> Candidates(name) # <<>>
               /\ name \in DOMAIN Raw => Raw[name] = Candidates(name)[1]
    BY <1>1, <1>2, <1>3, <1>4, <1>5 DEF Candidates
  <1>7. ASSUME NEW name \in Names \ (Contract \cup {Command})
        PROVE  /\ name \in DOMAIN Raw <=> name \in DOMAIN environment
               /\ name \in DOMAIN Raw => Raw[name] = environment[name]
    BY <1>1, <1>2, <1>3, <1>4, <1>5
  <1>8. DOMAIN Raw \subseteq Names /\ Command \notin DOMAIN Raw
    BY <1>1, <1>2, <1>3, <1>4, <1>5
  <1>9. \A name \in DOMAIN Raw : Raw[name] \in Values
    BY <1>1, <1>2, <1>3, <1>4
  <1> QED
    BY <1>6, <1>7, <1>8, <1>9

\* What is resolved from a map of texts.
LEMMA ResolvedValues ==
    ASSUME NEW raw
    PROVE  /\ DOMAIN Resolved(raw) = DOMAIN environment \cup NotNull(raw)
           /\ \A name \in NotNull(raw) :
                 Resolved(raw)[name] = IF name \in Contract THEN Canonical[raw[name]]
                                       ELSE raw[name]
           /\ \A name \in DOMAIN environment \ NotNull(raw) :
                 Resolved(raw)[name] = environment[name]
  <1>1. DOMAIN Typed(raw) = NotNull(raw)
        /\ \A name \in NotNull(raw) :
              Typed(raw)[name] = IF name \in Contract THEN Canonical[raw[name]]
                                 ELSE raw[name]
    BY DEF Typed
  <1>2. /\ DOMAIN Resolved(raw) = DOMAIN environment \cup DOMAIN Typed(raw)
        /\ \A name \in DOMAIN Typed(raw) : Resolved(raw)[name] = Typed(raw)[name]
        /\ \A name \in DOMAIN environment \ DOMAIN Typed(raw) :
              Resolved(raw)[name] = environment[name]
    BY DEF Resolved, Over
  <1> QED
    BY <1>1, <1>2

\* What is resolved is a layer on the program's names.
LEMMA ResolvedIsLayer == TypeOK => Resolved(Raw) \in Layer(Names)
  <1> SUFFICES ASSUME TypeOK PROVE Resolved(Raw) \in Layer(Names)
    OBVIOUS
  <1>1. NotNull(Raw) \in SUBSET Names /\ NotNull(Raw) \subseteq DOMAIN Raw
    BY RawValues DEF NotNull
  <1>2. Typed(Raw) \in [NotNull(Raw) -> Values]
    <2> SUFFICES ASSUME NEW name \in NotNull(Raw)
                 PROVE  (IF name \in Contract THEN Canonical[Raw[name]] ELSE Raw[name])
                           \in Values
      BY DEF Typed
    <2>1. Raw[name] \in Values
      BY <1>1, RawValues
    <2> QED
      BY <2>1, ValuesAssumption
  <1>3. Typed(Raw) \in Layer(Names)
    BY <1>1, <1>2, LayerIntro
  <1> QED
    BY <1>3, OverIsLayer DEF Resolved, TypeOK

-------------------------------------------------------------------------------
\* The invariant holds when the program begins.
LEMMA InitInv == Init => IndInv
  BY NothingIsLayer
  DEF Init, IndInv, TypeOK, ResolvedInv, Stages, Decided

\* Every step preserves the invariant.
LEMMA StepInv == IndInv /\ [Next]_vars => IndInv'
  <1> SUFFICES ASSUME IndInv, [Next]_vars PROVE IndInv'
    OBVIOUS
  <1> USE DEF IndInv, TypeOK, ResolvedInv, Stages, Decided
  <1>1. CASE WriteContract
    BY <1>1 DEF WriteContract, Fail, parsed
  <1>2. CASE Parse
    <2>1. CASE Fail("argv")
      BY <1>2, <2>1 DEF Parse, Fail
    <2>2. CASE \E problems \in SUBSET {"unknown_options", "errors", "extras"} :
                  /\ ~Refused(problems)
                  /\ overrides' \in Layer(Contract)
                  /\ flags' \in Layer(Contract)
                  /\ pc' = "layers"
                  /\ reason' = IF problems = {} THEN "none" ELSE "ignored"
                  /\ UNCHANGED <<environment, tempWritable, resolved>>
      BY <1>2, <2>2 DEF Parse, Refused
    <2> QED
      BY <1>2, <2>1, <2>2 DEF Parse
  <1>3. CASE Resolve
    <2>1. CASE Fail("types")
      BY <1>3, <2>1 DEF Resolve, Fail
    <2>2. CASE ~CoerceFails(Raw) /\ resolved' = Resolved(Raw) /\ pc' = "control"
               /\ UNCHANGED <<environment, tempWritable, reason, parsed>>
      <3>1. pc = "layers" /\ resolved' \in Layer(Names)
        BY <1>3, <2>2, ResolvedIsLayer DEF Resolve
      <3>2. /\ Raw' = Raw
            /\ Resolved(Raw)' = Resolved(Raw)
            /\ CoerceFails(Raw)' <=> CoerceFails(Raw)
        BY <2>2 DEF Raw, Resolved, Typed, NotNull, CoerceFails, parsed
      <3> QED
        BY <2>2, <3>1, <3>2 DEF parsed
    <2> QED
      BY <1>3, <2>1, <2>2 DEF Resolve
  <1>4. CASE Control
    <2>1. /\ Raw' = Raw
          /\ Resolved(Raw)' = Resolved(Raw)
          /\ CoerceFails(Raw)' <=> CoerceFails(Raw)
          /\ \A name : Requested(name)' <=> Requested(name)
      BY <1>4 DEF Control, Raw, Resolved, Typed, NotNull, CoerceFails, Requested, parsed
    <2> QED
      BY <1>4, <2>1 DEF Control, parsed
  <1>5. CASE Ended \/ UNCHANGED vars
    <2>1. UNCHANGED vars
      BY <1>5 DEF Ended
    <2>2. /\ Raw' = Raw
          /\ Resolved(Raw)' = Resolved(Raw)
          /\ CoerceFails(Raw)' <=> CoerceFails(Raw)
          /\ \A name : Requested(name)' <=> Requested(name)
      BY <2>1 DEF vars, Raw, Resolved, Typed, NotNull, CoerceFails, Requested
    <2> QED
      BY <2>1, <2>2 DEF vars
  <1> QED
    BY <1>1, <1>2, <1>3, <1>4, <1>5 DEF Next

\* The invariant holds in every reachable state, for any names and texts.
THEOREM Inductive == Spec => []IndInv
  BY InitInv, StepInv, PTL DEF Spec

\* The highest layer that defines a name decides what the program reads of it.
THEOREM PrecedenceHolds == Spec => []Precedence
  <1>1. IndInv => Precedence
    <2> SUFFICES ASSUME IndInv, pc \in Decided, NEW name \in Contract
                 PROVE  LET best == Candidates(name)
                        IN  IF best # <<>> /\ best[1] \notin Blank
                            THEN name \in DOMAIN resolved
                                 /\ resolved[name] = Canonical[best[1]]
                            ELSE IF name \in DOMAIN environment
                            THEN name \in DOMAIN resolved
                                 /\ resolved[name] = environment[name]
                            ELSE name \notin DOMAIN resolved
      BY DEF Precedence
    <2>1. resolved = Resolved(Raw) /\ TypeOK
      BY DEF IndInv, ResolvedInv
    <2>2. /\ name \in DOMAIN Raw <=> Candidates(name) # <<>>
          /\ name \in DOMAIN Raw => Raw[name] = Candidates(name)[1]
      BY <2>1, RawValues
    <2>3. name \in NotNull(Raw) <=>
             Candidates(name) # <<>> /\ Candidates(name)[1] \notin Blank
      BY <2>2 DEF NotNull
    <2>4. /\ DOMAIN resolved = DOMAIN environment \cup NotNull(Raw)
          /\ name \in NotNull(Raw) => resolved[name] = Canonical[Raw[name]]
          /\ name \in DOMAIN environment \ NotNull(Raw) =>
                resolved[name] = environment[name]
      BY <2>1, ResolvedValues
    <2>5. CASE name \in NotNull(Raw)
      BY <2>2, <2>3, <2>4, <2>5 DEF NotNull
    <2>6. CASE name \notin NotNull(Raw)
      BY <2>3, <2>4, <2>6
    <2> QED
      BY <2>5, <2>6
  <1> QED
    BY <1>1, Inductive, PTL

\* What the contract does not know passes from the environment untouched.
THEOREM OthersUntouchedHolds == Spec => []OthersUntouched
  <1>1. IndInv => OthersUntouched
    <2> SUFFICES ASSUME IndInv, pc \in Decided, NEW name \in Names \ Contract
                 PROVE  /\ name \in DOMAIN resolved <=> name \in DOMAIN environment
                        /\ name \in DOMAIN resolved => resolved[name] = environment[name]
      BY DEF OthersUntouched
    <2>1. resolved = Resolved(Raw) /\ TypeOK
      BY DEF IndInv, ResolvedInv
    <2>2. name \in DOMAIN Raw => name \in DOMAIN environment /\ Raw[name] = environment[name]
      BY <2>1, RawValues
    <2>3. name \in NotNull(Raw) => name \in DOMAIN Raw
      BY DEF NotNull
    <2> QED
      BY <2>1, <2>2, <2>3, ResolvedValues
  <1> QED
    BY <1>1, Inductive, PTL

\* The program does not run on a command line it did not understand, or that
\* asks for help or the version.
THEOREM RunsOnlyWhatWasAskedHolds == Spec => []RunsOnlyWhatWasAsked
  <1>1. IndInv => RunsOnlyWhatWasAsked
    <2> SUFFICES ASSUME IndInv, pc = "running" PROVE RunsOnlyWhatWasAsked
      BY DEF RunsOnlyWhatWasAsked
    <2>1. /\ reason = "none" /\ resolved = Resolved(Raw) /\ TypeOK
          /\ ~Requested(Help) /\ ~Requested(Version)
      BY DEF IndInv, ResolvedInv, Decided
    <2>2. ASSUME NEW name \in {Help, Version} \cap DOMAIN flags, flags[name] \notin Blank
          PROVE  Canonical[flags[name]] # True
      <3>1. name \in Contract
        BY NamesAssumption
      <3>2. Candidates(name) = <<flags[name]>>
        BY DEF Candidates
      <3>3. name \in DOMAIN Raw /\ Raw[name] = flags[name]
        BY <2>1, <3>1, <3>2, RawValues
      <3>4. name \in NotNull(Raw)
        BY <2>2, <3>3 DEF NotNull
      <3>5. name \in DOMAIN resolved /\ resolved[name] = Canonical[flags[name]]
        <4>1. /\ DOMAIN resolved = DOMAIN environment \cup NotNull(Raw)
              /\ resolved[name] = Canonical[Raw[name]]
          BY <2>1, <3>1, <3>4, ResolvedValues
        <4> QED
          BY <4>1, <3>3, <3>4
      <3> QED
        BY <2>1, <3>5 DEF Requested
    <2> QED
      BY <2>1, <2>2 DEF RunsOnlyWhatWasAsked
  <1> QED
    BY <1>1, Inductive, PTL

-------------------------------------------------------------------------------
\* Both halves of a start.
\* A step of one half is a step of its module and leaves the other alone.
LEMMA HalfSteps ==
    [MCNext]_<<vars, mainVars, half>> => [Next]_vars /\ [S!Next]_(S!vars)
  BY DEF MCNext, vars, mainVars, S!vars

\* The first half of a start is a Flags, whatever main does.
THEOREM StartIsFlags == MCSpec => Spec
  <1>1. MCInit => Init
    BY DEF MCInit
  <1>2. QED
    BY <1>1, HalfSteps, PTL DEF MCSpec, Spec

\* The second half is a Startup.
THEOREM StartIsStartup == MCSpec => S!Spec
  <1>1. MCInit => S!Init
    BY DEF MCInit
  <1>2. QED
    BY <1>1, HalfSteps, PTL DEF MCSpec, S!Spec

\* M and S are instances of the same module.
LEMMA SameStart == S!Spec => M!Spec
  <1>1. S!EnvironmentValid <=> M!EnvironmentValid
    BY DEF S!EnvironmentValid, M!EnvironmentValid, S!ApiUrlValid, M!ApiUrlValid,
           S!OthersValid, M!OthersValid, S!SharedAuthValid, M!SharedAuthValid,
           S!DirectDatabaseValid, M!DirectDatabaseValid, S!AsyncValid, M!AsyncValid,
           S!Ok, M!Ok, S!Set, M!Set
  <1>2. S!EnvironmentParts = M!EnvironmentParts
    BY DEF S!EnvironmentParts, M!EnvironmentParts, S!Parts, M!Parts, S!Ok, M!Ok
  <1>3. S!StartupStep => M!StartupStep
    BY <1>1, <1>2
       DEF S!StartupStep, M!StartupStep, S!FromEnv, M!FromEnv, S!Found, M!Found,
           S!InitTelemetry, M!InitTelemetry, S!BuildVerifier, M!BuildVerifier,
           S!ConnectDatabase, M!ConnectDatabase, S!ProveRole, M!ProveRole,
           S!LoadClientIdentity, M!LoadClientIdentity,
           S!ConnectBroker, M!ConnectBroker, S!Serve, M!Serve, S!ReadyModes, M!ReadyModes,
           S!OptionOf, M!OptionOf, S!Modes, M!Modes, S!Abort, M!Abort, S!Outside, M!Outside,
           S!Ok, M!Ok, S!Set, M!Set
  <1>4. [S!Next]_(S!vars) => [M!Next]_(M!vars)
    BY <1>3 DEF S!Next, M!Next, S!vars, M!vars, S!Shutdown, M!Shutdown, S!Outage, M!Outage,
                S!Outside, M!Outside, S!Databases, M!Databases, S!Brokers, M!Brokers
  <1>5. S!Init => M!Init
    BY DEF S!Init, M!Init, S!Environments, M!Environments, S!Value, M!Value,
           S!Databases, M!Databases, S!Brokers, M!Brokers
  <1>6. QED
    BY <1>4, <1>5, PTL DEF S!Spec, M!Spec

\* What GET /ready reports is what the gateway of this start serves.
THEOREM ReadyMatchesGatewayHolds == MCSpec => []ReadyMatchesGateway
  <1>1. M!ReadyMatchesGateway => ReadyMatchesGateway
    BY DEF M!ReadyMatchesGateway, ReadyMatchesGateway, S!ReadyMatchesGateway,
           M!ReadyModes, S!ReadyModes, M!OptionOf, S!OptionOf, M!Modes, S!Modes,
           M!Served, S!Served
  <1>2. QED
    BY StartIsStartup, SameStart, M!ReadyMatchesGatewayHolds, <1>1, PTL

\* A start that turns JetStream on has its status path and the verifier.
THEOREM AcceptedIsQueryableHolds == MCSpec => []AcceptedIsQueryable
  <1>1. M!AcceptedIsQueryable => AcceptedIsQueryable
    BY DEF M!AcceptedIsQueryable, AcceptedIsQueryable, S!AcceptedIsQueryable
  <1>2. QED
    BY StartIsStartup, SameStart, M!AcceptedIsQueryableHolds, <1>1, PTL
===============================================================================
