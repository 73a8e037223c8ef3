\* Two typed names and the parser's own, in every layer that can have them; every
\* environment of main with at most one value main would refuse (a second one
\* changes nothing: the checks are a conjunction), and outages at every step.
CONSTANTS
    True = true
    yes = yes
    false = false
    bad = bad
    blank = blank
    Help = help
    Version = version
    Command = command
    Names = {help, version, command}
    Contract = {help, version}
    Values = {true, yes, false, bad, blank}
    Malformed = {bad}
    Blank = {blank}
    MaxBad = 1
    Canonical <- MCCanonical
    Defaults <- MCDefaults
SPECIFICATION MCSpec
INVARIANTS Precedence RunsOnlyWhatWasAsked ReadyMatchesGateway AcceptedIsQueryable
PROPERTY StartWaitsForTheDatabaseOnly
