\* Recipes that fail or are interrupted anywhere, while values change; two lines,
\* every container, a variable with a name of its own and two of the script's.
CONSTANTS
    Names = {"A", "key", "secrets"}
    MaxVersion = 3
    MaxLines = 2
SPECIFICATION MCSpec
INVARIANTS ContainerWins AllOrNothing EditsSurvive
PROPERTY WholeCiphertextStays
