\* Every header, grant and route; a limit of four bytes and bodies of up to six;
\* three submissions of the form.
CONSTANTS
    Limit = 4
    MaxBody = 6
    None = None
    MaxSubmissions = 3
    Hidden = Hidden
SPECIFICATION MCSpec
INVARIANTS
    BodyBounded OkIsWholeDocument GoodDocumentIsNotRefused
    SentOnItsWord DocumentsAreVouchedFor
    SoloVerdict EveryVerdictIsShown
PROPERTY SentIsAnswered
