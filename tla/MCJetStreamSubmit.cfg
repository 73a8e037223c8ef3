\* One process, restarted up to three times, and two submissions; fairness of the
\* web process only.
CONSTANTS
    Requests = {r1, r2}
    Processes = {p1}
    MaxClock = 3
    None = None
SPECIFICATION FairSpec
INVARIANTS OperationIdsDistinct AcceptedIsStored
PROPERTIES EverySubmissionReturns CorrelatedCallSpec
