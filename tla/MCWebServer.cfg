\* Two requests for two permits and one connection; outages and the signal at
\* any moment.
CONSTANTS
    Requests = {r1, r2}
    MaxInFlight = 2
    PoolSize = 1
    Deployments <- MCDeployments
SPECIFICATION FairSpec
INVARIANTS FailsClosed
PROPERTIES StartupSpec ArrivedIsAnswered ShutdownWaitsForTheDatabaseOnly
