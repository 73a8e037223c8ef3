\* Three requests, fewer permits, fewer connections still; the database may stop
\* answering at any point.
CONSTANTS
    Requests = {r1, r2, r3}
    MaxInFlight = 2
    PoolSize = 1
    Direct = direct
    Http = http
    Tcp = tcp
    JetStream = jetstream
SPECIFICATION WebFairSpec
INVARIANTS PermitConservation DatabaseNeverHoldsAllPermits
PROPERTIES StalledDatabaseLeavesPermits ReadsReturnIfTheDatabaseAnswers
