\* The database may stop answering at any point.
CONSTANTS
    Requests = {r1, r2}
    MaxInFlight = 2
    PoolSize = 1
    Direct = direct
    Http = http
    Tcp = tcp
    JetStream = jetstream
SPECIFICATION WebFairSpec
PROPERTY EveryReadReturns
