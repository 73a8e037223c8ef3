\* Three requests for two permits with an API that answers at most, two with an
\* API that may do anything, one stray frame included; timers of one tick each.
CONSTANTS
    Requests = {r1, r2, r3}
    Few = {r1, r2}
    None = None
    MaxStrays = 1
    Timeout = 1
    MaxInFlight = 2
    PoolSize = 1
    Direct = direct
    Http = http
    Tcp = tcp
    JetStream = jetstream
SPECIFICATION MCSpec
INVARIANTS SentWithinBound SentWithinPermits
PROPERTIES EveryRequestReturns PermitsComeBack
