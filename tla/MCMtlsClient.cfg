\* Three requests share the connection; the API sends two stray frames.
CONSTANTS
    Requests = {r1, r2, r3}
    None = None
    MaxStrays = 2
SPECIFICATION Spec
SYMMETRY Symmetry
INVARIANTS OwnProjection PooledLag SingleConnection
PROPERTY CorrelatedCallSpec
