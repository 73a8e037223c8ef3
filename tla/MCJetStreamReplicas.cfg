\* Two replicas, each with a counter of its own.
CONSTANTS
    Requests = {r1, r2}
    Processes = {p1, p2}
    MaxClock = 1
    None = None
SPECIFICATION Spec
INVARIANT AcceptedIsStored
