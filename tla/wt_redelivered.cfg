CONSTANTS
    Host = {h1, h2}
    Playbook = {p1, p2}
    Batch = {b1, b2, b3}
    Worker = {w1, w2}
    MaxSequences = 1
    MaxSteps = 2
    MaxCancels = 0
    MaxChildCancels = 0
    MaxFaults = 1
    MaxRedeliveries = 1
    Reported = {"success", "none"}
SPECIFICATION Spec
CHECK_DEADLOCK FALSE
SYMMETRY Symmetry
INVARIANT ClaimedOnce
PROPERTY KeepsPromise SettledStays
