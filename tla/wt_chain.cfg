CONSTANTS
    Host = {h1, h2}
    Playbook = {p1, p2, p3}
    Batch = {b1, b2, b3}
    Worker = {w1, w2}
    MaxSequences = 1
    MaxSteps = 3
    MaxCancels = 0
    MaxChildCancels = 0
    MaxFaults = 0
    MaxRedeliveries = 0
    Reported = {"success", "failed", "none"}
SPECIFICATION Spec
CHECK_DEADLOCK FALSE
SYMMETRY Symmetry
INVARIANT TypeOK ChainOrder OneAtATime ReadyIsScheduled OpenIsCovered SummaryAgrees
