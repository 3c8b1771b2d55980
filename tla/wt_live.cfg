CONSTANTS
    Host = {h1, h2}
    Playbook = {p1, p2}
    Batch = {b1, b2, b3}
    Worker = {w1, w2}
    MaxSequences = 1
    MaxSteps = 2
    MaxCancels = 0
    MaxChildCancels = 0
    MaxFaults = 0
    MaxRedeliveries = 0
    Reported = {"failed", "none"}
SPECIFICATION FairSpec
CHECK_DEADLOCK FALSE
PROPERTY EveryHostSettles PendingAdvances
