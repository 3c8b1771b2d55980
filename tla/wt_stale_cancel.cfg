CONSTANTS
    Host = {h1, h2}
    Playbook = {p1}
    Batch = {b1, b2}
    Worker = {w1}
    MaxSequences = 1
    MaxSteps = 1
    MaxCancels = 1
    MaxChildCancels = 0
    MaxFaults = 0
    MaxRedeliveries = 0
    Reported = {"success"}
SPECIFICATION Spec
CHECK_DEADLOCK FALSE
PROPERTY SettledStays
