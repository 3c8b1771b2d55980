CONSTANTS
    Host = {h1}
    Playbook = {p1, p2}
    Batch = {b1, b2, b3}
    Worker = {w1}
    MaxSequences = 2
    MaxSteps = 2
    MaxCancels = 1
    MaxChildCancels = 1
    MaxFaults = 1
    MaxRedeliveries = 0
    Reported = {"success"}
SPECIFICATION Spec
CHECK_DEADLOCK FALSE
SYMMETRY Symmetry
INVARIANT OneExecutionPerHost TakenIsNotHeld HeldOnceAndFound
