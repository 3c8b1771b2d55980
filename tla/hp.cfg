CONSTANTS
    Host = {"h1"}
    Agents = {"h1"}
    AgentManaged = {"h1"}
    Pinger = {p1}
    MaxMail = 1
    MaxSwitches = 1
    MaxDiagnoses = 1
    MaxDeletes = 0
SPECIFICATION MCSpec
CHECK_DEADLOCK FALSE
INVARIANT HeartbeatsTypeOK LogIsTrue
PROPERTY StatusFollows ReportsSettle NewsIsTrue
