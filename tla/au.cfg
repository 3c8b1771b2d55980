CONSTANTS
    Host = {"h1", "h2"}
    Followed = "h1"
    MaxVersion = 3
    Broken = {3}
    SelfUpdateSince = 1
    Syncer = {"s1"}
    Parallelism = 2
    MaxTasks = 2
    MaxCrashes = 1
    MaxReturns = 0
SPECIFICATION MCSpec
CHECK_DEADLOCK FALSE
INVARIANT TypeOK CanaryProtects
PROPERTY UpdatesAdvance SidecarIsInstaller TargetsAreReached
