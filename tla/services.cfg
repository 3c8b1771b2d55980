CONSTANT Parts = {"backup", "mirror", "walls", "users", "plays", "printers", "rollouts"}
SPECIFICATION MCSpec
CHECK_DEADLOCK FALSE
INVARIANT ServicesTypeOK CopiesAreWhole ScheduleHolds AddersHoldKey
PROPERTY CopiesArrive PlansAreCarriedOut KeepsAnAdmin DirectoryIsFollowed PrintersRecover StatusSettles
