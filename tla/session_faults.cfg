CONSTANTS
    MaxGen = 1
    MaxQueue = 2
    MaxOps = 2
    Crashes = TRUE
SPECIFICATION SessionFairSpec
INVARIANTS SessionAccounted
PROPERTIES SchedulerActsInBusy SessionSettles
CHECK_DEADLOCK FALSE
