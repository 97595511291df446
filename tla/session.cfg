CONSTANTS
    MaxGen = 2
    MaxQueue = 2
    MaxOps = 4
    Crashes = FALSE
SPECIFICATION SessionSpec
PROPERTIES OnlyAgentActs PauseNeedsHuman
CHECK_DEADLOCK FALSE
