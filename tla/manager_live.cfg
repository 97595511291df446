SPECIFICATION ManagerFairSpec
CONSTANTS
    s1 = s1  s2 = s2  p1 = p1  h1 = h1  h2 = h2  none = none
    Sessions = {s1}
    NoSession = none
    Profiles = {p1}
    Profile <- OneProfile
    Events = {"late", "fault", "crash"}
    Hosts = {h1}
    Host <- OneHost
    MaxSessions = 1
    MaxVersion = 1
PROPERTIES SessionsEnd
CHECK_DEADLOCK FALSE
