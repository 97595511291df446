SPECIFICATION ManagerSpec
CONSTANTS
    s1 = s1  s2 = s2  p1 = p1  h1 = h1  h2 = h2  none = none
    Sessions = {s1, s2}
    NoSession = none
    Profiles = {p1}
    Profile <- OneProfile
    Events = {"crash"}
    Hosts = {h1, h2}
    Host <- TwoHosts
    MaxSessions = 1
    MaxVersion = 0
INVARIANTS ProfileExclusive
PROPERTIES LoginNotRolledBack
CHECK_DEADLOCK FALSE
