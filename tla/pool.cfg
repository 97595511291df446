SPECIFICATION PlaneSpec
CONSTANTS
    b1 = b1  b2 = b2  noid = noid  h1 = h1  c1 = c1  c2 = c2  r1 = r1
    Ids = {b1}  NoId = noid  BoundHosts = {h1}  Callers = {c1, c2}
    Sockets = {1, 2}  Links = {1, 2}  NoSocket = 0  NoLink = 0
    Requests = {r1}
    MaxSession = 2  MaxConnects = 1  MaxAlarms = 0  MaxSaves = 1  MaxPlaneEvents = 2
    Named = b1  AddModes = {"managed", "bridge"}
    Operations = {"add", "start", "stop", "remove", "configure", "restart"}
INVARIANTS BindingsResolve ConnectionsAgree
CHECK_DEADLOCK FALSE
