SPECIFICATION LiveSpec
CONSTANTS
    f1 = f1  f2 = f2  x1 = x1  a1 = a1  none = none
    b1 = b1  noid = noid  c1 = c1  r1 = r1
    MaxGen = 3
    Flows = {f1, f2}  Others = {x1}  None = none
    NumSteps = 2  ActionOf <- Actions  InputOf <- Inputs  WritesOf <- Writing  StopOn <- Triggers  Expects <- Expected
    MaxQueue = 2  MaxRevision = 1  MaxEvents = 1
    Ids = {b1}  NoId = noid  BoundHosts = {}  Callers = {c1}
    Sockets = {1, 2, 3}  Links = {1, 2, 3}  NoSocket = 0  NoLink = 0
    Requests = {r1}
    MaxSession = 1  MaxConnects = 2  MaxAlarms = 1  MaxSaves = 0  MaxPlaneEvents = 1
    Named = b1  AddModes = {"bridge"}
    Operations = {"stop", "add", "restart"}
INVARIANTS WorkflowAccounted
PROPERTIES EverythingEnds OwnershipKept WorkflowSafe
CHECK_DEADLOCK FALSE
