SPECIFICATION Spec
CONSTANTS
    t1 = t1  t2 = t2  u1 = u1  u2 = u2  w1 = w1  w2 = w2  none = none  c1 = c1  c2 = c2
    Tasks = {t1, t2}
    Workers = {w1}
    NoWorker = none
    Shards = {1}
    Shard <- OneShard
    Score <- Scores
    Urls = {u1, u2}
    Url <- UrlOf
    MaxRetries = 1
    Window = 2
    MaxLease = 2
    Capacity = 2
    Events = {"stop", "crash", "undelivered"}
    Clients = {c1, c2}
    Batches <- AllBatches
    Placements = {none}
    Operations = {"cancel"}
INVARIANTS UrlHeld
CHECK_DEADLOCK FALSE
