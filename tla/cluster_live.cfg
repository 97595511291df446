SPECIFICATION FairSpec
CONSTANTS
    t1 = t1  t2 = t2  u1 = u1  u2 = u2  w1 = w1  w2 = w2  none = none  c1 = c1  c2 = c2
    Tasks = {t1}
    Workers = {w1, w2}
    NoWorker = none
    Shards = {1, 2}
    Shard <- LastShard
    Score <- Scores
    Urls = {u1}
    Url <- UrlOf
    MaxRetries = 1
    Window = 1
    MaxLease = 2
    Capacity = 1
    Events = {"stop", "crash", "undelivered"}
    Clients = {c1}
    Batches <- Singles
    Placements = {none, w1}
    Operations = {}
PROPERTIES EventuallyFinished StopTerminates
