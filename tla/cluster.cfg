SPECIFICATION Spec
CONSTANTS
    t1 = t1  t2 = t2  u1 = u1  u2 = u2  w1 = w1  w2 = w2  none = none  c1 = c1  c2 = c2
    Tasks = {t1}
    Workers = {w1, w2}
    NoWorker = none
    Shards = {1}
    Shard <- OneShard
    Score <- Scores
    Urls = {u1}
    Url <- UrlOf
    MaxRetries = 1
    Window = 1
    MaxLease = 3
    Capacity = 1
    Events = {"crash", "lost", "undelivered", "ttl"}
    Clients = {c1}
    Batches <- Singles
    Placements = {none}
    Operations = {"cancel", "retry"}
SYMMETRY WorkerSymmetry
INVARIANTS NoLostTask RetryBudget
PROPERTIES CompletedFinal LiveLeaseFenced CancelSticks
CHECK_DEADLOCK FALSE
