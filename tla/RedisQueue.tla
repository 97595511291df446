----------------------------- MODULE RedisQueue -----------------------------
(***************************************************************************)
(* The Redis-backed task queue of one tenant (src/distributed/             *)
(* redis-adapter.ts).  Every operation of the adapter is one Lua script,   *)
(* so it is atomic; this module gives, for each script, the condition      *)
(* under which it returns 1 (...Accepts) and its writes (...Writes).  The  *)
(* processes that call the scripts are in WorkerDaemon and MasterScheduler.*)
(*                                                                         *)
(* Data abstraction.  A lease deadline is always the caller's now plus one *)
(* fixed duration and is only ever compared with now, so a member of the   *)
(* `processing' sorted set is either "live" or "expired", and time passing *)
(* turns the first into the second (LeaseElapses).  A lease id (randomUUID)*)
(* is a fresh positive number, 0 is `undefined'.  The score of a pending   *)
(* task (priority, then creation time) never changes, so it is a constant. *)
(***************************************************************************)
EXTENDS Naturals, FiniteSets

CONSTANTS Tasks,        \* task ids
          Workers,      \* worker ids (WORKER_ID)
          NoWorker,     \* `workerId' or `targetWorkerId' is undefined
          Shards,       \* queue partitions of the tenant
          Shard,        \* taskShard: the partition of a task id
          Score,        \* PRIORITY_SCORES[priority] * 10^12 + createdAt
          Urls, Url,    \* the URL of each task
          MaxRetries,   \* `maxRetries' of a task
          Window,       \* the `zrange 0 99' window of a dequeue
          MaxLease      \* bound: number of leases a behaviour may hand out

ASSUME QueueAssumption ==
    /\ NoWorker \notin Workers
    /\ Shard \in [Tasks -> Shards]
    /\ Score \in [Tasks -> Nat]
    /\ Url \in [Tasks -> Urls]
    /\ MaxRetries \in Nat
    /\ Window \in Nat \ {0}
    /\ MaxLease \in Nat

VARIABLES tasks,        \* the task:<id> keys
          pending,      \* the queue:pending sorted set
          processing,   \* the queue:processing sorted set
          seen,         \* the seen_urls sorted set
          nextLease     \* the next fresh lease id

queueVars == <<tasks, pending, processing, seen, nextLease>>

Queued   == {"PENDING", "RETRYING"}
Terminal == {"COMPLETED", "FAILED", "CANCELLED"}
States   == Queued \cup Terminal \cup {"RUNNING"}

Lease == 0 .. MaxLease
MaybeWorker == Workers \cup {NoWorker}

Record == [state : States \cup {"ABSENT"}, retries : Nat,
           worker : MaybeWorker, lease : Lease, target : MaybeWorker]

NoTask == [state |-> "ABSENT", retries |-> 0, worker |-> NoWorker,
           lease |-> 0, target |-> NoWorker]

QueueTypeOK ==
    /\ tasks \in [Tasks -> Record]
    /\ pending \in SUBSET Tasks
    /\ processing \in [Tasks -> {"absent", "live", "expired"}]
    /\ seen \in [Urls -> {"absent", "claimed", "marked"}]
    /\ nextLease \in 1 .. MaxLease + 1

QueueInit ==
    /\ tasks = [t \in Tasks |-> NoTask]
    /\ pending = {}
    /\ processing = [t \in Tasks |-> "absent"]
    /\ seen = [u \in Urls |-> "absent"]
    /\ nextLease = 1

-----------------------------------------------------------------------------
(* dequeueTask: reclaim the expired leases of the shard, then hand the     *)
(* first eligible candidate to the calling worker.                         *)

Expired(s) == {t \in Tasks : Shard[t] = s /\ processing[t] = "expired"}

\* Mutant: the reclaim loop grants one retry too many.
ReclaimOffByOne(r) ==
    CASE r.state = "RUNNING" ->
            [r EXCEPT !.state = IF r.retries <= MaxRetries THEN "PENDING"
                                                          ELSE "FAILED",
                      !.retries = r.retries + 1,
                      !.worker = NoWorker, !.lease = 0]
      [] r.state \in Queued -> [r EXCEPT !.worker = NoWorker, !.lease = 0]
      [] OTHER -> r

\* What the reclaim loop makes of a record whose lease has run out.
Reclaim(r) ==
    CASE r.state = "RUNNING" ->
            [r EXCEPT !.state = IF r.retries + 1 <= MaxRetries THEN "PENDING"
                                                              ELSE "FAILED",
                      !.retries = r.retries + 1,
                      !.worker = NoWorker, !.lease = 0]
      [] r.state \in Queued -> [r EXCEPT !.worker = NoWorker, !.lease = 0]
      [] OTHER -> r

Reclaimed(s) ==
    [t \in Tasks |-> IF t \in Expired(s) THEN Reclaim(tasks[t]) ELSE tasks[t]]

\* Mutant: the reclaim loop forgets the tasks that waited for their retry.
RequeuedRunningOnly(s) ==
    pending \cup {t \in Expired(s) : /\ tasks[t].state = "RUNNING"
                                     /\ Reclaimed(s)[t].state \in Queued}

\* Members of the pending set after the reclaim loop.
Requeued(s) ==
    pending \cup {t \in Expired(s) : Reclaimed(s)[t].state \in Queued}

\* The first Window members of the shard's pending set, by score.
Candidates(s) ==
    LET queue == {t \in Requeued(s) : Shard[t] = s}
    IN  {t \in queue : Cardinality({u \in queue : Score[u] < Score[t]}) < Window}

Claimable(r, w) == r.state \in Queued /\ r.target \in {NoWorker, w}

\* The candidate the scan stops at, as a set: empty when there is none.
Selected(w, s) ==
    {t \in Candidates(s) :
        /\ Claimable(Reclaimed(s)[t], w)
        /\ \A u \in Candidates(s) :
              Claimable(Reclaimed(s)[u], w) => Score[t] <= Score[u]}

\* Members the scan meets first that are no longer queued: it drops them.
Purged(w, s) ==
    {t \in Candidates(s) :
        /\ Reclaimed(s)[t].state \notin Queued
        /\ \A u \in Selected(w, s) : Score[t] < Score[u]}

DequeueWrites(w, s, claimed) ==
    /\ tasks' = [t \in Tasks |->
                    IF t \in claimed
                    THEN [Reclaimed(s)[t] EXCEPT !.state = "RUNNING",
                             !.worker = w, !.lease = nextLease]
                    ELSE Reclaimed(s)[t]]
    /\ pending' = (Requeued(s) \ Purged(w, s)) \ claimed
    /\ processing' = [t \in Tasks |->
                         IF t \in claimed THEN "live"
                         ELSE IF t \in Expired(s) \cup Purged(w, s) THEN "absent"
                         ELSE processing[t]]
    /\ UNCHANGED seen

-----------------------------------------------------------------------------
(* updateTask: the fenced ACK / status write.                              *)

\* Mutant: the lease id is compared, its deadline is not.
UpdateAcceptsLate(t, r) ==
    IF r.lease # 0
    THEN /\ tasks[t].state # "ABSENT"
         /\ tasks[t].lease = r.lease
         /\ tasks[t].worker = r.worker
    ELSE tasks[t].lease = 0

\* Mutant: the worker id is compared, the lease id is not.
UpdateAcceptsByWorker(t, r) ==
    IF r.lease # 0
    THEN /\ tasks[t].state # "ABSENT"
         /\ tasks[t].worker = r.worker
         /\ processing[t] = "live"
    ELSE tasks[t].lease = 0

UpdateAccepts(t, r) ==
    IF r.lease # 0
    THEN /\ tasks[t].state # "ABSENT"
         /\ tasks[t].lease = r.lease
         /\ tasks[t].worker = r.worker
         /\ processing[t] = "live"
    ELSE tasks[t].lease = 0

UpdateWrites(t, r) ==
    /\ tasks' = [tasks EXCEPT ![t] = r]
    /\ processing' = [processing EXCEPT ![t] =
                         IF r.state = "RUNNING" \/ (r.state \in Queued /\ r.lease # 0)
                         THEN "live" ELSE "absent"]
    /\ pending' = IF r.state \in Terminal THEN pending \ {t} ELSE pending
    /\ UNCHANGED <<seen, nextLease>>

-----------------------------------------------------------------------------
(* enqueueTask: enqueueOwnedTask for a record that carries a lease id,     *)
(* enqueueUnownedBatch for one that does not.                              *)

\* Mutant: the state of the stored record is not looked at.
EnqueueOwnedAnyState(t, r) ==
    /\ tasks[t].worker = r.worker
    /\ tasks[t].lease = r.lease
    /\ processing[t] # "expired"
    /\ r.state \in Queued

EnqueueOwnedAccepts(t, r) ==
    /\ tasks[t].worker = r.worker
    /\ tasks[t].lease = r.lease
    /\ tasks[t].state \in Queued \cup {"RUNNING"}
    /\ processing[t] # "expired"
    /\ r.state \in Queued

EnqueueUnownedAccepts(t) == tasks[t].lease = 0

EnqueueAccepts(t, r) ==
    IF r.lease # 0 THEN EnqueueOwnedAccepts(t, r) ELSE EnqueueUnownedAccepts(t)

\* Mutant: the id stays in the processing set.
EnqueueWritesKeepLease(recs) ==
    /\ tasks' = [t \in Tasks |-> IF t \in DOMAIN recs THEN recs[t] ELSE tasks[t]]
    /\ pending' = pending \cup DOMAIN recs
    /\ UNCHANGED <<processing, seen, nextLease>>

\* Both scripts write the record, add the id to the pending set and drop it
\* from the processing set; recs gives the records of the batch by task id.
EnqueueWrites(recs) ==
    /\ tasks' = [t \in Tasks |-> IF t \in DOMAIN recs THEN recs[t] ELSE tasks[t]]
    /\ pending' = pending \cup DOMAIN recs
    /\ processing' = [t \in Tasks |-> IF t \in DOMAIN recs THEN "absent"
                                                           ELSE processing[t]]
    /\ UNCHANGED <<seen, nextLease>>

-----------------------------------------------------------------------------
(* renewTaskLease: extend the lease of the RUNNING record it still owns.   *)

RenewAccepts(t, w, l) ==
    /\ tasks[t].state = "RUNNING"
    /\ tasks[t].worker = w
    /\ tasks[t].lease = l

RenewWrites(t) ==
    /\ processing' = [processing EXCEPT ![t] = "live"]
    /\ UNCHANGED <<tasks, pending, seen, nextLease>>

-----------------------------------------------------------------------------
(* claimUrls, releaseUrls, markUrlSeen: the tenant's URL de-duplication.   *)

\* Mutant: a claim does not look at the claims of others.
ClaimAlways(urls) == TRUE

ClaimAccepts(urls) == \A u \in urls : seen[u] = "absent"

SeenWrites(urls, mark) ==
    /\ seen' = [u \in Urls |-> IF u \in urls THEN mark ELSE seen[u]]
    /\ UNCHANGED <<tasks, pending, processing, nextLease>>

-----------------------------------------------------------------------------
(* Time.                                                                   *)

\* The lease deadline of a task goes by without a renewal.
LeaseElapses(t) ==
    /\ processing[t] = "live"
    /\ processing' = [processing EXCEPT ![t] = "expired"]
    /\ UNCHANGED <<tasks, pending, seen, nextLease>>

\* taskTtlSeconds after its last write Redis drops a terminal record.
RecordElapses(t) ==
    /\ tasks[t].state \in Terminal
    /\ tasks' = [tasks EXCEPT ![t] = NoTask]
    /\ UNCHANGED <<pending, processing, seen, nextLease>>

\* The thirty days of a URL claim or marker are over.
UrlElapses(u) ==
    /\ seen[u] # "absent"
    /\ seen' = [seen EXCEPT ![u] = "absent"]
    /\ UNCHANGED <<tasks, pending, processing, nextLease>>
=============================================================================
