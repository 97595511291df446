----------------------------- MODULE AccountProofs -----------------------------
(***************************************************************************)
(* Theorems about what src/account, src/distributed, src/operations,       *)
(* src/proxy, src/profile and src/security keep for an account.            *)
(*   - its placement, for any number of workers, schedulers, namespaces    *)
(*     and failovers;                                                      *)
(*   - its tasks in the queue of a single machine, which no lease protects *)
(*     from a late enqueue, cancellation or retry;                         *)
(*   - its health record, whose mutations take turns;                      *)
(*   - its proxy, whose checks, updates and deletions overlap;             *)
(*   - its profile, which has one identity from its first start on;        *)
(*   - the backup of its profile, for any number of files, restores and    *)
(*     crashes;                                                            *)
(*   - the admission of its executions, for any tenants and any limits.    *)
(***************************************************************************)
EXTENDS AccountPlacement, MemoryQueue, AccountHealth, ProxyPool, ProfileStore, ProfileBackup,
        AccountAdmission, FiniteSetTheorems, WellFoundedInduction, TLAPS

(* Placements.                                                             *)

Record == [worker : Nodes \cup {"none"}, ns : Namespaces \cup {"none"}, generation : Nat, version : Nat]
Worker == [alive : BOOLEAN, free : BOOLEAN, ns : Namespaces]
WorkerLists == {<< >>} \cup UNION {[S -> Worker] : S \in SUBSET Nodes}
Resolve == [phase : {"idle", "read", "select"}, retried : BOOLEAN, read : Record, workers : WorkerLists]
Answer == [worker : Nodes, generation : Nat]

PlacementTypeOK ==
    /\ placement \in Record
    /\ beats \in [Nodes -> Worker]
    /\ resolve \in [Schedulers -> Resolve]
    /\ answers \in SUBSET Answer

\* Generation and version advance together; a record that was read is the
\* current one or has an earlier version, so an unchanged version means an
\* unchanged record.
ReadInv ==
    /\ placement.generation = placement.version
    /\ placement.version = 0 => placement = NoPlacement
    /\ \A s \in Schedulers :
          /\ resolve[s].read.generation = resolve[s].read.version
          /\ resolve[s].read.version <= placement.version
          /\ resolve[s].read.version = placement.version => resolve[s].read = placement

\* Whoever says which worker a generation stands for, an answer, a record that
\* was read, or the store, says the same, and no one is ahead of the store.
ClaimOf(r) == [worker |-> r.worker, generation |-> r.generation]
Claims == answers \cup {ClaimOf(placement)} \cup {ClaimOf(resolve[s].read) : s \in Schedulers}
                  \cup {ClaimOf(NoPlacement)}
ClaimInv ==
    /\ \A a \in Claims : a.generation <= placement.generation
    /\ \A a, b \in Claims : a.generation = b.generation => a.worker = b.worker

PlacementInv == PlacementTypeOK /\ ReadInv /\ ClaimInv

-------------------------------------------------------------------------------
\* The store is empty when the schedulers start.
LEMMA PlacementInitial == PlacementInit => PlacementInv
  <1> SUFFICES ASSUME PlacementInit PROVE PlacementInv
    OBVIOUS
  <1>1. PlacementTypeOK
    <2>1. IdleResolve \in Resolve /\ NoPlacement \in Record
      BY DEF IdleResolve, NoPlacement, Resolve, Record, WorkerLists
    <2>2. [alive : {TRUE}, free : {TRUE}, ns : Namespaces] \subseteq Worker
      BY DEF Worker
    <2> QED BY <2>1, <2>2 DEF PlacementInit, PlacementTypeOK
  <1>2. ReadInv
    BY DEF PlacementInit, ReadInv, NoPlacement, IdleResolve
  <1>3. ClaimInv
    BY DEF PlacementInit, ClaimInv, Claims, ClaimOf, NoPlacement, IdleResolve
  <1> QED BY <1>1, <1>2, <1>3 DEF PlacementInv

\* Each call of a scheduler keeps every variable in its type.
LEMMA PlacementTyped ==
  ASSUME PlacementTypeOK, [PlacementNext]_placementVars PROVE PlacementTypeOK'
  <1>0. IdleResolve \in Resolve /\ NoPlacement \in Record
    BY DEF IdleResolve, NoPlacement, Resolve, Record, WorkerLists
  <1>1. ASSUME NEW n \in Nodes, Beat(n) PROVE PlacementTypeOK'
    <2>1. beats' \in [Nodes -> Worker]
      <3>1. CASE beats' = [beats EXCEPT ![n].alive = FALSE]
        BY <3>1 DEF PlacementTypeOK, Worker
      <3>2. CASE \E free \in BOOLEAN, ns \in Namespaces :
                    beats' = [beats EXCEPT ![n] = [alive |-> TRUE, free |-> free, ns |-> ns]]
        BY <3>2 DEF PlacementTypeOK, Worker
      <3> QED BY <1>1, <3>1, <3>2 DEF Beat
    <2> QED BY <1>1, <2>1 DEF Beat, PlacementTypeOK
  <1>2. ASSUME NEW n \in Nodes, NEW task \in answers, BeginAccountTask(n, task) PROVE PlacementTypeOK'
    BY <1>2 DEF BeginAccountTask, PlacementTypeOK
  <1>3. ASSUME NEW s \in Schedulers, SyncWorkers(s) PROVE PlacementTypeOK'
    <2> DEFINE S == {m \in Nodes : beats[m].alive}
               listed == [n \in S |-> beats[n]]
    <2>1. listed \in [S -> Worker]
      BY DEF PlacementTypeOK
    <2>2. listed \in WorkerLists
      BY <2>1 DEF WorkerLists
    <2> HIDE DEF listed
    <2>3. [phase |-> "read", retried |-> FALSE, read |-> NoPlacement, workers |-> listed] \in Resolve
      BY <1>0, <2>2 DEF Resolve
    <2>4. resolve' = [resolve EXCEPT ![s] =
             [phase |-> "read", retried |-> FALSE, read |-> NoPlacement, workers |-> listed]]
      BY <1>3 DEF SyncWorkers, listed
    <2> QED BY <1>3, <2>3, <2>4 DEF SyncWorkers, PlacementTypeOK
  <1>4. ASSUME NEW s \in Schedulers, ReadPlacement(s) PROVE PlacementTypeOK'
    BY <1>4 DEF ReadPlacement, PlacementTypeOK, Resolve
  <1>5. ASSUME NEW s \in Schedulers, RefusePlacement(s) PROVE PlacementTypeOK'
    BY <1>5, <1>0 DEF RefusePlacement, PlacementTypeOK
  <1>6. ASSUME NEW s \in Schedulers, Conflict(s) PROVE PlacementTypeOK'
    <2>1. [resolve[s] EXCEPT !.phase = "read", !.retried = TRUE] \in Resolve
      BY DEF PlacementTypeOK, Resolve
    <2> QED BY <1>6, <1>0, <2>1 DEF Conflict, PlacementTypeOK
  <1>7. ASSUME NEW s \in Schedulers, KeepPlacement(s) PROVE PlacementTypeOK'
    <2>1. resolve[s].read.worker \in Nodes /\ resolve[s].read.generation \in Nat
      <3>1. resolve[s].read.worker \in DOMAIN resolve[s].workers /\ resolve[s].read \in Record
        BY <1>7 DEF KeepPlacement, CurrentWorkerAlive, PlacementTypeOK, Resolve
      <3>2. \A w \in WorkerLists : DOMAIN w \subseteq Nodes
        BY DEF WorkerLists
      <3> QED BY <3>1, <3>2 DEF PlacementTypeOK, Resolve, Record
    <2> QED BY <1>7, <1>0, <2>1 DEF KeepPlacement, Return, PlacementTypeOK, Answer
  <1>8. ASSUME NEW s \in Schedulers, Place(s) PROVE PlacementTypeOK'
    <2> DEFINE r == resolve[s].read
               NsFor(n) == IF r.version = 0 THEN resolve[s].workers[n].ns ELSE r.ns
    <2>1. PICK n \in CandidateWorkers(s) : /\ CompareAndSet(r.version, n, NsFor(n), r.generation + 1)
                                          /\ Return(s, n, r.generation + 1)
      BY <1>8 DEF Place
    <2>2. n \in Nodes /\ resolve[s].workers[n].ns \in Namespaces
      <3>1. \A w \in WorkerLists : \A m \in DOMAIN w : m \in Nodes /\ w[m] \in Worker
        BY DEF WorkerLists
      <3> QED BY <3>1 DEF CandidateWorkers, PlacementTypeOK, Resolve, Worker
    <2>3. r \in Record
      BY DEF PlacementTypeOK, Resolve
    <2> HIDE DEF r
    <2>4. placement' \in Record
      BY <2>1, <2>2, <2>3 DEF CompareAndSet, Record
    <2> QED BY <1>8, <1>0, <2>1, <2>2, <2>3, <2>4 DEF Place, Return, PlacementTypeOK, Answer, Record
  <1>9. ASSUME UNCHANGED placementVars PROVE PlacementTypeOK'
    BY <1>9 DEF placementVars, PlacementTypeOK
  <1> QED BY <1>1, <1>2, <1>3, <1>4, <1>5, <1>6, <1>7, <1>8, <1>9 DEF PlacementNext

\* Claims never appear from nowhere: as long as the store keeps its record, every
\* call only passes on what it read.
LEMMA ClaimsPassedOn ==
  ASSUME PlacementInv, placement' = placement,
         \A s \in Schedulers : resolve'[s].read \in {resolve[s].read, NoPlacement, placement},
         \A a \in answers' : a \in answers \/ \E s \in Schedulers : a = ClaimOf(resolve[s].read)
  PROVE  ReadInv' /\ ClaimInv'
  <1>1. ReadInv'
    <2> SUFFICES ASSUME NEW s \in Schedulers
                 PROVE  /\ resolve'[s].read.generation = resolve'[s].read.version
                        /\ resolve'[s].read.version <= placement.version
                        /\ resolve'[s].read.version = placement.version => resolve'[s].read = placement
      BY DEF ReadInv, PlacementInv
    <2>1. CASE resolve'[s].read = resolve[s].read
      BY <2>1 DEF PlacementInv, ReadInv
    <2>2. CASE resolve'[s].read = NoPlacement
      BY <2>2 DEF PlacementInv, ReadInv, PlacementTypeOK, Record, NoPlacement
    <2>3. CASE resolve'[s].read = placement
      BY <2>3 DEF PlacementInv, ReadInv, PlacementTypeOK, Record
    <2> QED BY <2>1, <2>2, <2>3
  <1>2. Claims' \subseteq Claims
    BY DEF Claims, ClaimOf
  <1> QED BY <1>1, <1>2 DEF PlacementInv, ClaimInv

\* A placement or failover (Place) succeeds on the record that was read, so its
\* generation is newer than every claim made before.
LEMMA PlaceIsNew ==
  ASSUME PlacementInv, NEW s \in Schedulers, Place(s) PROVE ReadInv' /\ ClaimInv'
  <1> DEFINE r == resolve[s].read
             NsFor(n) == IF r.version = 0 THEN resolve[s].workers[n].ns ELSE r.ns
  <1>1. PICK n \in CandidateWorkers(s) : /\ CompareAndSet(r.version, n, NsFor(n), r.generation + 1)
                                        /\ Return(s, n, r.generation + 1)
    BY DEF Place
  <1>2. /\ r = placement /\ placement.generation = placement.version /\ placement.version \in Nat
        /\ placement'.generation = placement.generation + 1 /\ placement'.version = placement.version + 1
        /\ placement'.worker = n
    BY <1>1 DEF CompareAndSet, PlacementInv, ReadInv, PlacementTypeOK, Record
  <1>3. \A t \in Schedulers : resolve'[t].read \in {resolve[t].read, NoPlacement}
    BY <1>1 DEF Return, IdleResolve, PlacementInv, PlacementTypeOK
  <1>4. ReadInv'
    <2>1. ASSUME NEW t \in Schedulers
          PROVE  /\ resolve'[t].read.generation = resolve'[t].read.version
                 /\ resolve'[t].read.version \in Nat
                 /\ resolve'[t].read.version <= placement.version
      <3>1. CASE resolve'[t].read = resolve[t].read
        BY <3>1 DEF PlacementInv, ReadInv, PlacementTypeOK, Resolve, Record
      <3>2. CASE resolve'[t].read = NoPlacement
        BY <3>2, <1>2 DEF NoPlacement
      <3> QED BY <1>3, <3>1, <3>2
    <2>2. placement'.version # 0 /\ placement'.generation = placement'.version
      BY <1>2
    <2> QED BY <1>2, <2>1, <2>2 DEF ReadInv
  <1> DEFINE new == [worker |-> n, generation |-> placement.generation + 1]
  <1>5. Claims' \subseteq Claims \cup {new}
    BY <1>1, <1>2, <1>3 DEF Claims, ClaimOf, Return
  <1>6. \A a \in Claims : a.generation \in Nat
    <2>1. \A a \in answers : a.generation \in Nat
      BY DEF PlacementInv, PlacementTypeOK, Answer
    <2>2. \A t \in Schedulers : resolve[t].read.generation \in Nat
      BY DEF PlacementInv, PlacementTypeOK, Resolve, Record
    <2> QED BY <1>2, <2>1, <2>2 DEF Claims, ClaimOf, NoPlacement
  <1>7. ClaimInv'
    BY <1>2, <1>5, <1>6 DEF PlacementInv, ClaimInv
  <1> QED BY <1>4, <1>7

\* Every step keeps the invariant.
LEMMA PlacementStep == PlacementInv /\ [PlacementNext]_placementVars => PlacementInv'
  <1> SUFFICES ASSUME PlacementInv, [PlacementNext]_placementVars PROVE PlacementInv'
    OBVIOUS
  <1>0. PlacementTypeOK'
    BY PlacementTyped DEF PlacementInv
  <1> SUFFICES ReadInv' /\ ClaimInv'
    BY <1>0 DEF PlacementInv
  <1>1. ASSUME NEW n \in Nodes, Beat(n) PROVE ReadInv' /\ ClaimInv'
    BY <1>1, ClaimsPassedOn DEF Beat
  <1>2. ASSUME NEW n \in Nodes, NEW task \in answers, BeginAccountTask(n, task) PROVE ReadInv' /\ ClaimInv'
    BY <1>2, ClaimsPassedOn DEF BeginAccountTask
  <1>3. ASSUME NEW s \in Schedulers, SyncWorkers(s) PROVE ReadInv' /\ ClaimInv'
    <2>1. \A t \in Schedulers : resolve'[t].read \in {resolve[t].read, NoPlacement, placement}
      BY <1>3 DEF SyncWorkers, PlacementInv, PlacementTypeOK
    <2> QED BY <1>3, <2>1, ClaimsPassedOn DEF SyncWorkers
  <1>4. ASSUME NEW s \in Schedulers, ReadPlacement(s) PROVE ReadInv' /\ ClaimInv'
    <2>1. \A t \in Schedulers : resolve'[t].read \in {resolve[t].read, NoPlacement, placement}
      BY <1>4 DEF ReadPlacement, PlacementInv, PlacementTypeOK, Resolve
    <2> QED BY <1>4, <2>1, ClaimsPassedOn DEF ReadPlacement
  <1>5. ASSUME NEW s \in Schedulers, RefusePlacement(s) PROVE ReadInv' /\ ClaimInv'
    <2>1. \A t \in Schedulers : resolve'[t].read \in {resolve[t].read, NoPlacement, placement}
      BY <1>5 DEF RefusePlacement, IdleResolve, PlacementInv, PlacementTypeOK
    <2> QED BY <1>5, <2>1, ClaimsPassedOn DEF RefusePlacement
  <1>6. ASSUME NEW s \in Schedulers, Conflict(s) PROVE ReadInv' /\ ClaimInv'
    <2>1. \A t \in Schedulers : resolve'[t].read \in {resolve[t].read, NoPlacement, placement}
      BY <1>6 DEF Conflict, IdleResolve, PlacementInv, PlacementTypeOK, Resolve
    <2> QED BY <1>6, <2>1, ClaimsPassedOn DEF Conflict
  <1>7. ASSUME NEW s \in Schedulers, KeepPlacement(s) PROVE ReadInv' /\ ClaimInv'
    <2>1. \A t \in Schedulers : resolve'[t].read \in {resolve[t].read, NoPlacement, placement}
      BY <1>7 DEF KeepPlacement, Return, IdleResolve, PlacementInv, PlacementTypeOK
    <2>2. \A a \in answers' : a \in answers \/ \E t \in Schedulers : a = ClaimOf(resolve[t].read)
      BY <1>7 DEF KeepPlacement, Return, ClaimOf
    <2> QED BY <1>7, <2>1, <2>2, ClaimsPassedOn DEF KeepPlacement
  <1>8. ASSUME NEW s \in Schedulers, Place(s) PROVE ReadInv' /\ ClaimInv'
    BY <1>8, PlaceIsNew
  <1>9. ASSUME UNCHANGED placementVars PROVE ReadInv' /\ ClaimInv'
    BY <1>9, ClaimsPassedOn DEF placementVars
  <1> QED BY <1>1, <1>2, <1>3, <1>4, <1>5, <1>6, <1>7, <1>8, <1>9 DEF PlacementNext

\* What resolvePlacement and the workers rely on, in every reachable state.
THEOREM PlacementInvariance == PlacementSpec => []PlacementInv
  BY PlacementInitial, PlacementStep, PTL DEF PlacementSpec

\* A step from a state of the invariant keeps the promise of PlacementHonoured:
\* only Place changes the record, and a task that passes the worker's check has
\* the generation of the record, which no answer is ahead of.
LEMMA StepHonours ==
  ASSUME PlacementInv, PlacementInv', [PlacementNext]_placementVars
  PROVE  [OneWorkerPerGeneration' /\ NamespaceKept /\ NoStaleStart]_placementVars
  <1>1. OneWorkerPerGeneration'
    BY DEF PlacementInv, ClaimInv, Claims, OneWorkerPerGeneration
  <1>2. NamespaceKept
    <2> SUFFICES ASSUME placement' # placement PROVE NamespaceKept
      BY DEF NamespaceKept
    <2>1. PICK s \in Schedulers : Place(s)
      BY DEF PlacementNext, placementVars, Beat, BeginAccountTask, SyncWorkers, ReadPlacement,
             KeepPlacement, RefusePlacement, Conflict
    <2> DEFINE r == resolve[s].read
               NsFor(n) == IF r.version = 0 THEN resolve[s].workers[n].ns ELSE r.ns
    <2>2. PICK n \in CandidateWorkers(s) : CompareAndSet(r.version, n, NsFor(n), r.generation + 1)
      BY <2>1 DEF Place
    <2>3. r = placement
      BY <2>2 DEF CompareAndSet, PlacementInv, ReadInv
    <2> QED BY <2>2, <2>3 DEF CompareAndSet, NamespaceKept, PlacementInv, PlacementTypeOK, Record
  <1>3. NoStaleStart
    <2> SUFFICES ASSUME NEW t \in started' \ started, NEW a \in answers PROVE a.generation <= t.generation
      BY DEF NoStaleStart
    <2>1. PICK n \in Nodes : BeginAccountTask(n, t)
      BY DEF PlacementNext, placementVars, Beat, BeginAccountTask, SyncWorkers, ReadPlacement,
             KeepPlacement, RefusePlacement, Conflict, Place
    <2>2. placement.generation = t.generation
      BY <2>1 DEF BeginAccountTask, CurrentPlacement
    <2> QED BY <2>2 DEF PlacementInv, ClaimInv, Claims
  <1> QED BY <1>1, <1>2, <1>3

\* For any number of schedulers, workers, namespaces and failovers: one worker per
\* generation, no failover out of the namespace, and no start of a stale task.
THEOREM PlacementsHonoured == PlacementSpec => PlacementHonoured
  BY PlacementInvariance, StepHonours, PTL DEF PlacementSpec, PlacementHonoured

-------------------------------------------------------------------------------
(* The in-process queue: one execution runs a task, and every task that    *)
(* may run is found in the queue or in the hands of somebody who will      *)
(* queue it again.                                                         *)

JobStates == {"ABSENT", "PENDING", "RUNNING", "RETRYING", "COMPLETED", "FAILED", "CANCELLED"}
JobRecord == [state : JobStates, lease : Nat, retries : Int, worker : Daemons \cup {"none"}]
Leases == 1 .. MaxJobLeases

QueueTyped ==
    /\ jobs \in [Jobs -> JobRecord]
    /\ \A e \in pendingJobs : e.job \in Jobs
    /\ work \in [Leases -> [job : Jobs \cup {"none"}, phase : {"none", "run", "delay"}, rec : JobRecord]]
    /\ lastLease \in Nat
    /\ operator \in [op : {"none", "cancel", "retry"}, job : Jobs \cup {"none"}, rec : JobRecord]

\* An execution holds the record it was leased; until it is over, or a later
\* lease replaces it, that is the record of the task.
ExecutionHolds(l) ==
    work[l].phase # "none" =>
       /\ l <= lastLease /\ work[l].job \in Jobs
       /\ work[l].rec.lease = l /\ jobs[work[l].job].lease # 0
       /\ jobs[work[l].job].lease = l => jobs[work[l].job].worker = work[l].rec.worker
       /\ work[l].phase = "run" => jobs[work[l].job] = work[l].rec /\ work[l].rec.state = "RUNNING"

\* What an operator read was not leased to anybody who still runs it.
OperatorHolds ==
    operator.op # "none" =>
       /\ operator.job \in Jobs
       /\ operator.rec.state = IF operator.op = "cancel" THEN "CANCELLED" ELSE "RETRYING"
       /\ operator.rec.lease <= lastLease
       /\ jobs[operator.job].lease = 0 => operator.rec.lease = 0
       /\ \A l \in Leases : work[l].phase = "run" /\ work[l].job = operator.job => operator.rec.lease # l

QueueInv ==
    /\ QueueTyped
    /\ \A j \in Jobs : /\ jobs[j].lease <= lastLease
                       /\ jobs[j].state = "ABSENT" => jobs[j] = NoJob
    /\ \A l \in Leases : ExecutionHolds(l)
    /\ OperatorHolds
    /\ \A e, o \in pendingJobs : e.job = o.job => e = o
    /\ RunnableFound

-------------------------------------------------------------------------------
\* A task that is known and run is run by the holder of its lease.
LEMMA QueueInvServes == QueueInv => QueueServes
  BY DEF QueueInv, QueueServes, RunsOnce, ExecutionHolds, Leases

\* The queue begins empty, with every task unknown.
LEMMA QueueInitial == MemoryInit => QueueInv
  <1> SUFFICES ASSUME MemoryInit PROVE QueueInv
    OBVIOUS
  <1>1. NoJob \in JobRecord /\ NoJob.state = "ABSENT" /\ NoJob.lease = 0 /\ ~Runnable(NoJob.state)
    BY DEF NoJob, JobRecord, JobStates, Runnable
  <1>2. NoWork \in [job : Jobs \cup {"none"}, phase : {"none", "run", "delay"}, rec : JobRecord]
    BY <1>1 DEF NoWork
  <1>3. NoCall \in [op : {"none", "cancel", "retry"}, job : Jobs \cup {"none"}, rec : JobRecord]
    BY <1>1 DEF NoCall
  <1>4. QueueTyped
    BY <1>1, <1>2, <1>3 DEF MemoryInit, QueueTyped, Leases
  <1>5. NoWork.phase = "none" /\ NoCall.op = "none"
    BY DEF NoWork, NoCall
  <1> QED BY <1>1, <1>4, <1>5 DEF MemoryInit, QueueInv, ExecutionHolds, OperatorHolds, RunnableFound, Leases

\* A write of record rec over job j by an execution or an operator.
OwnerWrites(j, rec) ==
    /\ rec.lease <= lastLease /\ rec.state # "ABSENT"
    /\ jobs[j].lease = 0 => rec.lease = 0
    /\ jobs' = [jobs EXCEPT ![j] = rec] /\ UNCHANGED lastLease
    /\ \A l \in Leases :
          /\ \/ work'[l] = work[l] \/ work'[l].phase = "none"
             \/ /\ work'[l].phase = "delay" /\ work[l].phase = "run" /\ work'[l].job = work[l].job
                /\ work'[l].rec.lease = l /\ work'[l].rec.worker = work[l].rec.worker
          /\ work'[l].phase = "run" => work[l].job # j
    /\ operator' = operator \/ operator'.op = "none"

\* A write of record rec over job j that its owner may do: whether by enqueueTask
\* or by updateTask, it keeps the lease of the task, and the task is still found.
LEMMA WriteKeeps ==
  ASSUME QueueInv, NEW j \in Jobs, NEW rec \in JobRecord, OwnsLease(j, rec),
         QueueTyped', OwnerWrites(j, rec)
  PROVE  /\ \A k \in Jobs : /\ jobs'[k].lease <= lastLease'
                            /\ jobs'[k].state = "ABSENT" => jobs'[k] = NoJob
         /\ \A l \in Leases : ExecutionHolds(l)'
         /\ OperatorHolds'
  <1>0. /\ jobs \in [Jobs -> JobRecord] /\ jobs'[j] = rec
        /\ \A k \in Jobs : k # j => jobs'[k] = jobs[k]
        /\ jobs[j].lease # 0 => rec.lease = jobs[j].lease /\ rec.worker = jobs[j].worker
        /\ rec.lease = jobs[j].lease
    BY DEF QueueInv, QueueTyped, OwnsLease, OwnerWrites
  <1>a. /\ rec.lease <= lastLease /\ rec.state # "ABSENT" /\ UNCHANGED lastLease
        /\ jobs[j].lease = 0 => rec.lease = 0
        /\ \A l \in Leases :
              /\ \/ work'[l] = work[l] \/ work'[l].phase = "none"
                 \/ /\ work'[l].phase = "delay" /\ work[l].phase = "run" /\ work'[l].job = work[l].job
                    /\ work'[l].rec.lease = l /\ work'[l].rec.worker = work[l].rec.worker
              /\ work'[l].phase = "run" => work[l].job # j
        /\ operator' = operator \/ operator'.op = "none"
    BY DEF OwnerWrites
  <1>1. \A k \in Jobs : /\ jobs'[k].lease <= lastLease'
                        /\ jobs'[k].state = "ABSENT" => jobs'[k] = NoJob
    BY <1>0, <1>a DEF QueueInv
  <1>2. ASSUME NEW l \in Leases PROVE ExecutionHolds(l)'
    <2>0. ExecutionHolds(l)
      BY DEF QueueInv
    <2>1. CASE work'[l].phase = "none"
      BY <2>1 DEF ExecutionHolds
    <2>2. CASE work'[l] = work[l] /\ work[l].phase # "none" /\ work[l].job = j
      <3>1. work[l].phase = "delay"
        BY <1>a, <2>2 DEF QueueInv, QueueTyped
      <3> QED BY <1>0, <1>a, <2>0, <2>2, <3>1 DEF ExecutionHolds
    <2>3. CASE work'[l] = work[l] /\ work[l].phase # "none" /\ work[l].job # j
      BY <1>0, <1>a, <2>0, <2>3 DEF ExecutionHolds
    <2>4. CASE /\ work'[l].phase = "delay" /\ work[l].phase = "run" /\ work'[l].job = work[l].job
               /\ work'[l].rec.lease = l /\ work'[l].rec.worker = work[l].rec.worker
      <3>1. CASE work[l].job = j
        BY <1>0, <1>a, <2>0, <2>4, <3>1 DEF ExecutionHolds
      <3>2. CASE work[l].job # j
        BY <1>0, <1>a, <2>0, <2>4, <3>2 DEF ExecutionHolds
      <3> QED BY <3>1, <3>2
    <2> QED BY <1>a, <2>1, <2>2, <2>3, <2>4
  <1>3. OperatorHolds'
    <2>1. CASE operator' = operator /\ operator.op # "none"
      <3>1. OperatorHolds
        BY DEF QueueInv
      <3>2. jobs'[operator.job].lease = 0 => operator.rec.lease = 0
        BY <1>0, <1>a, <2>1, <3>1 DEF OperatorHolds
      <3>3. ASSUME NEW l \in Leases, work'[l].phase = "run", work'[l].job = operator.job
            PROVE  operator.rec.lease # l
        BY <1>a, <3>1, <3>3, <2>1 DEF OperatorHolds
      <3> QED BY <1>a, <2>1, <3>1, <3>2, <3>3 DEF OperatorHolds
    <2>2. CASE operator'.op = "none"
      BY <2>2 DEF OperatorHolds
    <2> QED BY <1>a, <2>1, <2>2
  <1> QED BY <1>1, <1>2, <1>3

\* Enqueuing puts a task that may run into the queue unless it is there.
LEMMA EnqueueQueues ==
  ASSUME QueueInv, NEW j \in Jobs, NEW rec \in JobRecord, Enqueue(j, rec), OwnsLease(j, rec),
         Runnable(rec.state)
  PROVE  /\ jobs' = [jobs EXCEPT ![j] = rec]
         /\ \A e \in pendingJobs' : e.job \in Jobs
         /\ \A e, o \in pendingJobs' : e.job = o.job => e = o
         /\ Queued(j)' /\ \A k \in Jobs : Queued(k) => Queued(k)'
  <1>1. jobs' = [jobs EXCEPT ![j] = rec] /\ pendingJobs' = IF Queued(j) THEN pendingJobs ELSE Pushed(j)
    BY DEF Enqueue
  <1>2. CASE Queued(j)
    BY <1>1, <1>2 DEF QueueInv, QueueTyped, Queued
  <1>3. CASE ~Queued(j)
    <2> DEFINE e == [job |-> j, at |-> Max({o.at : o \in pendingJobs} \cup {0}) + 1]
    <2>1. pendingJobs' = pendingJobs \cup {e} /\ e.job = j
      BY <1>1, <1>3 DEF Pushed
    <2> HIDE DEF e
    <2> QED BY <1>1, <1>3, <2>1 DEF QueueInv, QueueTyped, Queued
  <1> QED BY <1>2, <1>3

\* Nothing is written: the rest of the step leaves what the queue holds alone.
NothingWritten ==
    /\ jobs' = jobs /\ pendingJobs' = pendingJobs /\ lastLease' = lastLease
    /\ \A l \in Leases : \/ work'[l] = work[l]
                         \/ /\ work'[l].phase = "none"
                            /\ work[l].phase = "delay" => jobs[work[l].job].lease # l

\* A step that writes no record and queues nothing keeps what holds of the tasks.
LEMMA NoWriteKeeps ==
  ASSUME QueueInv, NothingWritten, QueueTyped', OperatorHolds'
  PROVE  QueueInv'
  <1>1. \A l \in Leases : ExecutionHolds(l)'
    BY DEF QueueInv, ExecutionHolds, NothingWritten
  <1>2. RunnableFound'
    <2> SUFFICES ASSUME NEW j \in Jobs, Runnable(jobs[j].state), ~Queued(j)
                 PROVE  \E l \in Leases : work'[l].job = j /\ work'[l].phase = "delay" /\ jobs[j].lease = l
      BY DEF RunnableFound, Queued, Leases, NothingWritten
    <2>1. PICK l \in Leases : work[l].job = j /\ work[l].phase = "delay" /\ jobs[j].lease = l
      BY DEF QueueInv, RunnableFound, Leases
    <2> QED BY <2>1 DEF NothingWritten
  <1> QED BY <1>1, <1>2 DEF QueueInv, QueueTyped, NothingWritten

\* enqueueBatch of a task that is not known yet.
LEMMA SubmitKeepsQueue == ASSUME QueueInv, NEW j \in Jobs, SubmitJob(j) PROVE QueueInv'
  <1> DEFINE rec == [NoJob EXCEPT !.state = "PENDING"]
  <1>1. /\ rec \in JobRecord /\ rec.lease = 0 /\ rec.state = "PENDING" /\ Runnable(rec.state)
    BY DEF NoJob, JobRecord, JobStates, Runnable
  <1>2. jobs[j].state = "ABSENT" /\ Enqueue(j, rec) /\ UNCHANGED <<work, lastLease, operator>>
    BY DEF SubmitJob
  <1> HIDE DEF rec
  <1>3. jobs[j] = NoJob /\ NoJob.lease = 0 /\ OwnsLease(j, rec)
    BY <1>2 DEF QueueInv, NoJob, OwnsLease
  <1>4. /\ jobs' = [jobs EXCEPT ![j] = rec] /\ \A e \in pendingJobs' : e.job \in Jobs
        /\ \A e, o \in pendingJobs' : e.job = o.job => e = o
        /\ Queued(j)' /\ \A k \in Jobs : Queued(k) => Queued(k)'
    BY <1>1, <1>2, <1>3, EnqueueQueues
  <1>5. QueueTyped'
    BY <1>1, <1>2, <1>4 DEF QueueInv, QueueTyped
  <1>6. \A l \in Leases : work[l].phase # "none" => work[l].job # j
    BY <1>3 DEF QueueInv, ExecutionHolds
  <1>7. 0 <= lastLease /\ \A l \in Leases : work'[l] = work[l] /\ (work'[l].phase = "run" => work[l].job # j)
    BY <1>2, <1>6 DEF QueueInv, QueueTyped
  <1>a. OwnerWrites(j, rec)
    BY <1>1, <1>2, <1>4, <1>7 DEF OwnerWrites
  <1>8. /\ \A k \in Jobs : /\ jobs'[k].lease <= lastLease'
                           /\ jobs'[k].state = "ABSENT" => jobs'[k] = NoJob
        /\ \A l \in Leases : ExecutionHolds(l)'
        /\ OperatorHolds'
    BY <1>1, <1>3, <1>5, <1>a, WriteKeeps
  <1>9. RunnableFound'
    <2> SUFFICES ASSUME NEW k \in Jobs, Runnable(jobs'[k].state), ~Queued(k)'
                 PROVE  \E l \in Leases : work'[l].job = k /\ work'[l].phase = "delay" /\ jobs'[k].lease = l
      BY DEF RunnableFound, Leases
    <2>1. k # j /\ ~Queued(k) /\ jobs'[k] = jobs[k]
      BY <1>4 DEF QueueInv, QueueTyped
    <2> QED BY <1>2, <2>1 DEF QueueInv, RunnableFound, Leases
  <1> QED BY <1>4, <1>5, <1>8, <1>9 DEF QueueInv

\* An entry the dequeue passes over stays unless it can never run again.
LEMMA DequeueKeepsQueue == ASSUME QueueInv, NEW d \in Daemons, DequeueJob(d) PROVE QueueInv'
  <1>1. CASE /\ pendingJobs' = {e \in pendingJobs : StaysQueued(e)}
             /\ UNCHANGED <<jobs, work, lastLease, operator>>
    <2>1. \A k \in Jobs : Runnable(jobs[k].state) /\ Queued(k) => Queued(k)'
      BY <1>1 DEF Queued, StaysQueued
    <2>2. QueueTyped' /\ OperatorHolds' /\ \A l \in Leases : ExecutionHolds(l)'
      BY <1>1 DEF QueueInv, QueueTyped, OperatorHolds, ExecutionHolds
    <2>3. RunnableFound'
      <3> SUFFICES ASSUME NEW k \in Jobs, Runnable(jobs[k].state), ~Queued(k)'
                   PROVE  \E l \in Leases : work[l].job = k /\ work[l].phase = "delay" /\ jobs[k].lease = l
        BY <1>1 DEF RunnableFound, Leases
      <3> QED BY <2>1 DEF QueueInv, RunnableFound, Leases
    <2> QED BY <1>1, <2>2, <2>3 DEF QueueInv
  <1>2. ASSUME NEW first \in Found(d),
               lastLease < MaxJobLeases, lastLease' = lastLease + 1,
               pendingJobs' = {e \in pendingJobs \ {first} : e.at > first.at \/ StaysQueued(e)},
               jobs' = [jobs EXCEPT ![first.job] =
                          [jobs[first.job] EXCEPT !.state = "RUNNING", !.lease = lastLease + 1, !.worker = d]],
               work' = [work EXCEPT ![lastLease + 1] =
                          [job |-> first.job, phase |-> "run",
                           rec |-> [jobs[first.job] EXCEPT !.state = "RUNNING", !.lease = lastLease + 1, !.worker = d]]],
               UNCHANGED operator
        PROVE  QueueInv'
    <2> DEFINE j == first.job
               n == lastLease + 1
               rec == [jobs[j] EXCEPT !.state = "RUNNING", !.lease = n, !.worker = d]
               run == [job |-> j, phase |-> "run", rec |-> rec]
    <2>1. /\ first \in pendingJobs /\ j \in Jobs /\ Runnable(jobs[j].state)
          /\ jobs[j].state # "RUNNING" /\ jobs[j].state # "ABSENT"
      BY DEF Found, QueueInv, QueueTyped, Runnable
    <2>2. /\ n \in Leases /\ n \in Nat /\ n # 0 /\ lastLease \in Nat /\ ~(n <= lastLease) /\ lastLease' = n
      BY <1>2, LeasesBounded DEF QueueInv, QueueTyped, Leases
    <2>3. /\ rec \in JobRecord /\ rec.state = "RUNNING" /\ rec.lease = n /\ rec.worker = d
      BY <2>1, <2>2 DEF QueueInv, QueueTyped, JobRecord, JobStates
    <2>4. jobs' = [jobs EXCEPT ![j] = rec] /\ work' = [work EXCEPT ![n] = run]
      BY <1>2
    <2> HIDE DEF rec, n
    <2>5. run \in [job : Jobs \cup {"none"}, phase : {"none", "run", "delay"}, rec : JobRecord]
      BY <2>1, <2>3
    <2>6. run.job = j /\ run.phase = "run" /\ run.rec = rec
      OBVIOUS
    <2> HIDE DEF run, j
    <2>7. /\ jobs'[j] = rec /\ \A k \in Jobs : k # j => jobs'[k] = jobs[k]
          /\ work'[n] = run /\ \A l \in Leases : l # n => work'[l] = work[l]
      BY <2>1, <2>2, <2>4 DEF QueueInv, QueueTyped
    <2>8. QueueTyped'
      <3>1. jobs' \in [Jobs -> JobRecord]
        BY <2>1, <2>3, <2>4 DEF QueueInv, QueueTyped
      <3>2. work' \in [Leases -> [job : Jobs \cup {"none"}, phase : {"none", "run", "delay"}, rec : JobRecord]]
        BY <2>2, <2>4, <2>5 DEF QueueInv, QueueTyped
      <3>3. \A e \in pendingJobs' : e.job \in Jobs
        BY <1>2 DEF QueueInv, QueueTyped
      <3>4. lastLease' \in Nat /\ operator' \in [op : {"none", "cancel", "retry"}, job : Jobs \cup {"none"}, rec : JobRecord]
        BY <1>2, <2>2 DEF QueueInv, QueueTyped
      <3> QED BY <3>1, <3>2, <3>3, <3>4 DEF QueueTyped
    <2>9. ASSUME NEW k \in Jobs
          PROVE  /\ jobs'[k].lease <= lastLease'
                 /\ jobs'[k].state = "ABSENT" => jobs'[k] = NoJob
      <3>1. CASE k = j
        BY <2>2, <2>3, <2>7, <3>1
      <3>2. CASE k # j
        <4>1. jobs[k].lease \in Nat /\ jobs[k].lease <= lastLease
          BY DEF QueueInv, QueueTyped, JobRecord
        <4> QED BY <2>2, <2>7, <3>2, <4>1 DEF QueueInv, n
      <3> QED BY <3>1, <3>2
    <2>10. ASSUME NEW l \in Leases PROVE ExecutionHolds(l)'
      <3>0. ExecutionHolds(l) /\ l \in Int
        BY DEF QueueInv, Leases
      <3>1. CASE l = n
        BY <2>1, <2>2, <2>3, <2>6, <2>7, <3>1 DEF ExecutionHolds
      <3>2. CASE l # n /\ work[l].phase # "none" /\ work[l].job = j
        <4>1. jobs'[j].lease = n /\ n # l /\ work'[l] = work[l] /\ l <= lastLease
          BY <2>3, <2>7, <3>0, <3>2 DEF ExecutionHolds
        <4>2. work[l].phase # "run"
          BY <2>1, <3>0, <3>2 DEF ExecutionHolds
        <4>3. l <= lastLease'
          BY <2>2, <3>0, <4>1 DEF n
        <4> QED BY <2>1, <2>2, <3>0, <3>2, <4>1, <4>2, <4>3 DEF ExecutionHolds
      <3>3. CASE l # n /\ work[l].phase # "none" /\ work[l].job # j
        <4>1. l <= lastLease' /\ work'[l] = work[l] /\ jobs'[work[l].job] = jobs[work[l].job]
          BY <2>2, <2>7, <3>0, <3>3 DEF ExecutionHolds, n
        <4> QED BY <3>0, <3>3, <4>1 DEF ExecutionHolds
      <3>4. CASE l # n /\ work[l].phase = "none"
        BY <2>7, <3>4 DEF ExecutionHolds
      <3> QED BY <3>1, <3>2, <3>3, <3>4
    <2>11. OperatorHolds'
      <3>1. CASE operator.op # "none"
        <4>1. OperatorHolds /\ operator' = operator
          BY <1>2 DEF QueueInv
        <4>2. operator.rec.lease \in Nat
          BY DEF QueueInv, QueueTyped, JobRecord
        <4>3. operator.rec.lease <= lastLease' /\ operator.rec.lease # n
          BY <2>2, <3>1, <4>1, <4>2 DEF OperatorHolds, n
        <4>4. jobs'[operator.job].lease = 0 => operator.rec.lease = 0
          BY <2>2, <2>3, <2>7, <3>1, <4>1 DEF OperatorHolds
        <4>5. \A l \in Leases : work'[l].phase = "run" /\ work'[l].job = operator.job => operator.rec.lease # l
          BY <2>7, <3>1, <4>1, <4>3 DEF OperatorHolds
        <4> QED BY <3>1, <4>1, <4>3, <4>4, <4>5 DEF OperatorHolds
      <3>2. CASE operator.op = "none"
        BY <1>2, <3>2 DEF OperatorHolds
      <3> QED BY <3>1, <3>2
    <2>12. RunnableFound'
      <3> SUFFICES ASSUME NEW k \in Jobs, Runnable(jobs'[k].state), ~Queued(k)'
                   PROVE  \E l \in Leases : work'[l].job = k /\ work'[l].phase = "delay" /\ jobs'[k].lease = l
        BY DEF RunnableFound, Leases
      <3>1. k # j /\ jobs'[k] = jobs[k]
        BY <2>3, <2>7 DEF Runnable
      <3>2. ~Queued(k)
        <4>1. ASSUME NEW e \in pendingJobs, e.job = k PROVE Queued(k)'
          <5>1. e \in pendingJobs'
            BY <1>2, <3>1, <4>1 DEF StaysQueued, j
          <5> QED BY <4>1, <5>1 DEF Queued
        <4> QED BY <4>1 DEF Queued
      <3>3. PICK l \in Leases : work[l].job = k /\ work[l].phase = "delay" /\ jobs[k].lease = l
        BY <3>1, <3>2 DEF QueueInv, RunnableFound, Leases
      <3>4. l # n
        <4>1. ExecutionHolds(l)
          BY DEF QueueInv
        <4> QED BY <2>2, <3>3, <4>1 DEF ExecutionHolds
      <3> QED BY <2>7, <3>1, <3>3, <3>4
    <2>13. \A e, o \in pendingJobs' : e.job = o.job => e = o
      BY <1>2 DEF QueueInv
    <2> QED BY <2>8, <2>9, <2>10, <2>11, <2>12, <2>13 DEF QueueInv
  <1> QED BY <1>1, <1>2 DEF DequeueJob

\* The write at the end of an execution, and the delayed re-enqueue it may hold.
LEMMA FinishKeepsQueue ==
  ASSUME QueueInv, NEW l \in Leases, NEW success \in BOOLEAN, FinishJob(l, success)
  PROVE  QueueInv'
  <1> DEFINE j == work[l].job
             r == work[l].rec
             again == ~success /\ r.retries < JobRetries
             rec == [r EXCEPT !.state = IF success THEN "COMPLETED"
                                        ELSE IF again THEN "RETRYING" ELSE "FAILED",
                              !.retries = IF again THEN r.retries + 1 ELSE r.retries]
             after == IF again /\ OwnsLease(j, rec)
                      THEN [job |-> j, phase |-> "delay", rec |-> rec] ELSE NoWork
  <1>1. /\ work[l].phase = "run" /\ Update(j, rec) /\ work' = [work EXCEPT ![l] = after]
        /\ UNCHANGED <<lastLease, operator>>
    BY DEF FinishJob
  <1>2. /\ j \in Jobs /\ r \in JobRecord /\ r.lease = l /\ jobs[j] = r /\ l <= lastLease /\ r.lease # 0
    BY <1>1 DEF QueueInv, QueueTyped, ExecutionHolds
  <1> HIDE DEF j, r
  <1>3. /\ rec \in JobRecord /\ rec.lease = r.lease /\ rec.worker = r.worker
        /\ rec.state = IF success THEN "COMPLETED" ELSE IF again THEN "RETRYING" ELSE "FAILED"
    <2> DEFINE to == IF success THEN "COMPLETED" ELSE IF again THEN "RETRYING" ELSE "FAILED"
               retries == IF again THEN r.retries + 1 ELSE r.retries
    <2>1. to \in JobStates /\ retries \in Int /\ r = [r EXCEPT !.state = r.state]
      BY <1>2 DEF JobRecord, JobStates
    <2>2. rec = [r EXCEPT !.state = to, !.retries = retries]
      OBVIOUS
    <2> HIDE DEF to, retries, rec, again
    <2>3. /\ rec \in JobRecord /\ rec.lease = r.lease /\ rec.worker = r.worker /\ rec.state = to
      BY <1>2, <2>1, <2>2 DEF JobRecord
    <2> QED BY <2>3 DEF to
  <1> HIDE DEF again, rec
  <1>4. OwnsLease(j, rec)
    BY <1>2, <1>3 DEF OwnsLease
  <1>5. /\ jobs' = [jobs EXCEPT ![j] = rec] /\ UNCHANGED pendingJobs
    BY <1>1, <1>4 DEF Update
  <1>6. /\ after \in [job : Jobs \cup {"none"}, phase : {"none", "run", "delay"}, rec : JobRecord]
        /\ after = IF again THEN [job |-> j, phase |-> "delay", rec |-> rec] ELSE NoWork
    <2>1. NoWork \in [job : Jobs \cup {"none"}, phase : {"none", "run", "delay"}, rec : JobRecord]
      BY DEF NoWork, NoJob, JobRecord, JobStates
    <2> QED BY <1>2, <1>3, <1>4, <2>1
  <1> HIDE DEF after
  <1>7. QueueTyped'
    BY <1>1, <1>2, <1>3, <1>5, <1>6 DEF QueueInv, QueueTyped
  <1>8. /\ work'[l] = after /\ \A m \in Leases : m # l => work'[m] = work[m]
        /\ jobs'[j] = rec /\ \A k \in Jobs : k # j => jobs'[k] = jobs[k]
    BY <1>1, <1>2, <1>5 DEF QueueInv, QueueTyped
  <1>9. /\ ~again => after.phase = "none"
        /\ again => after.phase = "delay" /\ after.job = j /\ after.rec = rec
    BY <1>6 DEF NoWork
  <1>10. ASSUME NEW m \in Leases
         PROVE  /\ \/ work'[m] = work[m] \/ work'[m].phase = "none"
                   \/ work'[m].phase = "delay" /\ work[m].phase = "run" /\ work'[m].job = work[m].job
                      /\ work'[m].rec.lease = m /\ work'[m].rec.worker = work[m].rec.worker
                /\ work'[m].phase = "run" => work[m].job # j
    <2>1. CASE m = l
      BY <1>1, <1>2, <1>3, <1>8, <1>9, <2>1 DEF j, r
    <2>2. CASE m # l
      BY <1>2, <1>8, <2>2 DEF QueueInv, ExecutionHolds
    <2> QED BY <2>1, <2>2
  <1>11. rec.lease <= lastLease /\ rec.state # "ABSENT" /\ (jobs[j].lease = 0 => rec.lease = 0)
    BY <1>2, <1>3
  <1>12. /\ \A k \in Jobs : /\ jobs'[k].lease <= lastLease'
                            /\ jobs'[k].state = "ABSENT" => jobs'[k] = NoJob
         /\ \A m \in Leases : ExecutionHolds(m)'
         /\ OperatorHolds'
    <2>1. OwnerWrites(j, rec)
      BY <1>1, <1>5, <1>10, <1>11 DEF OwnerWrites
    <2> QED BY <1>2, <1>3, <1>4, <1>7, <2>1, WriteKeeps
  <1>13. RunnableFound'
    <2> SUFFICES ASSUME NEW k \in Jobs, Runnable(jobs'[k].state), ~Queued(k)'
                 PROVE  \E m \in Leases : work'[m].job = k /\ work'[m].phase = "delay" /\ jobs'[k].lease = m
      BY DEF RunnableFound, Leases
    <2>1. CASE k = j
      <3>1. again
        BY <1>3, <1>8, <2>1 DEF Runnable
      <3> QED BY <1>2, <1>3, <1>8, <1>9, <2>1, <3>1
    <2>2. CASE k # j
      <3>1. jobs'[k] = jobs[k] /\ ~Queued(k)
        BY <1>5, <1>8, <2>2 DEF Queued
      <3>2. PICK m \in Leases : work[m].job = k /\ work[m].phase = "delay" /\ jobs[k].lease = m
        BY <3>1 DEF QueueInv, RunnableFound, Leases
      <3> QED BY <1>1, <1>8, <3>1, <3>2
    <2> QED BY <2>1, <2>2
  <1> QED BY <1>5, <1>7, <1>12, <1>13 DEF QueueInv

\* The delayed enqueue of a failed task, which the queue may refuse.
LEMMA RequeueKeepsQueue == ASSUME QueueInv, NEW l \in Leases, RequeueJob(l) PROVE QueueInv'
  <1>0. PICK j \in Jobs : j = work[l].job
    BY DEF RequeueJob, QueueInv, ExecutionHolds
  <1> DEFINE rec == [work[l].rec EXCEPT !.state = "PENDING"]
  <1>1. /\ work[l].phase = "delay" /\ Enqueue(j, rec) /\ work' = [work EXCEPT ![l] = NoWork]
        /\ UNCHANGED <<lastLease, operator>>
    BY <1>0 DEF RequeueJob
  <1>2. /\ j \in Jobs /\ work[l].rec \in JobRecord /\ work[l].rec.lease = l /\ l <= lastLease
        /\ jobs[j].lease # 0
        /\ jobs[j].lease = l => jobs[j].worker = work[l].rec.worker
    BY <1>0, <1>1 DEF QueueInv, QueueTyped, ExecutionHolds
  <1>3. /\ rec \in JobRecord /\ rec.lease = l /\ rec.worker = work[l].rec.worker
        /\ rec.state = "PENDING" /\ Runnable(rec.state)
    BY <1>2 DEF JobRecord, JobStates, Runnable
  <1> HIDE DEF rec
  <1>4. NoWork \in [job : Jobs \cup {"none"}, phase : {"none", "run", "delay"}, rec : JobRecord] /\ NoWork.phase = "none"
    BY DEF NoWork, NoJob, JobRecord, JobStates
  <1>5. /\ work' \in [Leases -> [job : Jobs \cup {"none"}, phase : {"none", "run", "delay"}, rec : JobRecord]]
        /\ work'[l] = NoWork /\ \A m \in Leases : m # l => work'[m] = work[m]
    BY <1>1, <1>4 DEF QueueInv, QueueTyped
  <1>6. CASE OwnsLease(j, rec)
    <2>1. /\ jobs' = [jobs EXCEPT ![j] = rec] /\ \A e \in pendingJobs' : e.job \in Jobs
          /\ \A e, o \in pendingJobs' : e.job = o.job => e = o
          /\ Queued(j)' /\ \A k \in Jobs : Queued(k) => Queued(k)'
      BY <1>1, <1>2, <1>3, <1>6, EnqueueQueues
    <2>2. QueueTyped'
      BY <1>1, <1>2, <1>3, <1>5, <2>1 DEF QueueInv, QueueTyped
    <2>3. jobs[j].lease = l
      BY <1>2, <1>3, <1>6 DEF OwnsLease
    <2>4. \A m \in Leases : /\ work'[m] = work[m] \/ work'[m].phase = "none"
                            /\ work'[m].phase = "run" => work[m].job # j
      BY <1>1, <1>4, <1>5, <2>3 DEF QueueInv, ExecutionHolds
    <2>5. rec.lease <= lastLease /\ rec.state # "ABSENT"
      BY <1>2, <1>3
    <2>a. OwnerWrites(j, rec)
      BY <1>1, <1>2, <2>1, <2>4, <2>5 DEF OwnerWrites
    <2>6. /\ \A k \in Jobs : /\ jobs'[k].lease <= lastLease'
                             /\ jobs'[k].state = "ABSENT" => jobs'[k] = NoJob
          /\ \A m \in Leases : ExecutionHolds(m)'
          /\ OperatorHolds'
      BY <1>2, <1>3, <1>6, <2>2, <2>a, WriteKeeps
    <2>7. RunnableFound'
      <3> SUFFICES ASSUME NEW k \in Jobs, Runnable(jobs'[k].state), ~Queued(k)'
                   PROVE  \E m \in Leases : work'[m].job = k /\ work'[m].phase = "delay" /\ jobs'[k].lease = m
        BY DEF RunnableFound, Leases
      <3>1. k # j /\ ~Queued(k) /\ jobs'[k] = jobs[k]
        BY <2>1 DEF QueueInv, QueueTyped
      <3>2. PICK m \in Leases : work[m].job = k /\ work[m].phase = "delay" /\ jobs[k].lease = m
        BY <3>1 DEF QueueInv, RunnableFound, Leases
      <3> QED BY <1>0, <1>5, <3>1, <3>2
    <2> QED BY <2>1, <2>2, <2>6, <2>7 DEF QueueInv
  <1>7. CASE ~OwnsLease(j, rec)
    <2>1. UNCHANGED <<jobs, pendingJobs>>
      BY <1>1, <1>7 DEF Enqueue
    <2>2. QueueTyped'
      BY <1>1, <1>5, <2>1 DEF QueueInv, QueueTyped
    <2>3. OperatorHolds'
      <3>1. \A m \in Leases : work'[m].phase = "run" => work'[m] = work[m]
        BY <1>4, <1>5
      <3> QED BY <1>1, <2>1, <3>1 DEF QueueInv, OperatorHolds
    <2>4. jobs[j].lease # l
      BY <1>2, <1>3, <1>7 DEF OwnsLease
    <2>5. NothingWritten
      BY <1>0, <1>1, <1>4, <1>5, <2>1, <2>4 DEF NothingWritten
    <2> QED BY <2>2, <2>3, <2>5, NoWriteKeeps
  <1> QED BY <1>6, <1>7

\* cancelTask and retryTask read, and write later what they made of it.
LEMMA OperatorReadsKeepsQueue ==
  ASSUME QueueInv, NEW j \in Jobs, NEW op \in {"cancel", "retry"}, OperatorReads(j, op)
  PROVE  QueueInv'
  <1> DEFINE rec == IF op = "cancel" THEN [jobs[j] EXCEPT !.state = "CANCELLED"]
                    ELSE [jobs[j] EXCEPT !.state = "RETRYING", !.retries = 0]
  <1>1. /\ operator' = [op |-> op, job |-> j, rec |-> rec] /\ jobs[j].state # "RUNNING"
        /\ UNCHANGED <<jobs, pendingJobs, work, lastLease>>
    BY DEF OperatorReads
  <1>2. jobs[j] \in JobRecord /\ jobs[j].lease <= lastLease
    BY DEF QueueInv, QueueTyped
  <1>3. /\ rec \in JobRecord /\ rec.lease = jobs[j].lease
        /\ rec.state = IF op = "cancel" THEN "CANCELLED" ELSE "RETRYING"
    <2>1. CASE op = "cancel"
      BY <1>2, <2>1 DEF JobRecord, JobStates
    <2>2. CASE op # "cancel"
      <3>1. rec = [jobs[j] EXCEPT !.state = "RETRYING", !.retries = 0]
        BY <2>2
      <3> HIDE DEF rec
      <3>2. rec = [state |-> "RETRYING", lease |-> jobs[j].lease, retries |-> 0, worker |-> jobs[j].worker]
        BY <1>2, <3>1 DEF JobRecord
      <3>3. "RETRYING" \in JobStates /\ jobs[j].lease \in Nat /\ jobs[j].worker \in Daemons \cup {"none"}
        BY <1>2 DEF JobRecord, JobStates
      <3> QED BY <2>2, <3>2, <3>3 DEF JobRecord
    <2> QED BY <2>1, <2>2
  <1> HIDE DEF rec
  <1>4. /\ operator'.op = op /\ operator'.job = j /\ operator'.rec = rec
        /\ operator' \in [op : {"none", "cancel", "retry"}, job : Jobs \cup {"none"}, rec : JobRecord]
    BY <1>1, <1>3
  <1>5. QueueTyped'
    BY <1>1, <1>4 DEF QueueInv, QueueTyped
  <1>6. ASSUME NEW l \in Leases, work[l].phase = "run", work[l].job = j PROVE rec.lease # l
    BY <1>1, <1>3, <1>6 DEF QueueInv, ExecutionHolds
  <1>7. OperatorHolds'
    BY <1>1, <1>2, <1>3, <1>4, <1>6 DEF OperatorHolds
  <1>8. NothingWritten
    BY <1>1 DEF NothingWritten
  <1> QED BY <1>5, <1>7, <1>8, NoWriteKeeps

\* The write of a cancellation or of a retry, after other calls since its read.
LEMMA OperatorWritesKeepsQueue == ASSUME QueueInv, OperatorWrites PROVE QueueInv'
  <1>0. PICK j \in Jobs : j = operator.job
    BY DEF OperatorWrites, QueueInv, OperatorHolds
  <1> DEFINE rec == operator.rec
  <1>1. /\ operator.op # "none" /\ operator' = NoCall /\ UNCHANGED <<work, lastLease>>
        /\ IF operator.op = "cancel" THEN Update(j, rec) ELSE Enqueue(j, rec)
    BY <1>0 DEF OperatorWrites
  <1>2. /\ j \in Jobs /\ rec \in JobRecord /\ rec.lease <= lastLease
        /\ rec.state = IF operator.op = "cancel" THEN "CANCELLED" ELSE "RETRYING"
        /\ jobs[j].lease = 0 => rec.lease = 0
        /\ \A l \in Leases : work[l].phase = "run" /\ work[l].job = j => rec.lease # l
    BY <1>0, <1>1 DEF QueueInv, QueueTyped, OperatorHolds
  <1>3. operator'.op = "none" /\ operator' \in [op : {"none", "cancel", "retry"}, job : Jobs \cup {"none"}, rec : JobRecord]
    BY <1>1 DEF NoCall, NoJob, JobRecord, JobStates
  <1> HIDE DEF rec
  <1>4. CASE OwnsLease(j, rec)
    <2>1. /\ jobs' = [jobs EXCEPT ![j] = rec]
          /\ \A e \in pendingJobs' : e.job \in Jobs
          /\ \A e, o \in pendingJobs' : e.job = o.job => e = o
          /\ \A k \in Jobs : Queued(k) => Queued(k)'
          /\ operator.op # "cancel" => Queued(j)'
      <3>1. CASE operator.op = "cancel"
        BY <1>1, <1>4, <3>1 DEF Update, QueueInv, QueueTyped, Queued
      <3>2. CASE operator.op # "cancel"
        <4>1. Runnable(rec.state)
          BY <1>2, <3>2 DEF Runnable
        <4> QED BY <1>1, <1>2, <1>4, <3>2, <4>1, EnqueueQueues
      <3> QED BY <3>1, <3>2
    <2>2. QueueTyped'
      BY <1>1, <1>2, <1>3, <2>1 DEF QueueInv, QueueTyped
    <2>3. \A l \in Leases : work[l].phase = "run" => work[l].job # j
      BY <1>2, <1>4 DEF QueueInv, ExecutionHolds, OwnsLease
    <2>4. rec.state # "ABSENT" /\ work' = work
      BY <1>1, <1>2
    <2>5. /\ \A k \in Jobs : /\ jobs'[k].lease <= lastLease'
                             /\ jobs'[k].state = "ABSENT" => jobs'[k] = NoJob
          /\ \A l \in Leases : ExecutionHolds(l)'
          /\ OperatorHolds'
      <3>1. OwnerWrites(j, rec)
        BY <1>1, <1>2, <1>3, <2>1, <2>3, <2>4 DEF OwnerWrites
      <3> QED BY <1>2, <1>4, <2>2, <3>1, WriteKeeps
    <2>6. RunnableFound'
      <3> SUFFICES ASSUME NEW k \in Jobs, Runnable(jobs'[k].state), ~Queued(k)'
                   PROVE  \E l \in Leases : work'[l].job = k /\ work'[l].phase = "delay" /\ jobs'[k].lease = l
        BY DEF RunnableFound, Leases
      <3>1. k # j
        BY <1>2, <2>1 DEF Runnable, QueueInv, QueueTyped
      <3>2. ~Queued(k) /\ jobs'[k] = jobs[k]
        BY <2>1, <3>1 DEF QueueInv, QueueTyped
      <3> QED BY <2>4, <3>2 DEF QueueInv, RunnableFound, Leases
    <2> QED BY <2>1, <2>2, <2>5, <2>6 DEF QueueInv
  <1>5. CASE ~OwnsLease(j, rec)
    <2>1. UNCHANGED <<jobs, pendingJobs>>
      BY <1>1, <1>5 DEF Enqueue, Update
    <2>2. QueueTyped' /\ OperatorHolds'
      BY <1>1, <1>3, <2>1 DEF QueueInv, QueueTyped, OperatorHolds
    <2>3. NothingWritten
      BY <1>1, <2>1 DEF NothingWritten
    <2> QED BY <2>2, <2>3, NoWriteKeeps
  <1> QED BY <1>4, <1>5

\* For any number of tasks, workers, leases and retries: a task waits at most
\* once, is run by the holder of its lease only, and none that is to be run is
\* left out of the queue (MemoryQueueAdapter, executeTask, cancelTask, retryTask).
THEOREM MemoryQueueServes == MemorySpec => []QueueServes
  <1>1. QueueInv /\ [MemoryNext]_memoryVars => QueueInv'
    <2> SUFFICES ASSUME QueueInv, [MemoryNext]_memoryVars PROVE QueueInv'
      OBVIOUS
    <2>1. CASE UNCHANGED memoryVars
      <3>1. UNCHANGED <<jobs, pendingJobs, work, lastLease, operator>>
        BY <2>1 DEF memoryVars
      <3>2. QueueTyped' /\ OperatorHolds'
        BY <3>1 DEF QueueInv, QueueTyped, OperatorHolds
      <3>3. NothingWritten
        BY <3>1 DEF NothingWritten
      <3> QED BY <3>2, <3>3, NoWriteKeeps
    <2>2. CASE MemoryNext
      BY <2>2, SubmitKeepsQueue, DequeueKeepsQueue, FinishKeepsQueue, RequeueKeepsQueue,
         OperatorReadsKeepsQueue, OperatorWritesKeepsQueue DEF MemoryNext, Leases
    <2> QED BY <2>1, <2>2
  <1> QED BY <1>1, QueueInitial, QueueInvServes, PTL DEF MemorySpec

-------------------------------------------------------------------------------
(* The health record: the mutation at the gate of the queue is the only    *)
(* one that has computed what to write.                                    *)

HealthStates == {"HEALTHY"} \cup Failing \cup Blocked
HealthRecord == [state : HealthStates, failures : Nat, retryAt : Int]
Mutation == [by : {"start", "challenge", "lease", "operator"}, to : HealthStates,
             next : HealthRecord \cup {NoHealth}]

HealthTyped ==
    /\ health \in HealthRecord \cup {NoHealth}
    /\ mutations \in Seq(Mutation)
    /\ starts \in [Starts -> [phase : {"new", "refused", "launching", "up", "stopped"}, first : BOOLEAN]]
    /\ submitted \in Nat /\ healthTime \in Nat /\ failed \in Nat

\* What the constructor of AccountHealth demands of a snapshot, and the cap.
WellFormed(h) ==
    /\ h.state = "HEALTHY" => h.failures = 0 /\ h.retryAt = 0
    /\ h.state \in Blocked => h.retryAt = 0
    /\ h.state \in Failing => h.retryAt <= healthTime + MaxRetryDelay

\* A snapshot that is about to be written follows from the record it replaces:
\* only the mutation at the gate of the queue has computed one, and nobody else
\* writes the record until it is done.
Follows(m) ==
    /\ WellFormed(m.next)
    /\ m.next.failures = IF m.next.state = "HEALTHY" THEN 0
                         ELSE IF m.next.state = m.to /\ m.to \in Failing THEN failed + 1
                         ELSE failed
    /\ health.state = "DISABLED" /\ m.by \in {"challenge", "lease"} => m.next.state = "DISABLED"

HealthInv ==
    /\ HealthTyped
    /\ HealthRecordExact
    /\ \A k \in DOMAIN mutations : mutations[k].next # NoHealth => k = 1 /\ Follows(mutations[k])

-------------------------------------------------------------------------------
\* recordBackoff waits a natural number of steps, at most the cap.
LEMMA BackoffCapped ==
  ASSUME NEW n \in Nat PROVE Backoff(n + 1) \in Int /\ Backoff(n + 1) <= MaxRetryDelay
  <1> DEFINE exponent == IF n < 30 THEN n ELSE 30
  <1>1. exponent \in Nat /\ exponent = IF (n + 1) - 1 < 30 THEN (n + 1) - 1 ELSE 30
    OBVIOUS
  <1> HIDE DEF exponent
  <1>2. \A e \in Nat : 2^e \in Int
    OBVIOUS
  <1>3. 2^exponent \in Int
    BY <1>1, <1>2
  <1> DEFINE delay == BaseRetryDelay * 2^exponent
  <1>4. delay \in Int
    BY <1>3, RetryDelays
  <1>5. Backoff(n + 1) = IF delay < MaxRetryDelay THEN delay ELSE MaxRetryDelay
    BY <1>1 DEF Backoff
  <1> HIDE DEF delay
  <1> QED BY <1>4, <1>5, RetryDelays

\* A failure is counted once, and its retry time is within the cap.
LEMMA RecordedFacts ==
  ASSUME HealthTyped, NEW h \in HealthRecord, NEW to \in Failing
  PROVE  /\ Recorded(h, to) \in HealthRecord
         /\ Recorded(h, to).state = to /\ Recorded(h, to).failures = h.failures + 1
         /\ Recorded(h, to).retryAt <= healthTime + MaxRetryDelay
  <1>1. h.failures \in Nat /\ healthTime \in Nat
    BY DEF HealthRecord, HealthTyped
  <1> DEFINE wait == Backoff(h.failures + 1)
  <1>2. wait \in Int /\ wait <= MaxRetryDelay
    BY <1>1, BackoffCapped
  <1>3. Recorded(h, to) = [state |-> to, failures |-> h.failures + 1, retryAt |-> healthTime + wait]
    BY DEF Recorded
  <1> HIDE DEF wait
  <1>4. healthTime + wait \in Int /\ healthTime + wait <= healthTime + MaxRetryDelay
    BY <1>1, <1>2, RetryDelays
  <1>5. to \in HealthStates
    BY DEF HealthStates
  <1> QED BY <1>1, <1>3, <1>4, <1>5 DEF HealthRecord

\* applyTransition: the snapshot it computes is one the constructor accepts,
\* and it counts a failure exactly when it moves to a failing state.
LEMMA TransitionFacts ==
  ASSUME HealthTyped, NEW h \in HealthRecord, WellFormed(h), NEW to \in HealthStates,
         Transition(h, to) # NoHealth
  PROVE  /\ Transition(h, to) \in HealthRecord /\ WellFormed(Transition(h, to))
         /\ Transition(h, to).state = to
         /\ Transition(h, to).failures = IF to = "HEALTHY" THEN 0
                                         ELSE IF to \in Failing THEN h.failures + 1
                                         ELSE h.failures
  <1> DEFINE t == Transition(h, to)
  <1>0. /\ Failing \cap Blocked = {} /\ "HEALTHY" \notin Failing /\ "HEALTHY" \notin Blocked
        /\ HealthStates = {"HEALTHY"} \cup Failing \cup Blocked
        /\ h = [state |-> h.state, failures |-> h.failures, retryAt |-> h.retryAt]
        /\ h.failures \in Nat /\ h.state \in HealthStates /\ h.retryAt \in Int
        /\ NoHealth \notin HealthRecord
    BY DEF Failing, Blocked, HealthStates, HealthRecord, NoHealth
  <1>1. CASE to \in Failing
    <2>1. t = Recorded(h, to)
      BY <1>0, <1>1 DEF Transition, HealthStates, ValidTransition, Failing, Blocked
    <2> QED BY <2>1, <1>0, <1>1, RecordedFacts DEF WellFormed
  <1>2. CASE to = "HEALTHY"
    <2>1. t = Healthy
      <3>1. h.state = "HEALTHY" => h = Healthy
        BY <1>0 DEF Healthy, WellFormed
      <3> QED BY <3>1, <1>0, <1>2 DEF Transition
    <2> QED BY <2>1, <1>0, <1>2 DEF WellFormed, Healthy, HealthRecord
  <1>3. CASE to \in Blocked
    <2>1. CASE to = h.state
      <3>0. to \notin Failing /\ to # "HEALTHY" /\ ~ValidTransition(h.state, to)
        BY <2>1, <1>0, <1>3 DEF ValidTransition
      <3>1. t = h
        BY <2>1, <3>0 DEF Transition
      <3> HIDE DEF t
      <3> QED BY <2>1, <3>1, <1>0, <1>3 DEF t
    <2>2. CASE to # h.state
      <3>1. t = [h EXCEPT !.state = to, !.retryAt = 0]
        BY <2>2, <1>0, <1>3 DEF Transition
      <3>2. t = [state |-> to, failures |-> h.failures, retryAt |-> 0]
        BY <3>1, <1>0
      <3> HIDE DEF t
      <3>3. t \in HealthRecord
        BY <3>2, <1>0, <1>3 DEF HealthRecord
      <3>4. WellFormed(t)
        BY <3>2, <1>0, <1>3 DEF WellFormed
      <3> QED BY <3>2, <3>3, <3>4, <1>0, <1>3 DEF t
    <2> QED BY <2>1, <2>2
  <1> QED BY <1>0, <1>1, <1>2, <1>3

\* What the callers compute from the record they read follows from it.
LEMMA UpdatedFollows ==
  ASSUME HealthInv, NEW m \in Mutation, Updated(m) # NoHealth
  PROVE  Updated(m) \in HealthRecord /\ Follows([m EXCEPT !.next = Updated(m)])
  <1> DEFINE u == Updated(m)
             w == [m EXCEPT !.next = u]
  <1>0. /\ w.next = u /\ w.by = m.by /\ w.to = m.to
        /\ m.by \in {"start", "challenge", "lease", "operator"} /\ m.to \in HealthStates
    BY DEF Mutation
  <1>1. /\ Loaded \in HealthRecord /\ WellFormed(Loaded) /\ Loaded.failures = failed
        /\ health.state = "DISABLED" => Loaded.state = "DISABLED"
    <2>1. CASE health = NoHealth
      BY <2>1 DEF HealthInv, HealthRecordExact, Loaded, NoHealth, Healthy, WellFormed,
                  HealthRecord, HealthStates, Failing, Blocked
    <2>2. CASE health # NoHealth
      BY <2>2 DEF HealthInv, HealthTyped, HealthRecordExact, Loaded, WellFormed
    <2> QED BY <2>1, <2>2
  <1>2. /\ Failing \cap Blocked = {} /\ "HEALTHY" \notin Failing /\ "HEALTHY" \notin Blocked
        /\ "DISABLED" \in Blocked /\ HealthTyped
        /\ Loaded.state = "HEALTHY" => Loaded.failures = 0
    BY <1>1 DEF Failing, Blocked, HealthInv, WellFormed
  <1>3. Healthy \in HealthRecord /\ WellFormed(Healthy) /\ Healthy.state = "HEALTHY" /\ Healthy.failures = 0
    BY DEF Healthy, HealthRecord, HealthStates, WellFormed, Failing, Blocked
  <1>4. CASE u = Loaded /\ m.by \in {"challenge", "lease"} /\ Loaded.state \in Blocked
    <2> HIDE DEF u
    <2> QED BY <1>0, <1>1, <1>2, <1>4 DEF Follows, u
  <1>5. CASE /\ u = Transition(Loaded, m.to)
             /\ m.by = "operator" \/ Loaded.state # "DISABLED"
    <2>1. /\ u \in HealthRecord /\ WellFormed(u) /\ u.state = m.to
          /\ u.failures = IF m.to = "HEALTHY" THEN 0
                          ELSE IF m.to \in Failing THEN Loaded.failures + 1
                          ELSE Loaded.failures
      BY <1>0, <1>1, <1>2, <1>5, TransitionFacts
    <2> HIDE DEF u
    <2> QED BY <1>0, <1>1, <1>2, <1>5, <2>1 DEF Follows, u
  <1>6. CASE u = Healthy /\ m.by = "start"
    <2> HIDE DEF u
    <2> QED BY <1>0, <1>2, <1>3, <1>6 DEF Follows, u
  <1>7. \/ u = Loaded /\ m.by \in {"challenge", "lease"} /\ Loaded.state \in Blocked
        \/ u = Transition(Loaded, m.to) /\ (m.by = "operator" \/ Loaded.state # "DISABLED")
        \/ u = Healthy /\ m.by = "start"
    BY <1>0, <1>2 DEF Updated
  <1> QED BY <1>4, <1>5, <1>6, <1>7

\* The queue without its first mutation.
LEMMA DoneFacts ==
  ASSUME HealthTyped, 1 \in DOMAIN mutations
  PROVE  /\ Done(1) \in Seq(Mutation)
         /\ DOMAIN Done(1) = 1 .. Len(mutations) - 1
         /\ \A k \in DOMAIN Done(1) : k + 1 \in DOMAIN mutations /\ Done(1)[k] = mutations[k + 1]
  <1> DEFINE n == Len(mutations)
             s == SubSeq(mutations, 1, 1 - 1)
             t == SubSeq(mutations, 2, n)
  <1>1. n \in Nat \ {0} /\ DOMAIN mutations = 1 .. n /\ \A k \in 1 .. n : mutations[k] \in Mutation
    BY DEF HealthTyped
  <1>2. s = << >> /\ s \in Seq(Mutation)
    BY <1>1
  <1>3. t \in Seq(Mutation) /\ Len(t) = n - 1 /\ \A k \in 1 .. n - 1 : t[k] = mutations[k + 1]
    BY <1>1 DEF HealthTyped
  <1>4. Done(1) = s \o t
    BY DEF Done
  <1> HIDE DEF s, t, n
  <1>5. Done(1) = t
    BY <1>2, <1>3, <1>4
  <1> QED BY <1>1, <1>3, <1>5 DEF n

\* Every record is NoHealth or of an account, and the queue is empty at first.
LEMMA HealthInitial == HealthInit => HealthInv
  <1> SUFFICES ASSUME HealthInit PROVE HealthInv
    OBVIOUS
  <1>1. mutations \in Seq(Mutation) /\ DOMAIN mutations = {}
    BY DEF HealthInit
  <1>2. starts \in [Starts -> [phase : {"new", "refused", "launching", "up", "stopped"}, first : BOOLEAN]]
    BY DEF HealthInit
  <1> QED BY <1>1, <1>2 DEF HealthInit, HealthInv, HealthTyped, HealthRecordExact, NoHealth, Blocked, Failing

\* A new mutation joins the queue and has computed nothing yet.
LEMMA SubmitKeeps ==
  ASSUME HealthInv, NEW by \in {"start", "challenge", "lease", "operator"}, NEW to \in HealthStates,
         Submit(by, to), UNCHANGED <<health, healthTime, failed>>,
         starts' \in [Starts -> [phase : {"new", "refused", "launching", "up", "stopped"}, first : BOOLEAN]]
  PROVE  HealthInv' /\ HealthRecordExact' /\ DisabledSticks
  <1> DEFINE m == [by |-> by, to |-> to, next |-> NoHealth]
             n == Len(mutations)
  <1>1. m \in Mutation /\ m.next = NoHealth
    BY DEF Mutation
  <1>2. mutations' = Append(mutations, m) /\ submitted' \in Nat
    BY DEF Submit, HealthInv, HealthTyped
  <1> HIDE DEF m
  <1>3. /\ mutations' \in Seq(Mutation) /\ n \in Nat
        /\ DOMAIN mutations = 1 .. n /\ DOMAIN mutations' = 1 .. n + 1
        /\ \A k \in 1 .. n : mutations'[k] = mutations[k]
        /\ mutations'[n + 1] = m
    BY <1>1, <1>2 DEF HealthInv, HealthTyped
  <1> HIDE DEF n
  <1>4. HealthTyped' /\ HealthRecordExact'
    BY <1>2, <1>3 DEF HealthInv, HealthTyped, HealthRecordExact
  <1>5. ASSUME NEW k \in DOMAIN mutations', mutations'[k].next # NoHealth
        PROVE  k = 1 /\ Follows(mutations[k])'
    <2>1. k \in 1 .. n
      BY <1>1, <1>3, <1>5
    <2>2. k = 1 /\ Follows(mutations[k]) /\ mutations'[k] = mutations[k]
      BY <1>3, <1>5, <2>1 DEF HealthInv
    <2> QED BY <2>2 DEF Follows, WellFormed
  <1> QED BY <1>4, <1>5 DEF HealthInv, DisabledSticks

\* Every step of the account keeps the invariant and what it is for.
LEMMA HealthStep ==
  ASSUME HealthInv, [HealthNext]_healthVars
  PROVE  HealthInv' /\ HealthRecordExact' /\ DisabledSticks
  <1> DEFINE Started == [Starts -> [phase : {"new", "refused", "launching", "up", "stopped"}, first : BOOLEAN]]
  <1>0. starts \in Started
    BY DEF HealthInv, HealthTyped
  <1>a. /\ "HEALTHY" \in HealthStates /\ "CHALLENGE_REQUIRED" \in HealthStates
        /\ "QUARANTINED" \in HealthStates /\ "LOGIN_EXPIRED" \in HealthStates
        /\ "DISABLED" \in HealthStates
    BY DEF HealthStates, Failing, Blocked
  <1>b. ASSUME UNCHANGED <<health, mutations, submitted, healthTime, failed>>, starts' \in Started
        PROVE  HealthInv' /\ HealthRecordExact' /\ DisabledSticks
    BY <1>b DEF HealthInv, HealthTyped, HealthRecordExact, Follows, WellFormed, DisabledSticks
  <1>1. ASSUME NEW s \in Starts, StartReads(s) PROVE HealthInv' /\ HealthRecordExact' /\ DisabledSticks
    <2>1. starts' \in Started
      BY <1>0, <1>1 DEF StartReads
    <2> QED BY <1>1, <1>b, <2>1 DEF StartReads
  <1>2. ASSUME NEW s \in Starts, StartEnds(s) PROVE HealthInv' /\ HealthRecordExact' /\ DisabledSticks
    <2>1. starts' \in Started
      BY <1>0, <1>2 DEF StartEnds
    <2>2. CASE starts[s].first
      BY <1>2, <1>a, <2>1, <2>2, SubmitKeeps DEF StartEnds
    <2>3. CASE ~starts[s].first
      BY <1>2, <1>b, <2>1, <2>3 DEF StartEnds
    <2> QED BY <2>2, <2>3
  <1>3. ASSUME NEW s \in Starts, HealthReports(s) PROVE HealthInv' /\ HealthRecordExact' /\ DisabledSticks
    BY <1>0, <1>3, <1>a, SubmitKeeps DEF HealthReports
  <1>4. ASSUME NEW s \in Starts, LosesLease(s) PROVE HealthInv' /\ HealthRecordExact' /\ DisabledSticks
    <2>1. starts' \in Started
      BY <1>0, <1>4 DEF LosesLease
    <2> QED BY <1>4, <1>a, <2>1, SubmitKeeps DEF LosesLease
  <1>5. CASE OperatorUpdates
    BY <1>0, <1>5, <1>a, SubmitKeeps DEF OperatorUpdates
  <1>6. CASE HealthTick
    <2>1. /\ UNCHANGED <<health, mutations, starts, submitted, failed>>
          /\ healthTime' = healthTime + 1 /\ healthTime \in Nat
      BY <1>6 DEF HealthTick, HealthInv, HealthTyped
    <2>2. HealthTyped'
      BY <2>1 DEF HealthInv, HealthTyped
    <2>3. health.retryAt \in Int
      BY DEF HealthInv, HealthTyped, HealthRecord, NoHealth
    <2>4. HealthRecordExact'
      BY <2>1, <2>3, RetryDelays DEF HealthInv, HealthRecordExact
    <2>5. ASSUME NEW k \in DOMAIN mutations, mutations[k].next # NoHealth
          PROVE  k = 1 /\ Follows(mutations[k])'
      <3>1. k = 1 /\ Follows(mutations[k])
        BY <2>5 DEF HealthInv
      <3>2. mutations[k].next.retryAt \in Int
        <4>1. mutations[k] \in Mutation
          BY <2>5 DEF HealthInv, HealthTyped
        <4>2. mutations[k].next \in HealthRecord
          BY <2>5, <4>1 DEF Mutation
        <4> QED BY <4>2 DEF HealthRecord
      <3>3. WellFormed(mutations[k].next)'
        BY <2>1, <3>1, <3>2, RetryDelays DEF Follows, WellFormed
      <3> QED BY <2>1, <3>1, <3>3 DEF Follows
    <2> QED BY <2>1, <2>2, <2>4, <2>5 DEF HealthInv, DisabledSticks
  <1>7. ASSUME NEW k \in 1 .. MaxMutations, MutationReads(k)
        PROVE  HealthInv' /\ HealthRecordExact' /\ DisabledSticks
    <2>1. /\ k = 1 /\ 1 \in DOMAIN mutations /\ mutations[1].next = NoHealth
          /\ UNCHANGED <<health, starts, submitted, healthTime, failed>>
      BY <1>7 DEF MutationReads, MayRun
    <2>2. mutations[1] \in Mutation
      BY <2>1 DEF HealthInv, HealthTyped
    <2>3. CASE Updated(mutations[1]) = NoHealth
      <3>1. mutations' = Done(1)
        BY <1>7, <2>1, <2>3 DEF MutationReads
      <3>2. HealthTyped /\ \A j \in DOMAIN mutations : j # 1 => mutations[j].next = NoHealth
        BY DEF HealthInv
      <3>3. /\ mutations' \in Seq(Mutation)
            /\ \A j \in DOMAIN mutations' : mutations'[j].next = NoHealth
        <4>1. Len(mutations) \in Nat
          BY DEF HealthInv, HealthTyped
        <4> QED BY <2>1, <3>1, <3>2, <4>1, DoneFacts
      <3>4. HealthTyped' /\ HealthRecordExact'
        BY <2>1, <3>3 DEF HealthInv, HealthTyped, HealthRecordExact
      <3> QED BY <2>1, <3>3, <3>4 DEF HealthInv, DisabledSticks
    <2>4. CASE Updated(mutations[1]) # NoHealth
      <3> DEFINE u == Updated(mutations[1])
                 w == [mutations[1] EXCEPT !.next = u]
      <3>1. mutations' = [mutations EXCEPT ![1].next = u]
        BY <1>7, <2>1, <2>4 DEF MutationReads
      <3>2. u \in HealthRecord /\ Follows(w)
        BY <2>2, <2>4, UpdatedFollows
      <3> HIDE DEF u
      <3>3. w \in Mutation
        BY <2>2, <3>2 DEF Mutation
      <3>4. /\ mutations' = [mutations EXCEPT ![1] = w]
            /\ mutations \in Seq(Mutation)
        BY <3>1 DEF HealthInv, HealthTyped
      <3> HIDE DEF w
      <3>5. /\ mutations' \in Seq(Mutation) /\ DOMAIN mutations' = DOMAIN mutations
            /\ mutations'[1] = w
            /\ \A j \in DOMAIN mutations : j # 1 => mutations'[j] = mutations[j]
        BY <2>1, <3>3, <3>4
      <3>6. HealthTyped' /\ HealthRecordExact'
        BY <2>1, <3>5 DEF HealthInv, HealthTyped, HealthRecordExact
      <3>7. Follows(mutations[1])'
        BY <2>1, <3>2, <3>5 DEF Follows, WellFormed
      <3>8. ASSUME NEW j \in DOMAIN mutations', mutations'[j].next # NoHealth
            PROVE  j = 1 /\ Follows(mutations[j])'
        <4>1. j = 1
          BY <3>5, <3>8 DEF HealthInv
        <4> QED BY <4>1, <3>7
      <3> QED BY <2>1, <3>6, <3>8 DEF HealthInv, DisabledSticks
    <2> QED BY <2>3, <2>4
  <1>8. ASSUME NEW k \in 1 .. MaxMutations, NEW lost \in BOOLEAN, MutationWrites(k, lost)
        PROVE  HealthInv' /\ HealthRecordExact' /\ DisabledSticks
    <2> DEFINE m == mutations[1]
    <2>1. /\ 1 \in DOMAIN mutations /\ m.next # NoHealth /\ Follows(m) /\ m \in Mutation
          /\ mutations' = Done(1) /\ UNCHANGED <<starts, submitted, healthTime>>
          /\ k = 1
      BY <1>8 DEF MutationWrites, HealthInv, HealthTyped
    <2>2. /\ m.next \in HealthRecord /\ m.next.state \in HealthStates
          /\ m.by \in {"start", "challenge", "lease", "operator"} /\ m.next.failures \in Nat
      BY <2>1 DEF Mutation, HealthRecord
    <2>3. /\ health' = IF lost THEN health ELSE m.next
          /\ failed' = IF lost THEN failed
                       ELSE IF m.next.state = "HEALTHY" THEN 0
                       ELSE IF m.next.state = m.to /\ m.next.state \in Failing THEN failed + 1
                       ELSE failed
      BY <1>8, <2>1 DEF MutationWrites
    <2> HIDE DEF m
    <2>4. /\ mutations' \in Seq(Mutation)
          /\ \A j \in DOMAIN mutations' : mutations'[j].next = NoHealth
      <3>1. HealthTyped /\ \A j \in DOMAIN mutations : j # 1 => mutations[j].next = NoHealth
        BY DEF HealthInv
      <3>2. Len(mutations) \in Nat
        BY DEF HealthInv, HealthTyped
      <3> QED BY <2>1, <3>1, <3>2, DoneFacts
    <2>5. HealthTyped'
      <3>1. health' \in HealthRecord \cup {NoHealth} /\ failed' \in Nat
        BY <2>2, <2>3 DEF HealthInv, HealthTyped
      <3> QED BY <2>1, <2>4, <3>1 DEF HealthInv, HealthTyped
    <2>6. HealthRecordExact'
      <3>1. CASE lost
        BY <2>1, <2>3, <3>1 DEF HealthInv, HealthRecordExact
      <3>2. CASE ~lost
        <4>1. health' = m.next /\ WellFormed(m.next) /\ health'.failures = failed'
          BY <2>1, <2>3, <3>2 DEF Follows
        <4> QED BY <2>1, <4>1 DEF WellFormed, HealthRecordExact
      <3> QED BY <3>1, <3>2
    <2>7. DisabledSticks
      <3>1. ASSUME health.state = "DISABLED", health'.state # "DISABLED"
            PROVE  m.by \in {"operator", "start"}
        BY <2>1, <2>2, <2>3, <3>1 DEF Follows
      <3> QED BY <2>1, <3>1 DEF DisabledSticks, m
    <2> QED BY <2>4, <2>5, <2>6, <2>7 DEF HealthInv
  <1>9. CASE UNCHANGED healthVars
    BY <1>9, <1>0, <1>b DEF healthVars
  <1> QED BY <1>1, <1>2, <1>3, <1>4, <1>5, <1>6, <1>7, <1>8, <1>9 DEF HealthNext

\* No overlap of challenges, lost leases, session starts and operator calls makes
\* the record of an account one its constructor refuses, loses or invents a
\* failure, or re-enables a disabled account, for any number of starts and
\* mutations and any delays (AccountHealthStore.mutate and runExclusive).
THEOREM AccountHealthKept == HealthSpec => HealthKept
  <1>1. HealthInit => HealthInv
    BY HealthInitial
  <1>2. HealthInv /\ [HealthNext]_healthVars => HealthInv'
    BY HealthStep
  <1>3. HealthInv /\ [HealthNext]_healthVars => [HealthRecordExact' /\ DisabledSticks]_healthVars
    BY HealthStep
  <1> QED BY <1>1, <1>2, <1>3, PTL DEF HealthSpec, HealthKept

-------------------------------------------------------------------------------
(* The proxy pool: without an overlap the counters of a record tell of the *)
(* results at its server.                                                  *)

ProxyRecord == [exists : {TRUE}, server : Servers, enabled : BOOLEAN, last : {"none", "ok", "bad"},
                checkedAt : Servers \cup {"none"}, failures : Nat, successes : Nat, quarantine : Nat]
ProxyPhases == {"idle", "tcp", "tunnel", "tls", "request", "finally", "write"}
ProxyCheck == [phase : ProxyPhases, seen : ProxyRecord \cup {NoRecord},
               socket : {"none", "open", "closed"}, connected : BOOLEAN]
ProxyResult == [ok : BOOLEAN, at : Nat]

ProxyTyped ==
    /\ record \in ProxyRecord \cup {NoRecord}
    /\ check \in [Checks -> ProxyCheck]
    /\ \A k \in Checks : check[k].phase # "idle" => check[k].seen \in ProxyRecord
    /\ proxyTime \in Nat \ {0}
    /\ results \in Seq(ProxyResult)
    /\ overlap \in BOOLEAN

\* What a record says of the last check was found out at the server it names.
Honest(r) == r.exists /\ r.last # "none" => r.checkedAt = r.server

\* Without an overlap one check at a time runs, on the record as it is.
OneChecker ==
    ~overlap => \A k \in Checks : check[k].phase # "idle" =>
                   /\ record = check[k].seen
                   /\ \A m \in Checks : check[m].phase # "idle" => m = k

\* The FailThreshold-th failure in a row, or a later one.
Trips(i) == i \in DOMAIN results /\ i >= FailThreshold
            /\ \A j \in (i - FailThreshold + 1)..i : ~results[j].ok
Served(i) == \E j \in (i + 1)..(Len(results) - 1) :
                results[j].ok /\ results[j + 1].ok /\ results[j].at >= results[i].at + BaseCooldown

\* The counters of a record tell of the results at its server: the failures at
\* the end, and the first of the two successes a quarantine waits for.
Counts(r) ==
    LET n == Len(results) IN
    /\ r.failures <= n
    /\ \A j \in (n - r.failures + 1)..n : ~results[j].ok
    /\ r.failures = n \/ results[n - r.failures].ok
    /\ \A j \in 1..n : results[j].at <= proxyTime
    /\ r.quarantine # 0 /\ r.successes >= 1 =>
          n >= 1 /\ results[n].ok /\ results[n].at >= r.quarantine
    /\ \A i \in 1..n : Trips(i) => Served(i) \/ (r.quarantine # 0 /\ r.quarantine >= results[i].at + BaseCooldown)

ProxyInv ==
    /\ ProxyTyped
    /\ Honest(record) /\ \A k \in Checks : Honest(check[k].seen)
    /\ OneChecker
    /\ ~overlap /\ record.exists => Counts(record)
    /\ SocketsClosed

-------------------------------------------------------------------------------
\* The invariant says what the runs check.
LEMMA ProxyInvHolds == ProxyInv => ChecksHold
  <1> SUFFICES ASSUME ProxyInv PROVE ChecksHold
    OBVIOUS
  <1>1. OfferedWasChecked
    BY DEF ProxyInv, OfferedWasChecked, Offered, Honest
  <1>2. QuarantineServed
    <2> SUFFICES ASSUME ~overlap, Offered, NEW i \in DOMAIN results, Trips(i) PROVE Served(i)
      BY DEF QuarantineServed, Trips, Served
    <2>1. Counts(record) /\ record.quarantine = 0
      BY DEF ProxyInv, Offered
    <2>2. i \in 1..Len(results)
      BY DEF ProxyInv, ProxyTyped
    <2> QED BY <2>1, <2>2 DEF Counts
  <1> QED BY <1>1, <1>2 DEF ProxyInv, ChecksHold

\* A power of two counts the subsets of a finite set, so it is a positive number.
LEMMA PowerPositive == ASSUME NEW n \in Nat PROVE 2^n \in Nat /\ 2^n >= 1
  <1> DEFINE S == 1..n
  <1>1. IsFiniteSet(S) /\ Cardinality(S) = n
    BY FS_Interval
  <1> HIDE DEF S
  <1>2. IsFiniteSet(SUBSET S) /\ Cardinality(SUBSET S) = 2^n
    BY <1>1, FS_SUBSET
  <1>3. Cardinality(SUBSET S) \in Nat
    BY <1>2, FS_CardinalityType
  <1>4. SUBSET S # {}
    OBVIOUS
  <1>5. Cardinality(SUBSET S) # 0
    BY <1>2, <1>4, FS_EmptySet
  <1> QED BY <1>2, <1>3, <1>5

\* A quarantine lasts a natural number of steps, the base cooldown at least.
LEMMA CooldownBounds ==
  ASSUME NEW n \in Nat, n >= FailThreshold PROVE Cooldown(n) \in Nat /\ Cooldown(n) >= BaseCooldown
  <1> DEFINE p == 2^(n - FailThreshold)
             wait == BaseCooldown * p
  <1>1. n - FailThreshold \in Nat
    BY CooldownsOrdered
  <1>2. p \in Nat /\ p >= 1
    BY <1>1, PowerPositive
  <1>3. Cooldown(n) = IF wait < MaxCooldown THEN wait ELSE MaxCooldown
    BY DEF Cooldown
  <1> HIDE DEF p
  <1>4. wait \in Nat /\ wait >= BaseCooldown
    <2>1. p = 1 + (p - 1) /\ p - 1 \in Nat
      BY <1>2
    <2>2. BaseCooldown * (1 + (p - 1)) = BaseCooldown + BaseCooldown * (p - 1)
      BY <2>1, CooldownsOrdered
    <2>3. BaseCooldown * (p - 1) \in Nat
      BY <2>1, CooldownsOrdered
    <2> QED BY <2>1, <2>2, <2>3, CooldownsOrdered
  <1> HIDE DEF wait
  <1> QED BY <1>3, <1>4, CooldownsOrdered

\* The record a check writes, field by field.
LEMMA HealthFacts ==
  ASSUME ProxyTyped, NEW r \in ProxyRecord, NEW ok \in BOOLEAN
  PROVE  LET h == Health(r, ok) IN
         /\ h \in ProxyRecord /\ h.server = r.server
         /\ ok => /\ h.failures = 0
                  /\ \/ h.quarantine = r.quarantine /\ h.successes = 0
                     \/ /\ r.quarantine = 0 \/ proxyTime >= r.quarantine
                        /\ h.quarantine = IF r.successes >= 1 THEN 0 ELSE r.quarantine
         /\ ~ok => /\ h.failures = r.failures + 1 /\ h.successes = 0
                   /\ h.failures < FailThreshold => h.quarantine = r.quarantine
                   /\ h.failures >= FailThreshold =>
                         h.quarantine # 0 /\ h.quarantine >= proxyTime + BaseCooldown
  <1> DEFINE h == Health(r, ok)
  <1>1. /\ r.failures \in Nat /\ r.successes \in Nat /\ r.quarantine \in Nat /\ proxyTime \in Nat \ {0}
    BY DEF ProxyRecord, ProxyTyped
  <1>2. CASE ok
    <2>1. CASE r.quarantine # 0 /\ proxyTime < r.quarantine
      <3>1. h = [r EXCEPT !.failures = 0, !.successes = 0]
        BY <1>2, <2>1 DEF Health
      <3> HIDE DEF h
      <3>2. /\ h \in ProxyRecord /\ h.server = r.server /\ h.failures = 0
            /\ h.quarantine = r.quarantine /\ h.successes = 0
        BY <3>1 DEF ProxyRecord
      <3> QED BY <1>2, <3>2 DEF h
    <2>2. CASE ~(r.quarantine # 0 /\ proxyTime < r.quarantine)
      <3> DEFINE q == IF r.successes >= 1 THEN 0 ELSE r.quarantine
                 n == r.successes + 1
      <3>1. h = [r EXCEPT !.failures = 0, !.successes = n, !.quarantine = q]
        BY <1>2, <2>2 DEF Health
      <3>2. q \in Nat /\ n \in Nat
        BY <1>1
      <3> HIDE DEF h, n, q
      <3>3. /\ h \in ProxyRecord /\ h.server = r.server /\ h.failures = 0 /\ h.quarantine = q
        BY <3>1, <3>2 DEF ProxyRecord
      <3>4. r.quarantine = 0 \/ proxyTime >= r.quarantine
        BY <1>1, <2>2
      <3> QED BY <1>2, <3>3, <3>4 DEF h, q
    <2> QED BY <2>1, <2>2
  <1>3. CASE ~ok
    <2> DEFINE n == r.failures + 1
               q == IF n >= FailThreshold THEN proxyTime + Cooldown(n) ELSE r.quarantine
    <2>1. h = [r EXCEPT !.failures = n, !.successes = 0, !.quarantine = q]
      BY <1>3 DEF Health
    <2>2. n \in Nat /\ n = r.failures + 1
      BY <1>1
    <2> HIDE DEF n
    <2>3. /\ q \in Nat
          /\ n < FailThreshold => q = r.quarantine
          /\ n >= FailThreshold => q # 0 /\ q >= proxyTime + BaseCooldown
      <3>1. CASE n >= FailThreshold
        BY <1>1, <2>2, <3>1, CooldownBounds, CooldownsOrdered
      <3>2. CASE ~(n >= FailThreshold)
        BY <1>1, <2>2, <3>2, CooldownsOrdered
      <3> QED BY <3>1, <3>2, <2>2, CooldownsOrdered
    <2> HIDE DEF h, q
    <2>4. /\ h \in ProxyRecord /\ h.server = r.server /\ h.failures = n /\ h.successes = 0 /\ h.quarantine = q
      BY <2>1, <2>2, <2>3 DEF ProxyRecord
    <2> QED BY <1>3, <2>2, <2>3, <2>4 DEF h
  <1> QED BY <1>2, <1>3

\* The record a check writes: what the check saw, with the health it found.
LEMMA WrittenFacts ==
  ASSUME ProxyTyped, NEW k \in Checks, check[k].phase # "idle"
  PROVE  LET h == Health(check[k].seen, check[k].connected)
             w == Written(k) IN
         /\ w \in ProxyRecord /\ Honest(w)
         /\ w.failures = h.failures /\ w.successes = h.successes /\ w.quarantine = h.quarantine
  <1> DEFINE r == check[k].seen
             ok == check[k].connected
             h == Health(r, ok)
             w == Written(k)
             last == IF ok THEN "ok" ELSE "bad"
  <1>1. r \in ProxyRecord /\ ok \in BOOLEAN /\ r.server \in Servers
    BY DEF ProxyTyped, ProxyCheck, ProxyRecord
  <1>2. h \in ProxyRecord /\ h.server = r.server
    BY <1>1, HealthFacts
  <1>3. w = [h EXCEPT !.last = last, !.checkedAt = r.server]
    BY DEF Written
  <1> HIDE DEF h, r, w, ok
  <1>4. /\ w \in ProxyRecord /\ w.server = h.server /\ w.checkedAt = r.server
        /\ w.failures = h.failures /\ w.successes = h.successes /\ w.quarantine = h.quarantine
    BY <1>1, <1>2, <1>3 DEF ProxyRecord
  <1> QED BY <1>2, <1>4 DEF Honest, w, h, r, ok

\* What is served stays served when another result follows.
LEMMA AppendServed ==
  ASSUME ProxyTyped, NEW x \in ProxyResult, results' = Append(results, x)
  PROVE  LET n == Len(results) IN
         /\ n \in Nat /\ Len(results') = n + 1 /\ DOMAIN results = 1..n /\ DOMAIN results' = 1..(n + 1)
         /\ results' \in Seq(ProxyResult)
         /\ results'[n + 1] = x
         /\ \A i \in 1..n : /\ results'[i] = results[i]
                            /\ results[i].at \in Nat
                            /\ Trips(i)' <=> Trips(i)
                            /\ Served(i) => Served(i)'
  <1> DEFINE n == Len(results)
  <1>1. /\ n \in Nat /\ Len(results') = n + 1 /\ DOMAIN results = 1..n /\ DOMAIN results' = 1..(n + 1)
        /\ results' \in Seq(ProxyResult)
        /\ results'[n + 1] = x
        /\ \A i \in 1..n : results'[i] = results[i] /\ results[i].at \in Nat
    <2>1. results \in Seq(ProxyResult) /\ \A y \in ProxyResult : y.at \in Nat
      BY DEF ProxyTyped, ProxyResult
    <2>2. /\ n \in Nat /\ Len(results') = n + 1 /\ DOMAIN results = 1..n /\ DOMAIN results' = 1..(n + 1)
          /\ results' \in Seq(ProxyResult)
          /\ results'[n + 1] = x
          /\ \A i \in 1..n : results'[i] = results[i] /\ results[i] \in ProxyResult
      BY <2>1
    <2> QED BY <2>1, <2>2
  <1> HIDE DEF n
  <1>2. ASSUME NEW i \in 1..n PROVE Trips(i)' <=> Trips(i)
    <2>1. \A j \in (i - FailThreshold + 1)..i : i >= FailThreshold => j \in 1..n
      BY <1>1, CooldownsOrdered
    <2>2. i \in DOMAIN results /\ i \in DOMAIN results'
      BY <1>1
    <2> QED BY <1>1, <2>1, <2>2 DEF Trips
  <1>3. ASSUME NEW i \in 1..n, Served(i) PROVE Served(i)'
    <2>1. PICK j \in (i + 1)..(n - 1) : results[j].ok /\ results[j + 1].ok /\ results[j].at >= results[i].at + BaseCooldown
      BY <1>3 DEF Served, n
    <2>2. j \in (i + 1)..((n + 1) - 1) /\ j \in 1..n /\ j + 1 \in 1..n
      BY <1>1
    <2> QED BY <1>1, <2>1, <2>2 DEF Served
  <1> QED BY <1>1, <1>2, <1>3 DEF n

\* The counters that are written tell of the results with the new one.
LEMMA WriteCounts ==
  ASSUME ProxyTyped, NEW r \in ProxyRecord, Counts(r), NEW ok \in BOOLEAN,
         results' = Append(results, [ok |-> ok, at |-> proxyTime]), proxyTime' = proxyTime
  PROVE  \A h \in ProxyRecord : /\ h.failures = Health(r, ok).failures
                                /\ h.successes = Health(r, ok).successes
                                /\ h.quarantine = Health(r, ok).quarantine
                                => Counts(h)'
  <1> SUFFICES ASSUME NEW h \in ProxyRecord, h.failures = Health(r, ok).failures,
                      h.successes = Health(r, ok).successes, h.quarantine = Health(r, ok).quarantine
               PROVE  Counts(h)'
    OBVIOUS
  <1> DEFINE n == Len(results)
             x == [ok |-> ok, at |-> proxyTime]
  <1>1. x \in ProxyResult /\ x.ok = ok /\ x.at = proxyTime /\ proxyTime \in Nat \ {0}
    BY DEF ProxyTyped, ProxyResult
  <1> HIDE DEF x
  <1>2. results' = Append(results, x)
    BY DEF x
  <1>3. /\ n \in Nat /\ Len(results') = n + 1 /\ DOMAIN results = 1..n /\ DOMAIN results' = 1..(n + 1)
        /\ results'[n + 1] = x
        /\ \A i \in 1..n : /\ results'[i] = results[i]
                           /\ results[i].at \in Nat
                           /\ Trips(i)' <=> Trips(i)
                           /\ Served(i) => Served(i)'
    BY <1>1, <1>2, AppendServed
  <1>4. /\ r.failures \in Nat /\ r.successes \in Nat /\ r.quarantine \in Nat
        /\ h.failures \in Nat /\ h.successes \in Nat /\ h.quarantine \in Nat
    BY DEF ProxyRecord
  <1>5. /\ ok => /\ h.failures = 0
                 /\ \/ h.quarantine = r.quarantine /\ h.successes = 0
                    \/ /\ r.quarantine = 0 \/ proxyTime >= r.quarantine
                       /\ h.quarantine = IF r.successes >= 1 THEN 0 ELSE r.quarantine
        /\ ~ok => /\ h.failures = r.failures + 1 /\ h.successes = 0
                  /\ h.failures < FailThreshold => h.quarantine = r.quarantine
                  /\ h.failures >= FailThreshold =>
                        h.quarantine # 0 /\ h.quarantine >= proxyTime + BaseCooldown
    BY HealthFacts
  <1> HIDE DEF n
  <1>6. /\ r.failures <= n
        /\ \A j \in (n - r.failures + 1)..n : ~results[j].ok
        /\ r.failures = n \/ results[n - r.failures].ok
        /\ \A j \in 1..n : results[j].at <= proxyTime
        /\ r.quarantine # 0 /\ r.successes >= 1 => n >= 1 /\ results[n].ok /\ results[n].at >= r.quarantine
        /\ \A i \in 1..n : Trips(i) => Served(i) \/ (r.quarantine # 0 /\ r.quarantine >= results[i].at + BaseCooldown)
    BY DEF Counts, n
  <1>7. /\ h.failures <= n + 1
        /\ \A j \in ((n + 1) - h.failures + 1)..(n + 1) : ~results'[j].ok
        /\ h.failures = n + 1 \/ results'[(n + 1) - h.failures].ok
    <2>1. CASE ok
      <3>0. h.failures = 0
        BY <1>5, <2>1
      <3>a. (n + 1) - h.failures = n + 1
        BY <1>3, <3>0
      <3>b. results'[n + 1].ok
        BY <1>1, <1>3, <2>1
      <3>1. h.failures = 0 /\ (n + 1) - h.failures = n + 1 /\ results'[n + 1].ok
        BY <3>0, <3>a, <3>b
      <3>2. \A j \in ((n + 1) - h.failures + 1)..(n + 1) : FALSE
        BY <1>3, <3>1
      <3> QED BY <1>3, <3>1, <3>2
    <2>2. CASE ~ok
      <3>1. h.failures = r.failures + 1
        BY <1>5, <2>2
      <3>2. ASSUME NEW j \in ((n + 1) - h.failures + 1)..(n + 1) PROVE ~results'[j].ok
        <4>1. j = n + 1 \/ j \in (n - r.failures + 1)..n
          BY <1>3, <1>4, <3>1
        <4>2. j = n + 1 \/ j \in 1..n
          BY <1>3, <1>4, <1>6, <4>1
        <4> QED BY <1>1, <1>3, <1>6, <2>2, <4>1, <4>2
      <3>3. h.failures = n + 1 \/ results'[(n + 1) - h.failures].ok
        <4>1. CASE r.failures = n
          BY <3>1, <4>1
        <4>2. CASE r.failures # n
          <5>1. n - r.failures \in 1..n /\ (n + 1) - h.failures = n - r.failures
            <6>1. n \in Nat /\ r.failures \in Nat /\ r.failures <= n
              BY <1>3, <1>4, <1>6
            <6>2. n - r.failures \in 1..n
              BY <4>2, <6>1
            <6>3. \A a, b, c \in Nat : c = b + 1 => (a + 1) - c = a - b
              OBVIOUS
            <6>4. (n + 1) - h.failures = n - r.failures
              BY <1>4, <3>1, <6>1, <6>3
            <6> QED BY <6>2, <6>4
          <5>2. results'[n - r.failures] = results[n - r.failures]
            BY <1>3, <5>1
          <5>3. results[n - r.failures].ok
            BY <1>6, <4>2
          <5> QED BY <5>1, <5>2, <5>3
        <4> QED BY <4>1, <4>2
      <3>4. h.failures <= n + 1
        BY <1>3, <1>4, <1>6, <3>1
      <3> QED BY <3>2, <3>3, <3>4
    <2> QED BY <2>1, <2>2
  <1>8. \A j \in 1..(n + 1) : results'[j].at <= proxyTime'
    <2> SUFFICES ASSUME NEW j \in 1..(n + 1) PROVE results'[j].at <= proxyTime
      OBVIOUS
    <2>1. j = n + 1 \/ j \in 1..n
      BY <1>3
    <2> QED BY <1>1, <1>3, <1>6, <2>1
  <1>9. h.quarantine # 0 /\ h.successes >= 1 =>
           n + 1 >= 1 /\ results'[n + 1].ok /\ results'[n + 1].at >= h.quarantine
    BY <1>1, <1>3, <1>4, <1>5
  <1>10. ASSUME NEW i \in 1..(n + 1), Trips(i)'
         PROVE  Served(i)' \/ (h.quarantine # 0 /\ h.quarantine >= results'[i].at + BaseCooldown)
    <2>1. CASE i = n + 1
      <3>1. ~ok /\ i >= FailThreshold /\ \A j \in (i - FailThreshold + 1)..i : ~results'[j].ok
        <4>1. i \in (i - FailThreshold + 1)..i
          BY <1>3, <2>1, CooldownsOrdered
        <4> QED BY <1>1, <1>3, <1>10, <2>1, <4>1 DEF Trips
      <3>2. h.failures >= FailThreshold
        <4> SUFFICES ASSUME h.failures < FailThreshold PROVE FALSE
          BY <1>4, CooldownsOrdered
        <4>1. h.failures # n + 1 /\ (n + 1) - h.failures \in (i - FailThreshold + 1)..i
          BY <1>3, <1>4, <1>7, <2>1, <3>1, CooldownsOrdered
        <4> QED BY <1>7, <3>1, <4>1
      <3> QED BY <1>1, <1>3, <1>5, <2>1, <3>1, <3>2
    <2>2. CASE i # n + 1
      <3>1. i \in 1..n /\ Trips(i) /\ results'[i] = results[i] /\ results[i].at \in Nat
            /\ (Served(i) => Served(i)') /\ results[i].at <= proxyTime
        BY <1>3, <1>6, <1>10, <2>2
      <3>2. CASE Served(i)
        BY <3>1, <3>2
      <3>3. CASE ~Served(i)
        <4>1. r.quarantine # 0 /\ r.quarantine >= results[i].at + BaseCooldown
          BY <1>6, <3>1, <3>3
        <4>2. CASE h.quarantine = r.quarantine
          BY <3>1, <4>1, <4>2
        <4>3. CASE ~ok /\ h.failures >= FailThreshold
          <5>1. results'[i].at \in Nat /\ results'[i].at <= proxyTime
            BY <3>1
          <5>2. h.quarantine # 0 /\ h.quarantine >= proxyTime + BaseCooldown
            BY <1>5, <4>3
          <5>3. \A a, b, c, d \in Nat : a <= b /\ d >= b + c => d >= a + c
            OBVIOUS
          <5>4. h.quarantine >= results'[i].at + BaseCooldown
            BY <1>1, <1>4, <5>1, <5>2, <5>3, CooldownsOrdered
          <5> QED BY <5>2, <5>4
        <4>4. CASE ok /\ h.quarantine # r.quarantine
          <5>1. r.successes >= 1 /\ proxyTime >= r.quarantine
            BY <1>1, <1>4, <1>5, <4>1, <4>4
          <5>2. n >= 1 /\ results[n].ok /\ results[n].at >= r.quarantine
            BY <1>6, <4>1, <5>1
          <5>3. i # n
            <6>1. n \in (n - FailThreshold + 1)..n
              BY <1>3, CooldownsOrdered
            <6> QED BY <3>1, <5>2, <6>1 DEF Trips
          <5>4. n \in 1..n /\ n \in (i + 1)..((n + 1) - 1) /\ results[n].at \in Nat
            BY <1>3, <3>1, <5>2, <5>3
          <5>5. results'[n] = results[n] /\ results'[i] = results[i] /\ results'[n + 1].ok
            BY <1>1, <1>3, <3>1, <4>4, <5>4
          <5>6. results[n].at >= results[i].at + BaseCooldown
            <6>1. \A a, b, c, d \in Nat : a >= b /\ b >= c + d => a >= c + d
              OBVIOUS
            <6>2. results[i].at \in Nat /\ r.quarantine >= results[i].at + BaseCooldown
              BY <3>1, <4>1
            <6> QED BY <1>4, <5>2, <5>4, <6>1, <6>2, CooldownsOrdered
          <5>7. results'[n].ok /\ results'[n + 1].ok /\ results'[n].at >= results'[i].at + BaseCooldown
            BY <5>2, <5>5, <5>6
          <5> QED BY <1>3, <5>4, <5>7 DEF Served
        <4>5. ~ok => h.quarantine = r.quarantine \/ h.failures >= FailThreshold
          <5>1. h.failures < FailThreshold \/ h.failures >= FailThreshold
            BY <1>4, CooldownsOrdered
          <5> QED BY <1>5, <5>1
        <4> QED BY <4>2, <4>3, <4>4, <4>5
      <3> QED BY <3>2, <3>3
    <2> QED BY <2>1, <2>2
  <1> QED BY <1>3, <1>7, <1>8, <1>9, <1>10 DEF Counts

\* The pool begins with a record that was never checked.
LEMMA ProxyInitial == ProxyInit => ProxyInv
  <1> SUFFICES ASSUME ProxyInit PROVE ProxyInv
    OBVIOUS
  <1>1. PICK s \in Servers : record = Created(s)
    BY DEF ProxyInit
  <1>2. record \in ProxyRecord /\ record.last = "none" /\ record.failures = 0 /\ record.quarantine = 0
    BY <1>1 DEF Created, ProxyRecord
  <1>3. IdleCheck \in ProxyCheck /\ IdleCheck.phase = "idle" /\ IdleCheck.socket # "open" /\ ~IdleCheck.seen.exists
    BY DEF IdleCheck, ProxyCheck, ProxyPhases, NoRecord
  <1>4. \A k \in Checks : check[k] = IdleCheck
    BY DEF ProxyInit
  <1>5. ProxyTyped
    <2>1. check \in [Checks -> ProxyCheck]
      BY <1>3 DEF ProxyInit
    <2>2. results \in Seq(ProxyResult)
      BY DEF ProxyInit
    <2>3. \A k \in Checks : check[k].phase = "idle"
      BY <1>3, <1>4
    <2>4. proxyTime = 1 /\ overlap = FALSE
      BY DEF ProxyInit
    <2>5. proxyTime \in Nat \ {0}
      BY <2>4
    <2>6. overlap \in BOOLEAN
      BY <2>4
    <2> QED BY <1>2, <2>1, <2>2, <2>3, <2>5, <2>6 DEF ProxyTyped
  <1>6. Counts(record)
    <2>1. results = << >> /\ Len(results) = 0
      BY DEF ProxyInit
    <2> HIDE DEF ProxyInit
    <2> QED BY <1>2, <2>1 DEF Counts
  <1>7. Honest(record) /\ \A k \in Checks : Honest(check[k].seen)
    BY <1>2, <1>3, <1>4 DEF Honest
  <1> QED BY <1>3, <1>4, <1>5, <1>6, <1>7 DEF ProxyInv, OneChecker, SocketsClosed

\* The steps of a check before it writes change what it knows, nothing else.
LEMMA CheckMoves ==
  ASSUME ProxyInv, NEW k \in Checks, NEW c \in ProxyCheck, check' = [check EXCEPT ![k] = c],
         check[k].phase # "idle", c.phase # "idle", c.seen = check[k].seen,
         c.phase = "write" => c.socket # "open",
         record' = record, proxyTime' = proxyTime, results' = results, overlap' = overlap
  PROVE  ProxyInv'
  <1>1. check'[k] = c /\ \A m \in Checks : m # k => check'[m] = check[m]
    BY DEF ProxyInv, ProxyTyped
  <1>2. \A m \in Checks : check'[m].phase # "idle" <=> check[m].phase # "idle"
    BY <1>1
  <1>3. \A m \in Checks : check'[m].seen = check[m].seen
    BY <1>1
  <1>4. ProxyTyped'
    <2>1. check' \in [Checks -> ProxyCheck]
      BY DEF ProxyInv, ProxyTyped
    <2> QED BY <1>2, <1>3, <2>1 DEF ProxyInv, ProxyTyped
  <1>5. OneChecker' /\ Honest(record)' /\ \A m \in Checks : Honest(check[m].seen)'
    BY <1>2, <1>3 DEF ProxyInv, OneChecker, Honest
  <1>6. SocketsClosed'
    BY <1>1 DEF ProxyInv, SocketsClosed
  <1>7. ~overlap' /\ record'.exists => Counts(record)'
    BY DEF ProxyInv, Counts, Trips, Served
  <1> QED BY <1>4, <1>5, <1>6, <1>7 DEF ProxyInv

\* Every step of the pool, of its checks and of the clock keeps the invariant.
LEMMA ProxyStep == ASSUME ProxyInv, [ProxyNext]_proxyVars PROVE ProxyInv'
  <1>0. /\ ProxyTyped /\ OneChecker
        /\ \A k \in Checks : check[k] \in ProxyCheck
    BY DEF ProxyInv, ProxyTyped
  <1>1. ASSUME NEW s \in Servers, NEW e \in BOOLEAN, UpdateProxy(s, e) PROVE ProxyInv'
    <2>1. /\ record.exists /\ record \in ProxyRecord /\ check' = check /\ proxyTime' = proxyTime
          /\ overlap' = (overlap \/ UnderWay # {})
      BY <1>1 DEF UpdateProxy, ProxyInv, ProxyTyped, NoRecord
    <2>2. overlap' \in BOOLEAN /\ (~overlap' => ~overlap /\ \A k \in Checks : check[k].phase = "idle")
      BY <2>1 DEF UnderWay, ProxyInv, ProxyTyped
    <2>3. CASE s = record.server
      <3>1. record' = [record EXCEPT !.enabled = e] /\ results' = results
        BY <1>1, <2>3 DEF UpdateProxy
      <3>2. /\ record' \in ProxyRecord /\ record'.failures = record.failures /\ record'.exists
            /\ record'.successes = record.successes /\ record'.quarantine = record.quarantine
            /\ record'.last = record.last /\ record'.checkedAt = record.checkedAt /\ record'.server = record.server
        BY <2>1, <3>1 DEF ProxyRecord
      <3>3. ProxyTyped' /\ SocketsClosed'
        BY <2>1, <2>2, <3>1, <3>2 DEF ProxyInv, ProxyTyped, SocketsClosed
      <3>4. Honest(record)' /\ \A k \in Checks : Honest(check[k].seen)'
        BY <2>1, <3>2 DEF ProxyInv, Honest
      <3>5. ~overlap' => Counts(record)'
        <4>1. ~overlap' => Counts(record)
          BY <2>1, <2>2 DEF ProxyInv
        <4> QED BY <2>1, <3>1, <3>2, <4>1 DEF Counts, Trips, Served
      <3> QED BY <2>1, <2>2, <3>3, <3>4, <3>5 DEF ProxyInv, OneChecker
    <2>4. CASE s # record.server
      <3>1. record' = [Created(s) EXCEPT !.enabled = e] /\ results' = << >>
        BY <1>1, <2>4 DEF UpdateProxy
      <3>2. /\ record' \in ProxyRecord /\ record'.failures = 0 /\ record'.exists
            /\ record'.successes = 0 /\ record'.quarantine = 0 /\ record'.last = "none"
        BY <3>1 DEF ProxyRecord, Created
      <3>3. ProxyTyped' /\ SocketsClosed'
        BY <2>1, <2>2, <3>1, <3>2 DEF ProxyInv, ProxyTyped, SocketsClosed
      <3>4. Honest(record)' /\ \A k \in Checks : Honest(check[k].seen)'
        BY <2>1, <3>2 DEF ProxyInv, Honest
      <3>5. Counts(record)'
        <4>1. Len(results') = 0
          BY <3>1
        <4> QED BY <3>2, <4>1 DEF Counts
      <3> QED BY <2>1, <2>2, <3>3, <3>4, <3>5 DEF ProxyInv, OneChecker
    <2> QED BY <2>3, <2>4
  <1>2. CASE Delete
    <2>1. /\ record' = NoRecord /\ overlap' = (overlap \/ UnderWay # {})
          /\ UNCHANGED <<check, proxyTime, results>>
      BY <1>2 DEF Delete
    <2>2. overlap' \in BOOLEAN /\ (~overlap' => \A k \in Checks : check[k].phase = "idle")
      BY <2>1 DEF UnderWay, ProxyInv, ProxyTyped
    <2>3. ~record'.exists
      BY <2>1 DEF NoRecord
    <2> QED BY <2>1, <2>2, <2>3 DEF ProxyInv, ProxyTyped, OneChecker, Honest, SocketsClosed
  <1>3. CASE ProxyTick
    <2>1. /\ proxyTime' = proxyTime + 1 /\ proxyTime \in Nat \ {0}
          /\ UNCHANGED <<record, check, overlap, results>>
      BY <1>3 DEF ProxyTick, ProxyInv, ProxyTyped
    <2>2. ProxyTyped' /\ OneChecker' /\ SocketsClosed' /\ Honest(record)' /\ \A k \in Checks : Honest(check[k].seen)'
      BY <2>1 DEF ProxyInv, ProxyTyped, OneChecker, SocketsClosed, Honest
    <2>3. ~overlap /\ record.exists => Counts(record)'
      <3>1. \A j \in 1..Len(results) : results[j].at \in Nat
        <4>1. \A j \in 1..Len(results) : results[j] \in ProxyResult
          BY DEF ProxyInv, ProxyTyped
        <4> QED BY <4>1 DEF ProxyResult
      <3>2. ASSUME Counts(record), NEW j \in 1..Len(results) PROVE results[j].at <= proxyTime'
        BY <2>1, <3>1, <3>2 DEF Counts
      <3> QED BY <2>1, <3>2 DEF ProxyInv, Counts, Trips, Served
    <2> QED BY <2>1, <2>2, <2>3 DEF ProxyInv
  <1>4. ASSUME NEW k \in Checks, CheckBegins(k) PROVE ProxyInv'
    <2> DEFINE c == [IdleCheck EXCEPT !.phase = "tcp", !.seen = record]
    <2>1. /\ check[k].phase = "idle" /\ record.exists /\ check' = [check EXCEPT ![k] = c]
          /\ overlap' = (overlap \/ UnderWay # {})
          /\ UNCHANGED <<record, proxyTime, results>>
      BY <1>4 DEF CheckBegins
    <2>2. record \in ProxyRecord
      BY <2>1 DEF ProxyInv, ProxyTyped, NoRecord
    <2>3. c \in ProxyCheck /\ c.phase = "tcp" /\ c.seen = record
      BY <2>2 DEF IdleCheck, ProxyCheck, ProxyPhases
    <2> HIDE DEF c
    <2>4. check'[k] = c /\ \A m \in Checks : m # k => check'[m] = check[m]
      BY <2>1 DEF ProxyInv, ProxyTyped
    <2>5. overlap' \in BOOLEAN /\ (~overlap' => ~overlap /\ \A m \in Checks : check[m].phase = "idle")
      BY <2>1 DEF UnderWay, ProxyInv, ProxyTyped
    <2>6. ProxyTyped'
      <3>1. check' \in [Checks -> ProxyCheck]
        BY <2>1, <2>3 DEF ProxyInv, ProxyTyped
      <3> QED BY <2>1, <2>2, <2>3, <2>4, <2>5, <3>1 DEF ProxyInv, ProxyTyped
    <2>7. OneChecker' /\ SocketsClosed'
      BY <2>1, <2>3, <2>4, <2>5 DEF ProxyInv, OneChecker, SocketsClosed
    <2>8. Honest(record)' /\ \A m \in Checks : Honest(check[m].seen)'
      BY <2>1, <2>3, <2>4 DEF ProxyInv, Honest
    <2>9. ~overlap' => Counts(record)'
      BY <2>1, <2>5 DEF ProxyInv, Counts, Trips, Served
    <2> QED BY <2>6, <2>7, <2>8, <2>9 DEF ProxyInv
  <1>5. ASSUME NEW k \in Checks, Connects(k) PROVE ProxyInv'
    <2> DEFINE c == [check[k] EXCEPT !.phase = "tunnel", !.socket = "open", !.connected = TRUE]
               d == [check[k] EXCEPT !.phase = "finally"]
    <2>1. /\ check[k].phase = "tcp" /\ UNCHANGED <<record, proxyTime, results, overlap>>
          /\ check' = [check EXCEPT ![k] = c] \/ check' = [check EXCEPT ![k] = d]
      BY <1>5 DEF Connects
    <2>2. /\ c \in ProxyCheck /\ c.phase = "tunnel" /\ c.seen = check[k].seen
          /\ d \in ProxyCheck /\ d.phase = "finally" /\ d.seen = check[k].seen
      BY <1>0 DEF ProxyCheck, ProxyPhases
    <2> HIDE DEF c, d
    <2> QED BY <2>1, <2>2, CheckMoves
  <1>6. ASSUME NEW k \in Checks, Proceeds(k) PROVE ProxyInv'
    <2> DEFINE next == NextPhase[check[k].phase]
               socket == IF check[k].phase = "tunnel" THEN "closed" ELSE check[k].socket
               c == [check[k] EXCEPT !.phase = next]
               d == [check[k] EXCEPT !.phase = "finally", !.socket = socket]
    <2>1. /\ check[k].phase \in {"tunnel", "tls", "request"} /\ UNCHANGED <<record, proxyTime, results, overlap>>
          /\ check' = [check EXCEPT ![k] = c] \/ check' = [check EXCEPT ![k] = d]
      BY <1>6 DEF Proceeds
    <2>2. next \in {"tls", "request", "finally"} /\ socket \in {"none", "open", "closed"}
      BY <1>0, <2>1 DEF NextPhase, ProxyCheck
    <2> HIDE DEF next, socket
    <2>3. /\ c \in ProxyCheck /\ c.phase = next /\ c.seen = check[k].seen
          /\ d \in ProxyCheck /\ d.phase = "finally" /\ d.seen = check[k].seen
      BY <1>0, <2>2 DEF ProxyCheck, ProxyPhases
    <2> HIDE DEF c, d
    <2>4. check[k].phase # "idle" /\ next # "idle" /\ next # "write"
      BY <2>1, <2>2
    <2> QED BY <2>1, <2>3, <2>4, CheckMoves
  <1>7. ASSUME NEW k \in Checks, Closes(k) PROVE ProxyInv'
    <2> DEFINE socket == IF check[k].socket = "open" THEN "closed" ELSE check[k].socket
               c == [check[k] EXCEPT !.phase = "write", !.socket = socket]
    <2>1. /\ check[k].phase = "finally" /\ UNCHANGED <<record, proxyTime, results, overlap>>
          /\ check' = [check EXCEPT ![k] = c]
      BY <1>7 DEF Closes
    <2>2. socket \in {"none", "closed"}
      BY <1>0 DEF ProxyCheck
    <2> HIDE DEF socket
    <2>3. c \in ProxyCheck /\ c.phase = "write" /\ c.seen = check[k].seen /\ c.socket # "open"
      BY <1>0, <2>2 DEF ProxyCheck, ProxyPhases
    <2> HIDE DEF c
    <2> QED BY <2>1, <2>3, CheckMoves
  <1>8. ASSUME NEW k \in Checks, CheckEnds(k) PROVE ProxyInv'
    <2> DEFINE w == Written(k)
               ok == check[k].connected
    <2>1. /\ check[k].phase = "write" /\ record' = w /\ UNCHANGED <<proxyTime, overlap>>
          /\ results' = IF overlap THEN << >> ELSE Append(results, [ok |-> ok, at |-> proxyTime])
          /\ check' = [check EXCEPT ![k] = IdleCheck]
      BY <1>8 DEF CheckEnds, ProxyInv, SocketsClosed
    <2>2. ok \in BOOLEAN /\ check[k].seen \in ProxyRecord
      BY <2>1 DEF ProxyInv, ProxyTyped, ProxyCheck
    <2>3. /\ w \in ProxyRecord /\ Honest(w)
          /\ w.failures = Health(check[k].seen, ok).failures
          /\ w.successes = Health(check[k].seen, ok).successes
          /\ w.quarantine = Health(check[k].seen, ok).quarantine
      BY <1>0, <2>1, WrittenFacts
    <2>4. IdleCheck \in ProxyCheck /\ IdleCheck.phase = "idle" /\ IdleCheck.socket # "open" /\ ~IdleCheck.seen.exists
      BY DEF IdleCheck, ProxyCheck, ProxyPhases, NoRecord
    <2>5. check'[k] = IdleCheck /\ \A m \in Checks : m # k => check'[m] = check[m]
      BY <2>1 DEF ProxyInv, ProxyTyped
    <2> HIDE DEF w, ok
    <2>6. results' \in Seq(ProxyResult)
      <3>1. [ok |-> ok, at |-> proxyTime] \in ProxyResult
        BY <2>2 DEF ProxyInv, ProxyTyped, ProxyResult
      <3>2. CASE overlap
        BY <2>1, <3>2
      <3>3. CASE ~overlap
        BY <1>0, <2>1, <3>1, <3>3, AppendServed
      <3> QED BY <3>2, <3>3
    <2>7. ProxyTyped'
      <3>1. check' \in [Checks -> ProxyCheck]
        BY <2>1, <2>4 DEF ProxyInv, ProxyTyped
      <3> QED BY <2>1, <2>3, <2>4, <2>5, <2>6, <3>1 DEF ProxyInv, ProxyTyped
    <2>8. SocketsClosed' /\ Honest(record)' /\ \A m \in Checks : Honest(check[m].seen)'
      BY <2>1, <2>3, <2>4, <2>5 DEF ProxyInv, SocketsClosed, Honest
    <2>9. OneChecker'
      BY <2>1, <2>4, <2>5 DEF ProxyInv, OneChecker
    <2>10. ~overlap' => Counts(record)'
      <3> SUFFICES ASSUME ~overlap PROVE Counts(record)'
        BY <2>1
      <3>1. record = check[k].seen /\ record \in ProxyRecord /\ Counts(record)
        <4>1. record = check[k].seen /\ record.exists
          BY <2>1, <2>2 DEF ProxyInv, OneChecker, ProxyRecord
        <4> QED BY <2>2, <4>1 DEF ProxyInv
      <3>2. results' = Append(results, [ok |-> ok, at |-> proxyTime])
        BY <2>1
      <3>3. /\ w.failures = Health(record, ok).failures
            /\ w.successes = Health(record, ok).successes
            /\ w.quarantine = Health(record, ok).quarantine
        BY <2>3, <3>1
      <3>4. \A h \in ProxyRecord : /\ h.failures = Health(record, ok).failures
                                   /\ h.successes = Health(record, ok).successes
                                   /\ h.quarantine = Health(record, ok).quarantine
                                   => Counts(h)'
        BY <1>0, <2>1, <2>2, <3>1, <3>2, WriteCounts
      <3>5. PICK h \in ProxyRecord : h = w
        BY <2>3
      <3>6. Counts(h)' /\ h = record'
        BY <2>1, <3>3, <3>4, <3>5
      <3> QED BY <3>6 DEF Counts
    <2> QED BY <2>7, <2>8, <2>9, <2>10 DEF ProxyInv
  <1>9. CASE UNCHANGED proxyVars
    BY <1>9 DEF proxyVars, ProxyInv, ProxyTyped, OneChecker, SocketsClosed, Honest, Counts, Trips, Served
  <1> QED BY <1>1, <1>2, <1>3, <1>4, <1>5, <1>6, <1>7, <1>8, <1>9 DEF ProxyNext

\* For any number of checks, servers, results and edits, and any threshold and
\* cooldowns: a proxy is offered only as it was found at the server it has now,
\* only after its quarantine, and a finished check leaves no socket open.
THEOREM ProxyChecksHold == ProxySpec => []ChecksHold
  <1>1. ProxyInv /\ [ProxyNext]_proxyVars => ProxyInv'
    BY ProxyStep
  <1> QED BY <1>1, ProxyInitial, ProxyInvHolds, PTL DEF ProxySpec

-------------------------------------------------------------------------------
(* The profile.  What the head of the queue read stays what the file says, *)
(* and whatever a restoration could bring back has the identity of the     *)
(* first committed start.                                                  *)

ProfileFile == [exists : {TRUE}, persona : Personas, gpu : {"none", "detected"},
                committed : {"unset", "no", "yes"}, plain : BOOLEAN]
StoreOps == ({"update"} \X (Personas \cup {"same"})) \cup {<<"start">>}
StorePhases == {"idle", "read", "start", "gpu", "launch", "commit", "mark"}

StoreTyped ==
    /\ meta \in ProfileFile \cup {NoProfileFile}
    /\ seen \in ProfileFile \cup {NoProfileFile}
    /\ reader \in ProfileFile \cup {NoProfileFile}
    /\ trash \in Seq(ProfileFile)
    /\ queue \in Seq(StoreOps)
    /\ phase \in StorePhases
    /\ phase # "idle" => queue # << >>
    /\ phase \in {"read", "gpu", "mark"} => seen.exists
    /\ cookies \in BOOLEAN /\ legacy \in BOOLEAN

\* The copy a restoration would bring back, or the file itself: the operations of
\* the queue write what they read in it, the others only move it.
Holds(m) ==
    \/ meta.exists /\ m = meta
    \/ ~meta.exists /\ trash # << >> /\ m = trash[Len(trash)]

\* Without secrets in plain text nothing is migrated outside the queue.
NothingPlain ==
    /\ ~reader.exists
    /\ meta.exists => ~meta.plain
    /\ seen.exists => ~seen.plain
    /\ \A i \in DOMAIN trash : ~trash[i].plain

\* What the head of the queue read is the file, if there is still one.
ReadsCurrent ==
    phase \in {"read", "gpu", "mark"} => \A m \in ProfileFile : Holds(m) => m = seen

\* The start runs with the identity of the file.
RunsWithIt ==
    /\ phase \in {"launch", "commit"} => \A m \in ProfileFile : Holds(m) => Identity(m) = running
    /\ phase = "mark" => Identity(seen) = running

\* After the first committed start nothing that counts as the profile is free to
\* change its identity.
Frozen(m) == Identity(m) = admitted /\ m.committed # "no"
AdmittedFrozen ==
    admitted # << >> =>
       /\ cookies
       /\ \A m \in ProfileFile : Holds(m) => Frozen(m)
       /\ phase \in {"read", "gpu", "mark"} => Frozen(seen)
       /\ phase \in {"launch", "commit"} => running = admitted

StoreInv ==
    /\ StoreTyped
    /\ ~legacy => NothingPlain /\ ReadsCurrent /\ RunsWithIt /\ AdmittedFrozen

-------------------------------------------------------------------------------
\* The file itself has the identity of the first start.
LEMMA FrozenFile == StoreInv => PersonaFrozen
  <1> SUFFICES ASSUME StoreInv, ~legacy, admitted # << >>, meta.exists PROVE Identity(meta) = admitted
    BY DEF PersonaFrozen
  <1>1. meta \in ProfileFile
    BY DEF StoreInv, StoreTyped, NoProfileFile
  <1> QED BY <1>1 DEF StoreInv, AdmittedFrozen, Holds, Frozen

\* A file that is written back keeps its identity and its mark.
LEMMA SavedFacts ==
  ASSUME NEW m \in ProfileFile
  PROVE  Saved(m) \in ProfileFile /\ ~Saved(m).plain /\ Identity(Saved(m)) = Identity(m) /\ Saved(m).committed = m.committed
  BY DEF ProfileFile, Saved, Identity

\* What existed was a file.
LEMMA FileFacts ==
  ASSUME StoreTyped
  PROVE  /\ meta.exists => meta \in ProfileFile
         /\ seen.exists => seen \in ProfileFile
         /\ reader.exists => reader \in ProfileFile
         /\ trash # << >> => trash[Len(trash)] \in ProfileFile
         /\ \A m \in ProfileFile : m.exists
         /\ ~NoProfileFile.exists
  <1>1. ~NoProfileFile.exists /\ \A m \in ProfileFile : m.exists
    BY DEF NoProfileFile, ProfileFile
  <1>2. trash # << >> => trash[Len(trash)] \in ProfileFile
    <2> SUFFICES ASSUME trash # << >> PROVE trash[Len(trash)] \in ProfileFile
      OBVIOUS
    <2>1. trash \in Seq(ProfileFile) /\ Len(trash) \in 1..Len(trash)
      BY DEF StoreTyped
    <2> QED BY <2>1
  <1> QED BY <1>1, <1>2 DEF StoreTyped

\* A profile begins without a mark of this version, and nothing has been started.
LEMMA StoreInitial == StoreInit => StoreInv
  <1> SUFFICES ASSUME StoreInit PROVE StoreInv
    OBVIOUS
  <1>1. PICK p \in Personas, c \in {"unset", "no"} : meta = Metadata(p, "none", c, legacy)
    BY DEF StoreInit
  <1>2. meta \in ProfileFile /\ meta.plain = legacy
    BY <1>1 DEF StoreInit, Metadata, ProfileFile
  <1>3. StoreTyped
    BY <1>2 DEF StoreInit, StoreTyped, StorePhases
  <1> QED BY <1>2, <1>3
          DEF StoreInit, StoreInv, NothingPlain, ReadsCurrent, RunsWithIt, AdmittedFrozen, NoProfileFile

\* A step that only moves the file, or does not touch it, and leaves the head of
\* the queue where it is.
LEMMA MovesKeepStore ==
  ASSUME StoreInv, StoreTyped', NothingPlain => NothingPlain',
         UNCHANGED <<cookies, phase, seen, running, admitted, legacy>>,
         \A m \in ProfileFile : Holds(m)' => Holds(m)
  PROVE  StoreInv'
  <1> SUFFICES ASSUME ~legacy PROVE NothingPlain' /\ ReadsCurrent' /\ RunsWithIt' /\ AdmittedFrozen'
    BY DEF StoreInv
  <1>1. NothingPlain'
    BY DEF StoreInv
  <1>2. ReadsCurrent' /\ RunsWithIt'
    BY DEF StoreInv, ReadsCurrent, RunsWithIt
  <1>3. AdmittedFrozen'
    BY DEF StoreInv, AdmittedFrozen, Frozen, Identity
  <1> QED BY <1>1, <1>2, <1>3

\* Operations enter the queue.
LEMMA SubmitKeepsStore ==
  ASSUME StoreInv, NEW o \in StoreOps, SubmitOp(o) PROVE StoreInv'
  <1>1. queue' \in Seq(StoreOps) /\ queue' # << >>
    BY DEF SubmitOp, StoreInv, StoreTyped
  <1>2. UNCHANGED <<meta, cookies, trash, phase, seen, reader, running, admitted, legacy>>
    BY DEF SubmitOp
  <1>3. StoreTyped'
    BY <1>1, <1>2 DEF StoreInv, StoreTyped
  <1>4. \A m \in ProfileFile : Holds(m)' => Holds(m)
    BY <1>2 DEF Holds
  <1> QED BY <1>2, <1>3, <1>4, MovesKeepStore DEF NothingPlain

\* Without secrets in plain text a read migrates nothing.
LEMMA ReaderKeepsStore ==
  ASSUME StoreInv, Reads \/ Migrates PROVE StoreInv'
  <1>1. StoreTyped'
    <2>1. CASE Reads
      BY <2>1 DEF Reads, StoreInv, StoreTyped
    <2>2. CASE Migrates
      BY <2>2, FileFacts, SavedFacts DEF Migrates, StoreInv, StoreTyped
    <2> QED BY <2>1, <2>2
  <1>2. legacy /\ legacy' = legacy
    BY DEF Reads, Migrates, StoreInv, NothingPlain
  <1> QED BY <1>1, <1>2 DEF StoreInv

\* The file moves to the trash and back, or is lost there.
LEMMA TrashKeepsStore ==
  ASSUME StoreInv, DeleteProfile \/ RestoreProfile \/ Purge PROVE StoreInv'
  <1>1. UNCHANGED <<cookies, phase, seen, reader, running, admitted, legacy>>
    BY DEF DeleteProfile, RestoreProfile, Purge
  <1>2. CASE DeleteProfile
    <2>1. meta \in ProfileFile /\ trash' = Append(trash, meta) /\ meta' = NoProfileFile /\ queue' = queue
      BY <1>2, FileFacts DEF DeleteProfile, StoreInv
    <2>2. /\ trash' \in Seq(ProfileFile) /\ Len(trash') = Len(trash) + 1 /\ trash'[Len(trash')] = meta
          /\ \A i \in DOMAIN trash' : trash'[i] \in {meta} \cup {trash[k] : k \in DOMAIN trash}
      BY <2>1 DEF StoreInv, StoreTyped
    <2>3. StoreTyped'
      BY <1>1, <2>1, <2>2 DEF StoreInv, StoreTyped
    <2>4. \A m \in ProfileFile : Holds(m)' => Holds(m)
      BY <1>2, <2>1, <2>2, FileFacts DEF DeleteProfile, Holds, StoreInv
    <2>5. NothingPlain => NothingPlain'
      BY <1>1, <1>2, <2>1, <2>2, FileFacts DEF NothingPlain, DeleteProfile, StoreInv
    <2> QED BY <1>1, <2>3, <2>4, <2>5, MovesKeepStore
  <1>3. CASE RestoreProfile
    <2>1. trash \in Seq(ProfileFile) /\ trash # << >> /\ meta' = trash[Len(trash)] /\ meta' \in ProfileFile
      BY <1>3, FileFacts DEF RestoreProfile, Latest, StoreInv, StoreTyped
    <2>2. trash' \in Seq(ProfileFile) /\ \A i \in DOMAIN trash' : trash'[i] = trash[i] /\ i \in DOMAIN trash
      <3>1. Len(trash) \in Nat \ {0}
        BY <2>1
      <3>2. trash' = [i \in 1..(Len(trash) - 1) |-> trash[i]]
        BY <1>3, <3>1 DEF RestoreProfile, Latest
      <3> QED BY <2>1, <3>1, <3>2
    <2>3. queue' \in Seq(StoreOps) /\ queue' # << >>
      BY <1>3 DEF RestoreProfile, StoreOps, StoreInv, StoreTyped
    <2>4. StoreTyped'
      BY <1>1, <2>1, <2>2, <2>3 DEF StoreInv, StoreTyped
    <2>5. \A m \in ProfileFile : Holds(m)' => Holds(m)
      BY <1>3, <2>1, FileFacts DEF RestoreProfile, Holds, StoreInv
    <2>6. NothingPlain => NothingPlain'
      BY <1>1, <2>1, <2>2 DEF NothingPlain
    <2> QED BY <1>1, <2>4, <2>5, <2>6, MovesKeepStore
  <1>4. CASE Purge
    <2>1. StoreTyped'
      BY <1>1, <1>4 DEF Purge, StoreInv, StoreTyped
    <2>2. \A m \in ProfileFile : Holds(m)' => Holds(m)
      BY <1>4 DEF Purge, Holds
    <2>3. NothingPlain => NothingPlain'
      BY <1>1, <1>4 DEF Purge, NothingPlain
    <2> QED BY <1>1, <2>1, <2>2, <2>3, MovesKeepStore
  <1> QED BY <1>2, <1>3, <1>4

-------------------------------------------------------------------------------
\* The head of the queue leaves.
LEMMA LeaveFacts ==
  ASSUME StoreTyped, queue # << >>, Leave
  PROVE  queue' \in Seq(StoreOps) /\ phase' = "idle" /\ seen' = NoProfileFile
  BY DEF StoreTyped, Leave

\* The head of the queue writes the file: what it writes comes from what it read.
\* If a start was committed before, it keeps that identity.
LEMMA WriteKeepsStore ==
  ASSUME StoreInv, ~legacy, NEW m \in ProfileFile, ~m.plain, meta' = m,
         UNCHANGED <<trash, reader>>,
         admitted' # << >> => cookies' /\ Frozen(m)',
         phase' \in {"idle", "start", "launch"},
         phase' = "launch" => Identity(m) = running' /\ (admitted' # << >> => running' = admitted'),
         seen' \in {seen, NoProfileFile}
  PROVE  NothingPlain' /\ ReadsCurrent' /\ RunsWithIt' /\ AdmittedFrozen'
  <1>1. \A o \in ProfileFile : Holds(o)' => o = m
    BY FileFacts DEF Holds, StoreInv
  <1>2. NothingPlain'
    BY FileFacts DEF NothingPlain, StoreInv
  <1> QED BY <1>1, <1>2 DEF ReadsCurrent, RunsWithIt, AdmittedFrozen, Frozen, Identity

\* The head of the queue goes on without writing; what it read last is the file,
\* or it is done with what it read.
LEMMA AdvanceKeepsStore ==
  ASSUME StoreInv, ~legacy, UNCHANGED <<meta, trash, cookies, reader, admitted>>,
         \/ phase' \in {"idle", "start"} /\ seen' \in {seen, NoProfileFile}
         \/ /\ phase' \in {"read", "gpu", "mark"} /\ meta.exists /\ seen' = meta
            /\ phase' = "mark" => phase = "commit" /\ running' = running
         \/ /\ phase' \in {"launch", "commit"} /\ seen' = seen
            /\ \/ phase = "launch" /\ running' = running
               \/ phase = "gpu" /\ running' = Identity(seen)
  PROVE  NothingPlain' /\ ReadsCurrent' /\ RunsWithIt' /\ AdmittedFrozen'
  <1>1. \A m \in ProfileFile : Holds(m)' <=> Holds(m)
    BY DEF Holds
  <1>2. meta.exists => meta \in ProfileFile /\ Holds(meta) /\ \A m \in ProfileFile : Holds(m) => m = meta
    BY FileFacts DEF StoreInv, Holds
  <1>3. NothingPlain'
    BY FileFacts DEF NothingPlain, StoreInv
  <1>4. ReadsCurrent'
    BY <1>1, <1>2, FileFacts DEF ReadsCurrent, StoreInv
  <1>5. RunsWithIt'
    BY <1>1, <1>2 DEF RunsWithIt, ReadsCurrent, StoreInv, Identity
  <1>6. AdmittedFrozen'
    BY <1>1, <1>2 DEF AdmittedFrozen, Frozen, StoreInv, Identity
  <1> QED BY <1>3, <1>4, <1>5, <1>6

\* The head of the queue reads the file and goes on, or ends.
LEMMA ReadingKeepsStore ==
  ASSUME StoreInv, OpBegins \/ ReadsAgain \/ Launches PROVE StoreInv'
  <1>1. UNCHANGED <<meta, trash, cookies, reader, admitted, legacy>>
    BY DEF OpBegins, ReadsAgain, Launches
  <1>2. queue # << >>
    BY DEF OpBegins, ReadsAgain, Launches, StoreInv, StoreTyped
  <1>3. \/ Leave
        \/ /\ phase' \in {"read", "gpu", "mark"} /\ meta.exists /\ seen' = meta /\ queue' = queue
           /\ phase' = "mark" => phase = "commit" /\ running' = running
        \/ phase = "launch" /\ phase' = "commit" /\ UNCHANGED <<queue, seen, running>>
    BY DEF OpBegins, ReadsAgain, Launches
  <1>4. StoreTyped'
    <2>1. CASE Leave
      BY <1>1, <1>2, <2>1, LeaveFacts DEF StoreInv, StoreTyped, StorePhases
    <2>2. CASE ~Leave
      BY <1>1, <1>2, <1>3, <2>2, FileFacts DEF StoreInv, StoreTyped, StorePhases
    <2> QED BY <2>1, <2>2
  <1>5. ~legacy => NothingPlain' /\ ReadsCurrent' /\ RunsWithIt' /\ AdmittedFrozen'
    <2> SUFFICES ASSUME ~legacy PROVE NothingPlain' /\ ReadsCurrent' /\ RunsWithIt' /\ AdmittedFrozen'
      OBVIOUS
    <2>1. CASE Leave
      BY <1>1, <1>2, <2>1, LeaveFacts, AdvanceKeepsStore DEF StoreInv
    <2>2. CASE phase' \in {"read", "gpu", "mark"} /\ meta.exists /\ seen' = meta
               /\ (phase' = "mark" => phase = "commit" /\ running' = running)
      BY <1>1, <2>2, AdvanceKeepsStore
    <2>3. CASE phase = "launch" /\ phase' = "commit" /\ UNCHANGED <<queue, seen, running>>
      BY <1>1, <2>3, AdvanceKeepsStore
    <2> QED BY <1>3, <2>1, <2>2, <2>3
  <1> QED BY <1>1, <1>4, <1>5 DEF StoreInv

\* What the head of the queue writes comes from the file it read.
LEMMA WritesWhatItRead ==
  ASSUME StoreInv, ~legacy, phase \in {"read", "gpu", "mark"}
  PROVE  /\ seen \in ProfileFile /\ (meta.exists => meta = seen)
         /\ admitted # << >> => cookies /\ Frozen(seen) /\ Committed(seen)
  <1>1. seen \in ProfileFile
    BY FileFacts DEF StoreInv, StoreTyped
  <1>2. meta.exists => meta = seen
    BY FileFacts DEF StoreInv, ReadsCurrent, Holds
  <1>3. admitted # << >> => cookies /\ Frozen(seen)
    BY DEF StoreInv, AdmittedFrozen
  <1>4. admitted # << >> => Committed(seen)
    BY <1>1, <1>3 DEF Frozen, Committed, ProfileFile
  <1> QED BY <1>1, <1>2, <1>3, <1>4

\* An update; a committed identity stays.
LEMMA UpdateKeepsStore ==
  ASSUME StoreInv, UpdateEnds
  PROVE  StoreInv' /\ LegacyStateKept
  <1> DEFINE p == IF Head(queue)[2] = "same" THEN seen.persona ELSE Head(queue)[2]
             m == Saved([seen EXCEPT !.persona = p, !.committed = IF Committed(seen) THEN "yes" ELSE "no"])
  <1>1. /\ phase = "read" /\ queue # << >> /\ Leave
        /\ UNCHANGED <<cookies, trash, reader, running, admitted, legacy>>
        /\ meta' = IF Committed(seen) /\ p # seen.persona THEN meta ELSE m
    BY DEF UpdateEnds, StoreInv, StoreTyped
  <1>2. seen \in ProfileFile
    BY <1>1, FileFacts DEF StoreInv, StoreTyped
  <1>3. p \in Personas
    <2>1. Head(queue) \in StoreOps
      BY <1>1 DEF StoreInv, StoreTyped
    <2>2. Head(queue)[1] = "update" => Head(queue)[2] \in Personas \cup {"same"}
      BY <2>1 DEF StoreOps
    <2> QED BY <1>2, <2>2 DEF UpdateEnds, ProfileFile
  <1> HIDE DEF p
  <1>4. /\ m \in ProfileFile /\ ~m.plain /\ m.persona = p /\ m.gpu = seen.gpu
        /\ m.committed = IF Committed(seen) THEN "yes" ELSE "no"
    BY <1>2, <1>3 DEF ProfileFile, Saved
  <1> HIDE DEF m
  <1>5. queue' \in Seq(StoreOps) /\ phase' = "idle" /\ seen' = NoProfileFile
    BY <1>1, LeaveFacts DEF StoreInv
  <1>6. StoreTyped'
    BY <1>1, <1>4, <1>5 DEF StoreInv, StoreTyped, StorePhases
  <1>7. ASSUME ~legacy
        PROVE  NothingPlain' /\ ReadsCurrent' /\ RunsWithIt' /\ AdmittedFrozen' /\ LegacyStateKept
    <2>1. (meta.exists => meta = seen) /\ (admitted # << >> => cookies /\ Frozen(seen) /\ Committed(seen))
      BY <1>1, <1>7, WritesWhatItRead
    <2>2. CASE meta' = meta
      BY <1>1, <1>5, <1>7, <2>2, AdvanceKeepsStore DEF LegacyStateKept
    <2>3. CASE meta' = m /\ ~(Committed(seen) /\ p # seen.persona)
      <3>1. admitted # << >> => cookies /\ Frozen(m)
        BY <1>4, <2>1, <2>3 DEF Frozen, Identity
      <3>2. NothingPlain' /\ ReadsCurrent' /\ RunsWithIt' /\ AdmittedFrozen'
        BY <1>1, <1>4, <1>5, <1>7, <2>3, <3>1, WriteKeepsStore DEF Frozen, Identity
      <3>3. LegacyStateKept
        BY <1>4, <2>1, <2>3 DEF LegacyStateKept, Committed
      <3> QED BY <3>2, <3>3
    <2> QED BY <1>1, <2>2, <2>3
  <1>8. LegacyStateKept
    BY <1>7 DEF LegacyStateKept
  <1> QED BY <1>1, <1>6, <1>7, <1>8 DEF StoreInv

\* The admission sets the mark.
LEMMA AdmissionKeepsStore ==
  ASSUME StoreInv, AdmissionOpens
  PROVE  StoreInv' /\ LegacyStateKept
  <1> DEFINE m == Saved([seen EXCEPT !.committed = IF cookies THEN "yes" ELSE "no"])
  <1>1. /\ phase = "read" /\ phase' = "start"
        /\ UNCHANGED <<cookies, trash, queue, seen, reader, running, admitted, legacy>>
        /\ \/ meta' = meta
           \/ meta' = m
    BY DEF AdmissionOpens
  <1>2. seen \in ProfileFile
    BY <1>1, FileFacts DEF StoreInv, StoreTyped
  <1>3. /\ m \in ProfileFile /\ ~m.plain /\ m.persona = seen.persona /\ m.gpu = seen.gpu
        /\ m.committed = IF cookies THEN "yes" ELSE "no"
    BY <1>2 DEF ProfileFile, Saved
  <1> HIDE DEF m
  <1>4. StoreTyped'
    BY <1>1, <1>3 DEF StoreInv, StoreTyped, StorePhases
  <1>5. ASSUME ~legacy
        PROVE  NothingPlain' /\ ReadsCurrent' /\ RunsWithIt' /\ AdmittedFrozen' /\ LegacyStateKept
    <2>1. (meta.exists => meta = seen) /\ (admitted # << >> => cookies /\ Frozen(seen))
      BY <1>1, <1>5, WritesWhatItRead
    <2>2. CASE meta' = meta
      BY <1>1, <1>5, <2>2, AdvanceKeepsStore DEF LegacyStateKept
    <2>3. CASE meta' = m
      <3>1. admitted # << >> => cookies /\ Frozen(m)
        BY <1>3, <2>1 DEF Frozen, Identity
      <3>2. NothingPlain' /\ ReadsCurrent' /\ RunsWithIt' /\ AdmittedFrozen'
        BY <1>1, <1>3, <1>5, <2>3, <3>1, WriteKeepsStore DEF Frozen, Identity
      <3> QED BY <1>3, <2>1, <2>3, <3>2 DEF LegacyStateKept
    <2> QED BY <1>1, <2>2, <2>3
  <1>6. LegacyStateKept
    BY <1>5 DEF LegacyStateKept
  <1> QED BY <1>1, <1>4, <1>5, <1>6 DEF StoreInv

\* The detected gpu becomes part of an identity that is still free.
LEMMA GpuKeepsStore ==
  ASSUME StoreInv, GpuSaved
  PROVE  StoreInv' /\ LegacyStateKept
  <1> DEFINE m == Saved([seen EXCEPT !.gpu = "detected", !.committed = "no"])
  <1>1. /\ phase = "gpu" /\ queue # << >>
        /\ UNCHANGED <<cookies, trash, reader, admitted, legacy>>
        /\ \/ Leave /\ UNCHANGED <<meta, running>>
           \/ UNCHANGED <<meta, queue, seen>> /\ running' = Identity(seen) /\ phase' = "launch"
           \/ /\ ~Committed(seen) /\ meta' = m /\ UNCHANGED <<queue, seen>>
              /\ running' = Identity(m) /\ phase' = "launch"
    BY DEF GpuSaved, StoreInv, StoreTyped
  <1>2. seen \in ProfileFile
    BY <1>1, FileFacts DEF StoreInv, StoreTyped
  <1>3. m \in ProfileFile /\ ~m.plain /\ m.persona = seen.persona
    BY <1>2 DEF ProfileFile, Saved
  <1> HIDE DEF m
  <1>4. CASE Leave /\ UNCHANGED <<meta, running>>
    <2>1. queue' \in Seq(StoreOps) /\ phase' = "idle" /\ seen' = NoProfileFile
      BY <1>1, <1>4, LeaveFacts DEF StoreInv
    <2>2. StoreTyped'
      BY <1>1, <1>4, <2>1 DEF StoreInv, StoreTyped, StorePhases
    <2>3. ~legacy => NothingPlain' /\ ReadsCurrent' /\ RunsWithIt' /\ AdmittedFrozen'
      BY <1>1, <1>4, <2>1, AdvanceKeepsStore
    <2> QED BY <1>1, <1>4, <2>2, <2>3 DEF StoreInv, LegacyStateKept
  <1>5. CASE UNCHANGED <<meta, queue, seen>> /\ running' = Identity(seen) /\ phase' = "launch"
    <2>1. StoreTyped'
      BY <1>1, <1>5 DEF StoreInv, StoreTyped, StorePhases
    <2>2. ~legacy => NothingPlain' /\ ReadsCurrent' /\ RunsWithIt' /\ AdmittedFrozen'
      BY <1>1, <1>5, AdvanceKeepsStore
    <2> QED BY <1>1, <1>5, <2>1, <2>2 DEF StoreInv, LegacyStateKept
  <1>6. CASE ~Committed(seen) /\ meta' = m /\ UNCHANGED <<queue, seen>> /\ running' = Identity(m) /\ phase' = "launch"
    <2>1. StoreTyped'
      BY <1>1, <1>3, <1>6 DEF StoreInv, StoreTyped, StorePhases
    <2>2. ASSUME ~legacy
          PROVE  NothingPlain' /\ ReadsCurrent' /\ RunsWithIt' /\ AdmittedFrozen' /\ LegacyStateKept
      <3>1. (meta.exists => meta = seen) /\ admitted = << >>
        BY <1>1, <1>6, <2>2, WritesWhatItRead
      <3>2. NothingPlain' /\ ReadsCurrent' /\ RunsWithIt' /\ AdmittedFrozen'
        BY <1>1, <1>3, <1>6, <2>2, <3>1, WriteKeepsStore DEF Frozen, Identity
      <3> QED BY <1>3, <1>6, <3>1, <3>2 DEF LegacyStateKept
    <2>3. LegacyStateKept
      BY <2>2 DEF LegacyStateKept
    <2> QED BY <1>1, <2>1, <2>2, <2>3 DEF StoreInv
  <1> QED BY <1>1, <1>4, <1>5, <1>6

\* The start is committed with the identity it ran with.
LEMMA CommitKeepsStore ==
  ASSUME StoreInv, Commits
  PROVE  StoreInv' /\ LegacyStateKept
  <1> DEFINE m == Saved([seen EXCEPT !.committed = "yes"])
  <1>1. /\ phase = "mark" /\ queue # << >> /\ Leave /\ running' = << >> /\ cookies' = TRUE
        /\ UNCHANGED <<trash, reader, legacy>>
        /\ \/ seen.committed = "yes" /\ meta' = meta
           \/ meta' = m
        /\ admitted' = IF admitted = << >> THEN running ELSE admitted
    BY DEF Commits, StoreInv, StoreTyped
  <1>2. seen \in ProfileFile
    BY <1>1, FileFacts DEF StoreInv, StoreTyped
  <1>3. /\ m \in ProfileFile /\ ~m.plain /\ m.persona = seen.persona /\ m.gpu = seen.gpu
        /\ m.committed = "yes"
    BY <1>2 DEF ProfileFile, Saved
  <1> HIDE DEF m
  <1>4. queue' \in Seq(StoreOps) /\ phase' = "idle" /\ seen' = NoProfileFile
    BY <1>1, LeaveFacts DEF StoreInv
  <1>5. StoreTyped'
    BY <1>1, <1>3, <1>4 DEF StoreInv, StoreTyped, StorePhases
  <1>6. ASSUME ~legacy
        PROVE  NothingPlain' /\ ReadsCurrent' /\ RunsWithIt' /\ AdmittedFrozen' /\ LegacyStateKept
    <2>1. (meta.exists => meta = seen) /\ Identity(seen) = running /\ (admitted # << >> => Frozen(seen))
      BY <1>1, <1>6, WritesWhatItRead DEF StoreInv, RunsWithIt
    <2>2. Identity(seen) = admitted'
      BY <1>1, <2>1 DEF Frozen
    <2>3. CASE seen.committed = "yes" /\ meta' = meta
      <3>1. \A o \in ProfileFile : Holds(o)' => o = seen
        BY <1>1, <1>6, <2>3 DEF StoreInv, ReadsCurrent, Holds
      <3>2. NothingPlain'
        BY <1>1, <1>4, <1>6, <2>3, FileFacts DEF StoreInv, NothingPlain
      <3>3. ReadsCurrent' /\ RunsWithIt'
        BY <1>4 DEF ReadsCurrent, RunsWithIt
      <3>4. AdmittedFrozen'
        BY <1>1, <1>4, <2>2, <2>3, <3>1 DEF AdmittedFrozen, Frozen, Identity
      <3> QED BY <2>3, <3>2, <3>3, <3>4 DEF LegacyStateKept
    <2>4. CASE meta' = m
      <3>1. NothingPlain' /\ ReadsCurrent' /\ RunsWithIt' /\ AdmittedFrozen'
        BY <1>1, <1>3, <1>4, <1>6, <2>2, <2>4, WriteKeepsStore DEF Frozen, Identity
      <3> QED BY <1>3, <2>1, <2>4, <3>1 DEF LegacyStateKept
    <2> QED BY <1>1, <2>3, <2>4
  <1>7. LegacyStateKept
    BY <1>6 DEF LegacyStateKept
  <1> QED BY <1>1, <1>5, <1>6, <1>7 DEF StoreInv

\* Every step of the store keeps the invariant, and the legacy state of a profile.
LEMMA StoreStep ==
  ASSUME StoreInv, [StoreNext]_storeVars
  PROVE  StoreInv' /\ LegacyStateKept
  <1>1. CASE UNCHANGED storeVars
    <2>1. \A m \in ProfileFile : Holds(m)' => Holds(m)
      BY <1>1 DEF storeVars, Holds
    <2>2. StoreTyped' /\ (NothingPlain => NothingPlain')
      BY <1>1 DEF storeVars, StoreInv, StoreTyped, NothingPlain
    <2> QED BY <1>1, <2>1, <2>2, MovesKeepStore DEF storeVars, LegacyStateKept
  <1>2. CASE \E o \in StoreOps : SubmitOp(o)
    BY <1>2, SubmitKeepsStore DEF SubmitOp, LegacyStateKept
  <1>3. CASE OpBegins \/ ReadsAgain \/ Launches
    BY <1>3, ReadingKeepsStore DEF OpBegins, ReadsAgain, Launches, LegacyStateKept
  <1>4. CASE DeleteProfile \/ RestoreProfile \/ Purge
    BY <1>4, TrashKeepsStore DEF DeleteProfile, RestoreProfile, Purge, LegacyStateKept, NoProfileFile
  <1>5. CASE Reads \/ Migrates
    BY <1>5, ReaderKeepsStore DEF Reads, Migrates, LegacyStateKept, StoreInv, NothingPlain
  <1>6. \A p \in Personas \cup {"same"} : <<"update", p>> \in StoreOps
    BY DEF StoreOps
  <1>7. <<"start">> \in StoreOps
    BY DEF StoreOps
  <1> QED BY <1>1, <1>2, <1>3, <1>4, <1>5, <1>6, <1>7,
             UpdateKeepsStore, AdmissionKeepsStore, GpuKeepsStore, CommitKeepsStore DEF StoreNext

\* Identity of a profile (ProfileStore, withChromixIdentityAdmission and
\* commitChromixIdentity of src/profile/profile-store.ts, start of
\* session-manager.ts): for any number of updates, starts, deletions and
\* restorations in any order, what was committed by the first start stays, and
\* a profile that had cookies before it had a mark keeps its persona.
THEOREM IdentityIsKept == StoreSpec => IdentityKept
  <1>1. StoreInv /\ [StoreNext]_storeVars => StoreInv'
    BY StoreStep
  <1>2. StoreInv /\ StoreInv' /\ [StoreNext]_storeVars => [PersonaFrozen' /\ LegacyStateKept]_storeVars
    <2> SUFFICES ASSUME StoreInv, StoreInv', [StoreNext]_storeVars PROVE PersonaFrozen' /\ LegacyStateKept
      OBVIOUS
    <2>1. StoreInv' => PersonaFrozen'
      BY FrozenFile, PTL
    <2> QED BY <2>1, StoreStep
  <1> QED BY <1>1, <1>2, StoreInitial, PTL DEF StoreSpec, IdentityKept

-------------------------------------------------------------------------------
(* The backup of the profile.  One restore at a time works on the          *)
(* directory; BackupInv says what it has of it in each of its phases.      *)

Contents == {"old", "new", "absent"}
Directories == UNION {[S -> Contents] : S \in SUBSET (BackupFiles \cup {0})}
Busy == {"recover", "clearPrevious", "clearStaging", "stage", "write", "swap", "install", "drop", "undo"}
RestorePhases == Busy \cup {"idle", "queued", "done", "failed"}

BackupTyped ==
    /\ disk \in [dest : Directories, previous : Directories, staging : Directories]
    /\ archive \in [key : VaultKeys, files : [BackupFiles -> Contents]]
    /\ restore \in [Restores -> [phase : RestorePhases, manifest : Directories]]
    /\ restoreQueue \in Seq(Restores)
    /\ scan = Absent \/ scan \in Seq(Contents)

\* One restore works on the directory: the head of the queue, in which no restore is
\* twice and none is over.
OneAtATime ==
    /\ \A i, j \in DOMAIN restoreQueue : restoreQueue[i] = restoreQueue[j] => i = j
    /\ \A i \in DOMAIN restoreQueue : restore[restoreQueue[i]].phase \notin {"idle", "done", "failed"}
    /\ \A r \in Restores : restore[r].phase \in Busy => Turn(r)

\* What a restore has of the directory in each of its phases.
Staged(r) == DOMAIN disk.staging \subseteq BackupFiles /\ disk.staging = Restrict(restore[r].manifest, DOMAIN disk.staging)
Restoring(r) ==
    LET ph == restore[r].phase IN
    /\ ph \in Busy => restore[r].manifest \in [BackupFiles -> Contents]
    /\ ph \in {"clearPrevious", "clearStaging", "stage", "write", "swap"} => Complete(disk.dest)
    /\ ph = "write" => Staged(r)
    /\ ph \in {"swap", "install"} => disk.staging = restore[r].manifest
    /\ ph = "install" => disk.dest = Absent /\ Complete(disk.previous)
    /\ ph = "drop" => disk.dest = restore[r].manifest

BackupInv ==
    /\ BackupTyped /\ OneAtATime /\ ProfileNeverLost
    /\ \A r \in Restores : Restoring(r)

-------------------------------------------------------------------------------
\* A whole copy is not the directory that is not there, which has a file 0.
LEMMA DirectoryFacts ==
  /\ Absent \in Directories /\ ~Complete(Absent) /\ 0 \notin BackupFiles
  /\ \A m \in [BackupFiles -> Contents] : m \in Directories /\ Complete(m)
  /\ \A d \in Directories : \A S : S \subseteq DOMAIN d => Restrict(d, S) \in Directories /\ DOMAIN Restrict(d, S) = S
  <1>1. Cardinality(BackupFiles) \in Nat
    BY FilesNumbered, FS_CardinalityType
  <1>2. 0 \notin BackupFiles
    BY <1>1, FilesNumbered
  <1>3. Absent \in [{0} -> Contents]
    BY DEF Absent, Contents
  <1>4. Absent \in Directories
    BY <1>3 DEF Directories
  <1>5. ~Complete(Absent)
    BY DEF Complete
  <1>6. \A m \in [BackupFiles -> Contents] : m \in Directories /\ Complete(m)
    BY <1>2, <1>3 DEF Directories, Complete
  <1>7. ASSUME NEW d \in Directories, NEW S, S \subseteq DOMAIN d
        PROVE  Restrict(d, S) \in Directories /\ DOMAIN Restrict(d, S) = S
    <2>1. PICK T \in SUBSET (BackupFiles \cup {0}) : d \in [T -> Contents]
      BY DEF Directories
    <2>2. Restrict(d, S) \in [S -> Contents] /\ S \in SUBSET (BackupFiles \cup {0})
      BY <1>7, <2>1 DEF Restrict
    <2> QED BY <2>2 DEF Directories
  <1> QED BY <1>2, <1>4, <1>5, <1>6, <1>7

\* No restore has been called, and the profile is under its own name.
LEMMA BackupInitial == BackupInit => BackupInv
  <1> SUFFICES ASSUME BackupInit PROVE BackupInv
    OBVIOUS
  <1>1. [f \in BackupFiles |-> "old"] \in [BackupFiles -> Contents] /\ [f \in BackupFiles |-> "new"] \in [BackupFiles -> Contents]
    BY DEF Contents
  <1>2. NewRestore \in [phase : RestorePhases, manifest : Directories]
    BY DirectoryFacts DEF NewRestore, RestorePhases
  <1>3. BackupTyped
    BY <1>1, <1>2, DirectoryFacts DEF BackupInit, BackupTyped, VaultKeys
  <1>4. ProfileNeverLost
    BY <1>1, DirectoryFacts DEF BackupInit, ProfileNeverLost
  <1>5. OneAtATime /\ \A r \in Restores : Restoring(r)
    BY DEF BackupInit, OneAtATime, Restoring, NewRestore, Busy
  <1> QED BY <1>3, <1>4, <1>5 DEF BackupInv

\* A restore that does not work on the directory has nothing to hold.
LEMMA IdleRestoring ==
  ASSUME NEW r, restore[r].phase \notin Busy PROVE Restoring(r)
  BY DEF Restoring, Busy

\* The backup reads and writes beside the restores.
LEMMA ArchivingKeepsBackup ==
  ASSUME BackupInv, StartBackup \/ ScanFile \/ WriteArchive \/ \E key \in VaultKeys : Rekey(key)
  PROVE  BackupInv'
  <1>1. UNCHANGED <<disk, restore, restoreQueue>>
    BY DEF StartBackup, ScanFile, WriteArchive, Rekey
  <1>2. (scan = Absent \/ scan \in Seq(Contents)) /\ disk.dest \in Directories
        /\ archive \in [key : VaultKeys, files : [BackupFiles -> Contents]]
    BY DEF BackupInv, BackupTyped
  <1>3. scan' = Absent \/ scan' \in Seq(Contents)
    <2>1. CASE StartBackup
      BY <2>1 DEF StartBackup
    <2>2. CASE ScanFile
      <3> DEFINE f == Len(scan) + 1
      <3>1. scan # Absent /\ (scan' = Absent \/ (f \in DOMAIN disk.dest /\ scan' = Append(scan, disk.dest[f])))
        BY <2>2 DEF ScanFile
      <3>2. f \in DOMAIN disk.dest => disk.dest[f] \in Contents
        BY <1>2 DEF Directories
      <3> QED BY <1>2, <3>1, <3>2
    <2>3. CASE WriteArchive
      BY <2>3 DEF WriteArchive
    <2>4. CASE \E key \in VaultKeys : Rekey(key)
      BY <1>2, <2>4 DEF Rekey
    <2> QED BY <2>1, <2>2, <2>3, <2>4
  <1>4. archive' \in [key : VaultKeys, files : [BackupFiles -> Contents]]
    <2>1. CASE StartBackup \/ ScanFile
      BY <1>2, <2>1 DEF StartBackup, ScanFile
    <2>2. CASE WriteArchive
      <3>1. /\ scan \in Seq(Contents) /\ Len(scan) = Cardinality(BackupFiles)
            /\ archive' = [key |-> "key1", files |-> [f \in BackupFiles |-> scan[f]]]
        BY <1>2, <2>2 DEF WriteArchive
      <3>2. \A f \in BackupFiles : scan[f] \in Contents
        BY <3>1, FilesNumbered
      <3> QED BY <3>1, <3>2 DEF VaultKeys
    <2>3. CASE \E key \in VaultKeys : Rekey(key)
      BY <1>2, <2>3 DEF Rekey
    <2> QED BY <2>1, <2>2, <2>3
  <1>5. BackupTyped'
    BY <1>1, <1>3, <1>4 DEF BackupInv, BackupTyped
  <1>6. OneAtATime' /\ ProfileNeverLost' /\ \A r \in Restores : Restoring(r)'
    BY <1>1 DEF BackupInv, OneAtATime, Turn, ProfileNeverLost, Complete, Restoring, Staged
  <1> QED BY <1>5, <1>6 DEF BackupInv

\* A crash ends what runs; the profile is whole on the disk it leaves.
LEMMA CrashKeepsBackup ==
  ASSUME BackupInv, BackupCrash PROVE BackupInv'
  <1>1. \A r \in Restores : restore'[r] = NewRestore
    BY DEF BackupCrash
  <1>2. BackupTyped'
    <2>1. NewRestore \in [phase : RestorePhases, manifest : Directories]
      BY DirectoryFacts DEF NewRestore, RestorePhases
    <2> QED BY <2>1 DEF BackupCrash, BackupInv, BackupTyped
  <1>3. OneAtATime' /\ \A r \in Restores : Restoring(r)'
    BY <1>1 DEF BackupCrash, OneAtATime, NewRestore, Busy, Restoring
  <1>4. ProfileNeverLost'
    BY DEF BackupCrash, BackupInv, ProfileNeverLost, Complete
  <1> QED BY <1>2, <1>3, <1>4 DEF BackupInv

\* A call enters the queue behind the others.
LEMMA CallKeepsBackup ==
  ASSUME BackupInv, NEW r \in Restores, CallRestore(r) PROVE BackupInv'
  <1>1. restore[r].phase = "idle" /\ restoreQueue' = Append(restoreQueue, r) /\ UNCHANGED <<disk, archive, scan>>
    BY DEF CallRestore
  <1>2. restoreQueue \in Seq(Restores) /\ restore \in [Restores -> [phase : RestorePhases, manifest : Directories]]
    BY DEF BackupInv, BackupTyped
  <1>3. restore' = [restore EXCEPT ![r] = [restore[r] EXCEPT !.phase = "queued"]]
    BY <1>2 DEF CallRestore, Becomes
  <1>4. /\ restore'[r].phase = "queued" /\ restore' \in [Restores -> [phase : RestorePhases, manifest : Directories]]
        /\ \A o \in Restores \ {r} : restore'[o] = restore[o]
    BY <1>2, <1>3 DEF RestorePhases
  <1>5. BackupTyped'
    BY <1>1, <1>2, <1>4 DEF BackupInv, BackupTyped
  <1>6. \A i \in DOMAIN restoreQueue : restoreQueue[i] \in Restores /\ restoreQueue[i] # r
    BY <1>1, <1>2 DEF BackupInv, OneAtATime
  <1>7. /\ DOMAIN restoreQueue' = 1 .. (Len(restoreQueue) + 1) /\ DOMAIN restoreQueue = 1 .. Len(restoreQueue)
        /\ \A i \in DOMAIN restoreQueue : restoreQueue'[i] = restoreQueue[i]
        /\ restoreQueue'[Len(restoreQueue) + 1] = r /\ Len(restoreQueue) \in Nat
    BY <1>1, <1>2
  <1>8. OneAtATime'
    <2>1. \A i, j \in DOMAIN restoreQueue' : restoreQueue'[i] = restoreQueue'[j] => i = j
      BY <1>6, <1>7 DEF BackupInv, OneAtATime
    <2>2. \A i \in DOMAIN restoreQueue' : restore'[restoreQueue'[i]].phase \notin {"idle", "done", "failed"}
      BY <1>4, <1>6, <1>7 DEF BackupInv, OneAtATime
    <2>3. ASSUME NEW o \in Restores, restore'[o].phase \in Busy PROVE Turn(o)'
      <3>1. o # r
        BY <1>4, <2>3 DEF Busy
      <3>2. restoreQueue # << >> /\ Head(restoreQueue) = o
        BY <1>4, <2>3, <3>1 DEF BackupInv, OneAtATime, Turn
      <3> QED BY <1>1, <1>2, <3>2 DEF Turn
    <2> QED BY <2>1, <2>2, <2>3 DEF OneAtATime
  <1>9. ASSUME NEW o \in Restores PROVE Restoring(o)'
    <2>1. CASE o = r
      BY <1>4, <2>1 DEF Restoring, Busy
    <2>2. CASE o # r
      BY <1>1, <1>4, <2>2 DEF BackupInv, Restoring, Staged
    <2> QED BY <2>1, <2>2
  <1>10. ProfileNeverLost'
    BY <1>1 DEF BackupInv, ProfileNeverLost, Complete
  <1> QED BY <1>5, <1>8, <1>9, <1>10 DEF BackupInv

-------------------------------------------------------------------------------
\* The head of the queue takes a step, and leaves the queue when it is over.
LEMMA HeadStepKeepsBackup ==
  ASSUME BackupInv, NEW r \in Restores, Turn(r), UNCHANGED <<archive, scan>>,
         disk' \in [dest : Directories, previous : Directories, staging : Directories],
         restore' \in [Restores -> [phase : RestorePhases, manifest : Directories]],
         \A o \in Restores \ {r} : restore'[o] = restore[o],
         \/ restore'[r].phase \in Busy /\ UNCHANGED restoreQueue
         \/ restore'[r].phase \in {"done", "failed"} /\ restoreQueue' = Tail(restoreQueue),
         ProfileNeverLost', Restoring(r)'
  PROVE  BackupInv'
  <1>1. restoreQueue \in Seq(Restores) /\ restoreQueue # << >> /\ restoreQueue[1] = r
    BY DEF BackupInv, BackupTyped, Turn
  <1>2. BackupTyped'
    <2>1. restoreQueue' \in Seq(Restores)
      <3>1. restoreQueue' = restoreQueue \/ restoreQueue' = Tail(restoreQueue)
        OBVIOUS
      <3>2. Tail(restoreQueue) \in Seq(Restores)
        BY <1>1
      <3> QED BY <1>1, <3>1, <3>2
    <2>2. (scan' = Absent \/ scan' \in Seq(Contents)) /\ archive' \in [key : VaultKeys, files : [BackupFiles -> Contents]]
      BY DEF BackupInv, BackupTyped
    <2> QED BY <2>1, <2>2 DEF BackupTyped
  <1>3. \A o \in Restores \ {r} : restore[o].phase \notin Busy
    BY DEF BackupInv, OneAtATime, Turn
  <1>4. \A o \in Restores : Restoring(o)'
    BY <1>3 DEF Restoring, Busy
  <1>5. CASE restore'[r].phase \in Busy /\ UNCHANGED restoreQueue
    <2>1. \A i, j \in DOMAIN restoreQueue' : restoreQueue'[i] = restoreQueue'[j] => i = j
      BY <1>5 DEF BackupInv, OneAtATime
    <2>2. \A i \in DOMAIN restoreQueue' : restore'[restoreQueue'[i]].phase \notin {"idle", "done", "failed"}
      BY <1>1, <1>5 DEF BackupInv, OneAtATime, Busy
    <2>3. \A o \in Restores : restore'[o].phase \in Busy => Turn(o)'
      BY <1>3, <1>5 DEF Turn
    <2> QED BY <1>2, <1>4, <2>1, <2>2, <2>3 DEF BackupInv, OneAtATime
  <1>6. CASE restore'[r].phase \in {"done", "failed"} /\ restoreQueue' = Tail(restoreQueue)
    <2>1. /\ DOMAIN restoreQueue' = 1 .. (Len(restoreQueue) - 1) /\ DOMAIN restoreQueue = 1 .. Len(restoreQueue)
          /\ \A i \in DOMAIN restoreQueue' : restoreQueue'[i] = restoreQueue[i + 1] /\ i + 1 \in DOMAIN restoreQueue
          /\ Len(restoreQueue) \in Nat
      BY <1>1, <1>6
    <2>2. \A i, j \in DOMAIN restoreQueue' : restoreQueue'[i] = restoreQueue'[j] => i = j
      BY <2>1 DEF BackupInv, OneAtATime
    <2>3. ASSUME NEW i \in DOMAIN restoreQueue' PROVE restore'[restoreQueue'[i]].phase \notin {"idle", "done", "failed"}
      <3>1. i + 1 # 1 /\ 1 \in DOMAIN restoreQueue
        BY <2>1
      <3>2. restoreQueue[i + 1] \in Restores /\ i + 1 \in DOMAIN restoreQueue
        BY <1>1, <2>1
      <3>3. restoreQueue[i + 1] # restoreQueue[1]
        BY <3>1, <3>2 DEF BackupInv, OneAtATime
      <3>4. restoreQueue'[i] \in Restores \ {r}
        BY <1>1, <2>1, <3>2, <3>3
      <3> QED BY <2>1, <3>2, <3>4 DEF BackupInv, OneAtATime
    <2>4. \A o \in Restores : restore'[o].phase \notin Busy
      BY <1>3, <1>6 DEF Busy
    <2> QED BY <1>2, <1>4, <2>2, <2>3, <2>4 DEF BackupInv, OneAtATime
  <1> QED BY <1>5, <1>6

\* Its phase changes, and nothing else it remembers.
LEMMA PhaseFacts ==
  ASSUME BackupInv, NEW r \in Restores, NEW ph \in RestorePhases, Becomes(r, ph)
  PROVE  /\ restore' \in [Restores -> [phase : RestorePhases, manifest : Directories]]
         /\ \A o \in Restores \ {r} : restore'[o] = restore[o]
         /\ restore'[r].phase = ph /\ restore'[r].manifest = restore[r].manifest
  <1>1. restore \in [Restores -> [phase : RestorePhases, manifest : Directories]]
    BY DEF BackupInv, BackupTyped
  <1>2. restore' = [restore EXCEPT ![r] = [restore[r] EXCEPT !.phase = ph]]
    BY <1>1 DEF Becomes
  <1> QED BY <1>1, <1>2

\* The disk is made of directories.
LEMMA DiskFacts ==
  ASSUME BackupInv
  PROVE  /\ disk \in [dest : Directories, previous : Directories, staging : Directories]
         /\ disk.dest \in Directories /\ disk.previous \in Directories /\ disk.staging \in Directories
         /\ disk["previous"] = disk.previous /\ disk["staging"] = disk.staging
  BY DEF BackupInv, BackupTyped

\* A restore begins with the whole manifest of its archive, or ends.
LEMMA ReadKeepsBackup ==
  ASSUME BackupInv, NEW r \in Restores, NEW key, ReadManifest(r, key)
  PROVE  BackupInv' /\ restore'[r].phase # "done" /\ \A o \in Restores \ {r} : restore'[o] = restore[o]
  <1>1. Turn(r) /\ UNCHANGED <<disk, archive, scan>>
    BY DEF ReadManifest
  <1>2. ProfileNeverLost'
    BY <1>1 DEF BackupInv, ProfileNeverLost, Complete
  <1>3. disk' \in [dest : Directories, previous : Directories, staging : Directories]
    BY <1>1, DiskFacts
  <1>4. CASE restore' = [restore EXCEPT ![r] = [phase |-> "recover", manifest |-> archive.files]] /\ UNCHANGED restoreQueue
    <2>1. archive.files \in [BackupFiles -> Contents]
      BY DEF BackupInv, BackupTyped
    <2>2. [phase |-> "recover", manifest |-> archive.files] \in [phase : RestorePhases, manifest : Directories]
      BY <2>1, DirectoryFacts DEF RestorePhases, Busy
    <2>3. /\ restore' \in [Restores -> [phase : RestorePhases, manifest : Directories]]
          /\ \A o \in Restores \ {r} : restore'[o] = restore[o]
          /\ restore'[r] = [phase |-> "recover", manifest |-> archive.files]
      BY <1>4, <2>2 DEF BackupInv, BackupTyped
    <2>4. Restoring(r)' /\ restore'[r].phase \in Busy
      BY <2>1, <2>3 DEF Restoring, Busy
    <2> QED BY <1>1, <1>2, <1>3, <1>4, <2>3, <2>4, HeadStepKeepsBackup
  <1>5. CASE RestoreEnds(r, "failed")
    <2>1. "failed" \in RestorePhases
      BY DEF RestorePhases
    <2>2. Becomes(r, "failed") /\ restoreQueue' = Tail(restoreQueue)
      BY <1>5 DEF RestoreEnds
    <2>3. Restoring(r)'
      BY <2>1, <2>2, PhaseFacts DEF Restoring, Busy
    <2> QED BY <1>1, <1>2, <1>3, <2>1, <2>2, <2>3, PhaseFacts, HeadStepKeepsBackup
  <1> QED BY <1>4, <1>5 DEF ReadManifest

\* The head goes on to another phase of the restore.
LEMMA PhaseKeepsBackup ==
  ASSUME BackupInv, NEW r \in Restores, restore[r].phase \in Busy, NEW ph \in Busy, Becomes(r, ph),
         UNCHANGED <<archive, scan, restoreQueue>>,
         disk' \in [dest : Directories, previous : Directories, staging : Directories],
         ProfileNeverLost', Restoring(r)'
  PROVE  BackupInv' /\ restore'[r].phase # "done" /\ \A o \in Restores \ {r} : restore'[o] = restore[o]
  <1>1. Turn(r)
    BY DEF BackupInv, OneAtATime
  <1>2. ph \in RestorePhases /\ ph # "done"
    BY DEF RestorePhases, Busy
  <1> QED BY <1>1, <1>2, PhaseFacts, HeadStepKeepsBackup

\* A copy set aside comes back when the directory is missing.
LEMMA RecoverKeepsBackup ==
  ASSUME BackupInv, NEW r \in Restores, RecoverSwap(r)
  PROVE  BackupInv' /\ restore'[r].phase # "done" /\ \A o \in Restores \ {r} : restore'[o] = restore[o]
  <1>1. /\ restore[r].phase = "recover" /\ UNCHANGED <<archive, restoreQueue, scan>>
        /\ disk' = RecoverySwap(disk).dir /\ Becomes(r, RecoverySwap(disk).phase)
    BY DEF RecoverSwap
  <1>2. restore[r].phase \in Busy /\ restore[r].manifest \in [BackupFiles -> Contents]
    BY <1>1 DEF BackupInv, Restoring, Busy
  <1>3. "clearStaging" \in Busy /\ "clearPrevious" \in Busy /\ Busy \subseteq RestorePhases
    BY DEF Busy, RestorePhases
  <1>4. CASE disk.dest = Absent /\ disk.previous # Absent
    <2>1. disk' = [disk EXCEPT !.dest = disk.previous, !.previous = Absent] /\ Becomes(r, "clearStaging")
      BY <1>1, <1>4 DEF RecoverySwap
    <2>2. /\ disk' \in [dest : Directories, previous : Directories, staging : Directories]
          /\ disk'.dest = disk.previous
      BY <2>1, DiskFacts, DirectoryFacts
    <2>3. Complete(disk.previous)
      BY <1>4, DirectoryFacts DEF BackupInv, ProfileNeverLost
    <2>4. ProfileNeverLost' /\ Complete(disk'.dest)
      BY <2>2, <2>3 DEF ProfileNeverLost, Complete
    <2>5. Restoring(r)'
      BY <1>2, <1>3, <2>1, <2>4, PhaseFacts DEF Restoring, Complete
    <2> QED BY <1>1, <1>2, <1>3, <2>1, <2>2, <2>4, <2>5, PhaseKeepsBackup
  <1>5. CASE ~(disk.dest = Absent /\ disk.previous # Absent)
    <2>1. disk' = disk /\ Becomes(r, "clearPrevious")
      BY <1>1, <1>5 DEF RecoverySwap
    <2>2. Complete(disk.dest)
      BY <1>5, DirectoryFacts DEF BackupInv, ProfileNeverLost
    <2>3. ProfileNeverLost' /\ Complete(disk'.dest)
      BY <2>1, <2>2 DEF ProfileNeverLost, Complete
    <2>4. Restoring(r)'
      BY <1>2, <1>3, <2>1, <2>3, PhaseFacts DEF Restoring, Complete
    <2> QED BY <1>1, <1>2, <1>3, <2>1, <2>3, <2>4, DiskFacts, PhaseKeepsBackup
  <1> QED BY <1>4, <1>5

\* A directory is removed file by file; then the restore goes on, or is over.
LEMMA ClearKeepsBackup ==
  ASSUME BackupInv, NEW r \in Restores, NEW from, NEW name, NEW after, Clear(r, from, name, after),
         \/ name = "previous" /\ from = "clearPrevious" /\ after = "clearStaging"
         \/ name = "previous" /\ from = "drop" /\ after = "done"
         \/ name = "staging" /\ from = "clearStaging" /\ after = "stage"
         \/ name = "staging" /\ from = "undo" /\ after = "failed"
  PROVE  /\ BackupInv' /\ \A o \in Restores \ {r} : restore'[o] = restore[o]
         /\ restore'[r].phase = "done" => disk'.dest = restore[r].manifest
  <1>1. Turn(r) /\ restore[r].phase = from /\ UNCHANGED <<archive, scan>> /\ from \in Busy
    BY DEF Clear, Busy
  <1>2. /\ Restoring(r) /\ restore[r].manifest \in [BackupFiles -> Contents]
        /\ restore \in [Restores -> [phase : RestorePhases, manifest : Directories]]
    BY <1>1 DEF BackupInv, BackupTyped, Restoring
  <1>3. \/ /\ \E S \in SUBSET DOMAIN disk[name] : disk' = [disk EXCEPT ![name] = Restrict(disk[name], S)]
           /\ UNCHANGED <<restore, restoreQueue>>
        \/ /\ disk' = [disk EXCEPT ![name] = Absent]
           /\ \/ after \in {"done", "failed"} /\ RestoreEnds(r, after)
              \/ after \in {"clearStaging", "stage"} /\ Becomes(r, after) /\ UNCHANGED restoreQueue
    BY DEF Clear, Removed
  <1>4. PICK d \in Directories : disk' = [disk EXCEPT ![name] = d]
    BY <1>3, DiskFacts, DirectoryFacts
  <1>5. /\ disk' \in [dest : Directories, previous : Directories, staging : Directories]
        /\ disk'.dest = disk.dest /\ (name = "staging" => disk'.previous = disk.previous)
    <2>1. CASE name = "previous"
      BY <1>4, <2>1, DiskFacts
    <2>2. CASE name = "staging"
      BY <1>4, <2>2, DiskFacts
    <2> QED BY <2>1, <2>2
  <1>6. from # "undo" => Complete(disk.dest)
    BY <1>1, <1>2, DirectoryFacts DEF Restoring
  <1>7. ProfileNeverLost'
    <2>1. CASE from = "undo"
      BY <1>5, <2>1 DEF BackupInv, ProfileNeverLost, Complete
    <2>2. CASE from # "undo"
      BY <1>5, <1>6, <2>2 DEF ProfileNeverLost, Complete
    <2> QED BY <2>1, <2>2
  <1>8. from = "drop" => disk'.dest = restore[r].manifest
    BY <1>1, <1>2, <1>5 DEF Restoring
  <1>9. CASE UNCHANGED <<restore, restoreQueue>>
    <2>1. Restoring(r)'
      BY <1>1, <1>2, <1>5, <1>6, <1>8, <1>9 DEF Restoring, Complete
    <2> QED BY <1>1, <1>2, <1>5, <1>7, <1>9, <2>1, HeadStepKeepsBackup DEF Busy
  <1>10. CASE after \in {"done", "failed"} /\ RestoreEnds(r, after)
    <2>1. Becomes(r, after) /\ restoreQueue' = Tail(restoreQueue) /\ after \in RestorePhases
      BY <1>10 DEF RestoreEnds, RestorePhases
    <2>2. Restoring(r)'
      BY <1>10, <2>1, PhaseFacts DEF Restoring, Busy
    <2> QED BY <1>1, <1>5, <1>7, <1>8, <1>10, <2>1, <2>2, PhaseFacts, HeadStepKeepsBackup
  <1>11. CASE after \in {"clearStaging", "stage"} /\ Becomes(r, after) /\ UNCHANGED restoreQueue
    <2>1. after \in Busy /\ after \in RestorePhases
      BY <1>11 DEF Busy, RestorePhases
    <2>2. from # "undo"
      BY <1>11
    <2>3. Restoring(r)'
      BY <1>2, <1>5, <1>6, <1>11, <2>1, <2>2, PhaseFacts DEF Restoring, Complete
    <2> QED BY <1>1, <1>5, <1>7, <1>11, <2>1, <2>3, PhaseKeepsBackup DEF Busy
  <1> QED BY <1>3, <1>9, <1>10, <1>11

\* The copy is made beside the directory.
LEMMA StageKeepsBackup ==
  ASSUME BackupInv, NEW r \in Restores, MakeStaging(r) \/ WriteStaged(r)
  PROVE  BackupInv' /\ restore'[r].phase # "done" /\ \A o \in Restores \ {r} : restore'[o] = restore[o]
  <1> DEFINE m == restore[r].manifest
  <1>1. restore[r].phase \in {"stage", "write"} /\ UNCHANGED <<archive, restoreQueue, scan>>
    BY DEF MakeStaging, WriteStaged
  <1>2. restore[r].phase \in Busy /\ Turn(r)
    BY <1>1 DEF Busy, MakeStaging, WriteStaged
  <1>3. m \in [BackupFiles -> Contents] /\ Complete(disk.dest)
    BY <1>1, <1>2 DEF BackupInv, Restoring
  <1>4. {"write", "undo", "swap"} \subseteq Busy \cap RestorePhases
    BY DEF Busy, RestorePhases
  <1>5. ASSUME NEW S \in SUBSET BackupFiles, disk' = [disk EXCEPT !.staging = Restrict(m, S)]
        PROVE  /\ disk' \in [dest : Directories, previous : Directories, staging : Directories]
               /\ disk'.dest = disk.dest /\ disk'.staging = Restrict(m, S) /\ DOMAIN disk'.staging = S
               /\ ProfileNeverLost'
    <2>1. Restrict(m, S) \in Directories /\ DOMAIN Restrict(m, S) = S
      BY <1>3, DirectoryFacts
    <2>2. /\ disk' \in [dest : Directories, previous : Directories, staging : Directories]
          /\ disk'.dest = disk.dest /\ disk'.staging = Restrict(m, S)
      BY <1>5, <2>1, DiskFacts
    <2> QED BY <1>3, <2>1, <2>2 DEF ProfileNeverLost, Complete
  <1>6. CASE MakeStaging(r)
    <2>1. disk' = [disk EXCEPT !.staging = Restrict(m, {})] /\ Becomes(r, "write")
      BY <1>6 DEF MakeStaging
    <2>2. Restoring(r)'
      BY <1>3, <1>4, <1>5, <2>1, PhaseFacts DEF Restoring, Staged, Complete
    <2> QED BY <1>1, <1>2, <1>4, <1>5, <2>1, <2>2, PhaseKeepsBackup
  <1>7. CASE WriteStaged(r)
    <2> DEFINE left == DOMAIN m \ DOMAIN disk.staging
    <2>1. restore[r].phase = "write" /\ Staged(r)
      BY <1>2, <1>7 DEF WriteStaged, BackupInv, Restoring
    <2>2. \/ /\ \E f \in left : disk' = [disk EXCEPT !.staging = Restrict(m, DOMAIN disk.staging \union {f})]
             /\ UNCHANGED restore
          \/ Becomes(r, "undo") /\ UNCHANGED disk
          \/ left = {} /\ Becomes(r, "swap") /\ UNCHANGED disk
      <3>1. disk.staging = disk["staging"]
        BY DiskFacts
      <3> QED BY <1>7, <3>1 DEF WriteStaged
    <2>3. ASSUME NEW f \in left, disk' = [disk EXCEPT !.staging = Restrict(m, DOMAIN disk.staging \union {f})], UNCHANGED restore
          PROVE  BackupInv' /\ restore'[r].phase # "done" /\ \A o \in Restores \ {r} : restore'[o] = restore[o]
      <3>1. DOMAIN disk.staging \union {f} \in SUBSET BackupFiles
        BY <1>3, <2>1 DEF Staged
      <3>2. Restoring(r)'
        BY <1>3, <1>5, <2>1, <2>3, <3>1 DEF Restoring, Staged, Complete
      <3> QED BY <1>1, <1>2, <1>5, <2>1, <2>3, <3>1, <3>2, HeadStepKeepsBackup DEF BackupInv, BackupTyped
    <2>4. CASE Becomes(r, "undo") /\ UNCHANGED disk
      <3>1. ProfileNeverLost'
        BY <1>3, <2>4 DEF ProfileNeverLost, Complete
      <3>2. Restoring(r)'
        BY <1>3, <1>4, <2>4, PhaseFacts DEF Restoring
      <3> QED BY <1>1, <1>2, <1>4, <2>4, <3>1, <3>2, DiskFacts, PhaseKeepsBackup
    <2>5. CASE left = {} /\ Becomes(r, "swap") /\ UNCHANGED disk
      <3>1. ProfileNeverLost'
        BY <1>3, <2>5 DEF ProfileNeverLost, Complete
      <3>2. disk.staging = m
        BY <1>3, <2>1, <2>5 DEF Staged, Restrict
      <3>3. Restoring(r)'
        BY <1>3, <1>4, <2>5, <3>2, PhaseFacts DEF Restoring, Complete
      <3> QED BY <1>1, <1>2, <1>4, <2>5, <3>1, <3>3, DiskFacts, PhaseKeepsBackup
    <2> QED BY <2>2, <2>3, <2>4, <2>5
  <1> QED BY <1>6, <1>7

\* The two renames: the directory is set aside, and the copy takes its name.
LEMMA SwapKeepsBackup ==
  ASSUME BackupInv, NEW r \in Restores, SetAside(r) \/ InstallStaged(r)
  PROVE  BackupInv' /\ restore'[r].phase # "done" /\ \A o \in Restores \ {r} : restore'[o] = restore[o]
  <1> DEFINE m == restore[r].manifest
  <1>1. restore[r].phase \in {"swap", "install"} /\ UNCHANGED <<archive, restoreQueue, scan>>
    BY DEF SetAside, InstallStaged
  <1>2. restore[r].phase \in Busy
    BY <1>1 DEF Busy
  <1>3. m \in [BackupFiles -> Contents] /\ disk.staging = m /\ Complete(m) /\ m \in Directories
    BY <1>1, <1>2, DirectoryFacts DEF BackupInv, Restoring
  <1>4. {"install", "undo", "drop"} \subseteq Busy \cap RestorePhases
    BY DEF Busy, RestorePhases
  <1>5. CASE SetAside(r)
    <2>1. Complete(disk.dest)
      BY <1>5 DEF SetAside, BackupInv, Restoring
    <2>2. \/ disk' = [disk EXCEPT !.previous = disk.dest, !.dest = Absent] /\ Becomes(r, "install")
          \/ Becomes(r, "undo") /\ UNCHANGED disk
      BY <1>5, <2>1, DirectoryFacts DEF SetAside
    <2>3. CASE disk' = [disk EXCEPT !.previous = disk.dest, !.dest = Absent] /\ Becomes(r, "install")
      <3>1. /\ disk' \in [dest : Directories, previous : Directories, staging : Directories]
            /\ disk'.dest = Absent /\ disk'.previous = disk.dest /\ disk'.staging = disk.staging
        BY <2>3, DiskFacts, DirectoryFacts
      <3>2. ProfileNeverLost' /\ Complete(disk'.previous)
        BY <2>1, <3>1 DEF ProfileNeverLost, Complete
      <3>3. Restoring(r)'
        BY <1>3, <1>4, <2>3, <3>1, <3>2, PhaseFacts DEF Restoring, Complete, Absent
      <3> QED BY <1>1, <1>2, <1>4, <2>3, <3>1, <3>2, <3>3, PhaseKeepsBackup
    <2>4. CASE Becomes(r, "undo") /\ UNCHANGED disk
      <3>1. ProfileNeverLost'
        BY <2>1, <2>4 DEF ProfileNeverLost, Complete
      <3>2. Restoring(r)'
        BY <1>3, <1>4, <2>4, PhaseFacts DEF Restoring
      <3> QED BY <1>1, <1>2, <1>4, <2>4, <3>1, <3>2, DiskFacts, PhaseKeepsBackup
    <2> QED BY <2>2, <2>3, <2>4
  <1>6. CASE InstallStaged(r)
    <2>1. disk.dest = Absent /\ Complete(disk.previous)
      BY <1>6 DEF InstallStaged, BackupInv, Restoring
    <2>2. PICK ph \in {"drop", "undo"} :
            /\ Becomes(r, ph)
            /\ \/ disk' = [disk EXCEPT !.dest = disk.staging, !.staging = Absent]
               \/ ph = "undo" /\ disk' = [disk EXCEPT !.dest = disk.previous, !.previous = Absent]
               \/ ph = "undo" /\ disk' = disk
      BY <1>6 DEF InstallStaged
    <2>3. /\ disk' \in [dest : Directories, previous : Directories, staging : Directories]
          /\ \/ disk'.dest = m
             \/ ph = "undo" /\ disk'.dest = disk.previous
             \/ ph = "undo" /\ disk'.dest = Absent /\ disk'.previous = disk.previous
      BY <1>3, <2>1, <2>2, DiskFacts, DirectoryFacts
    <2>4. ProfileNeverLost'
      BY <1>3, <2>1, <2>3 DEF ProfileNeverLost, Complete, Absent
    <2>5. Restoring(r)'
      BY <1>3, <1>4, <2>2, <2>3, PhaseFacts DEF Restoring
    <2> QED BY <1>1, <1>2, <1>4, <2>2, <2>3, <2>4, <2>5, PhaseKeepsBackup
  <1> QED BY <1>5, <1>6

\* Every step keeps the invariant, and one that ends a restore well leaves its manifest.
LEMMA BackupStep ==
  ASSUME BackupInv, [BackupNext]_backupVars
  PROVE  BackupInv' /\ RestoredExactly
  <1>1. CASE UNCHANGED backupVars
    <2>1. UNCHANGED <<disk, archive, restore, restoreQueue, scan>>
      BY <1>1 DEF backupVars
    <2>2. BackupTyped' /\ OneAtATime' /\ ProfileNeverLost'
      BY <2>1 DEF BackupInv, BackupTyped, OneAtATime, Turn, ProfileNeverLost, Complete
    <2>3. \A r \in Restores : Restoring(r)'
      BY <2>1 DEF BackupInv, Restoring, Staged, Complete
    <2> QED BY <2>1, <2>2, <2>3 DEF BackupInv, RestoredExactly
  <1>2. CASE StartBackup \/ ScanFile \/ WriteArchive \/ \E key \in VaultKeys : Rekey(key)
    BY <1>2, ArchivingKeepsBackup DEF StartBackup, ScanFile, WriteArchive, Rekey, RestoredExactly
  <1>3. CASE BackupCrash
    BY <1>3, CrashKeepsBackup DEF BackupCrash, RestoredExactly, NewRestore
  <1>4. CASE \E r \in Restores : CallRestore(r)
    <2>1. PICK r \in Restores : CallRestore(r)
      BY <1>4
    <2>2. Becomes(r, "queued") /\ "queued" \in RestorePhases
      BY <2>1 DEF CallRestore, RestorePhases
    <2>3. RestoredExactly
      BY <2>2, PhaseFacts DEF RestoredExactly
    <2> QED BY <2>1, <2>3, CallKeepsBackup
  <1>5. CASE \E r \in Restores :
               \/ RecoverSwap(r) \/ MakeStaging(r) \/ WriteStaged(r) \/ SetAside(r) \/ InstallStaged(r)
               \/ \E key \in VaultKeys : ReadManifest(r, key)
    <2>1. PICK r \in Restores :
               \/ RecoverSwap(r) \/ MakeStaging(r) \/ WriteStaged(r) \/ SetAside(r) \/ InstallStaged(r)
               \/ \E key \in VaultKeys : ReadManifest(r, key)
      BY <1>5
    <2>2. BackupInv' /\ restore'[r].phase # "done" /\ \A o \in Restores \ {r} : restore'[o] = restore[o]
      BY <2>1, RecoverKeepsBackup, StageKeepsBackup, SwapKeepsBackup, ReadKeepsBackup
    <2> QED BY <2>2 DEF RestoredExactly
  <1>6. CASE \E r \in Restores :
               \/ Clear(r, "clearPrevious", "previous", "clearStaging") \/ Clear(r, "clearStaging", "staging", "stage")
               \/ Clear(r, "drop", "previous", "done") \/ Clear(r, "undo", "staging", "failed")
    <2>1. PICK r \in Restores :
               \/ Clear(r, "clearPrevious", "previous", "clearStaging") \/ Clear(r, "clearStaging", "staging", "stage")
               \/ Clear(r, "drop", "previous", "done") \/ Clear(r, "undo", "staging", "failed")
      BY <1>6
    <2>2. /\ BackupInv' /\ \A o \in Restores \ {r} : restore'[o] = restore[o]
          /\ restore'[r].phase = "done" => disk'.dest = restore[r].manifest
      BY <2>1, ClearKeepsBackup
    <2> QED BY <2>2 DEF RestoredExactly
  <1> QED BY <1>1, <1>2, <1>3, <1>4, <1>5, <1>6 DEF BackupNext

\* Backups of a profile (restoreProfileBackup, recoverInterruptedSwap and
\* replaceDirectoryAtomically of src/security/profile-backup.ts): for any number of
\* files and of restores called at once, wherever a rename fails or the process ends,
\* the profile is whole under its own name or set aside, its backup is whole, and a
\* restore that succeeds leaves its manifest.
THEOREM ProfileAlwaysSurvives == BackupSpec => ProfileSurvives
  <1>1. BackupInv /\ [BackupNext]_backupVars => BackupInv'
    BY BackupStep
  <1>2. BackupInv => ProfileNeverLost /\ ArchiveWhole
    BY DirectoryFacts DEF BackupInv, BackupTyped, ArchiveWhole
  <1>3. BackupInv /\ BackupInv' /\ [BackupNext]_backupVars => [ProfileNeverLost' /\ ArchiveWhole' /\ RestoredExactly]_backupVars
    <2> SUFFICES ASSUME BackupInv, BackupInv', [BackupNext]_backupVars
                 PROVE  ProfileNeverLost' /\ ArchiveWhole' /\ RestoredExactly
      OBVIOUS
    <2>1. ProfileNeverLost' /\ ArchiveWhole'
      BY <1>2, PTL
    <2> QED BY <2>1, BackupStep
  <1> QED BY <1>1, <1>3, BackupInitial, PTL DEF BackupSpec, ProfileSurvives

-------------------------------------------------------------------------------
(* The admission of executions.  A bucket holds at most what its burst     *)
(* leaves after the admissions since any one of them; that is what bounds  *)
(* every stretch of time, across refills, rejections and evictions.        *)

Bucket == [tenant : Tenants, tokens : Nat, last : Nat]
Apart(bs) == \A i, j \in DOMAIN bs : bs[i].tenant = bs[j].tenant => i = j
Holders(dim, k) == {p \in DOMAIN permits : KeyOf(permits[p], dim) = k}

\* A bucket holds what its burst leaves after the admissions since any of them.
Fits(b, times, now) ==
    /\ b.last <= now /\ b.tokens <= Burst
    /\ \A i \in DOMAIN times : b.tokens + (Len(times) - i + 1) <= Burst + (b.last - times[i])

AdmissionTyped ==
    /\ \A dim \in Dimensions : inUse[dim] \in [KeysOf(dim) -> Nat]
    /\ DOMAIN inUse = Dimensions
    /\ buckets \in Seq(Bucket) /\ Apart(buckets)
    /\ given \in Nat /\ ticks \in Nat
    /\ permits \in [DOMAIN permits -> Requests] /\ DOMAIN permits \subseteq 1..given
    /\ admittedAt \in [Tenants -> Seq(Nat)]

AdmissionInv ==
    /\ AdmissionTyped
    /\ \A k \in DOMAIN buckets : Fits(buckets[k], admittedAt[buckets[k].tenant], ticks)
    /\ \A t \in Tenants : ~Has(buckets, t) => admittedAt[t] = << >>
    /\ PermitsCounted /\ RateBounded

LEMMA AdmissionInitial == AdmissionInit => AdmissionInv
  <1> SUFFICES ASSUME AdmissionInit PROVE AdmissionInv
    OBVIOUS
  <1>1. buckets = << >> /\ DOMAIN buckets = {} /\ DOMAIN permits = {} /\ Len(buckets) = 0
    BY DEF AdmissionInit
  <1>2. AdmissionTyped
    BY <1>1 DEF AdmissionInit, AdmissionTyped, Apart
  <1>3. \A dim \in Dimensions : \A k \in KeysOf(dim) : Holders(dim, k) = {} /\ inUse[dim][k] = 0
    BY <1>1 DEF AdmissionInit, Holders
  <1>4. PermitsCounted
    <2>1. \A dim \in Dimensions : \A k \in KeysOf(dim) : Cardinality(Holders(dim, k)) = 0
      BY <1>3, FS_EmptySet
    <2> QED BY <2>1, <1>1, <1>3, PositiveLimits DEF PermitsCounted, Holders
  <1>5. \A t \in Tenants : admittedAt[t] = << >>
    BY DEF AdmissionInit
  <1>6. RateBounded
    BY <1>5 DEF RateBounded
  <1> QED BY <1>1, <1>2, <1>4, <1>5, <1>6 DEF AdmissionInv

\* The entries of a table without its k-th are the others.
LEMMA OneRemoved ==
  ASSUME NEW s \in Seq(Bucket), NEW k \in DOMAIN s
  PROVE  /\ RemoveAt(s, k) \in Seq(Bucket) /\ Len(RemoveAt(s, k)) = Len(s) - 1
         /\ \A i \in 1..(Len(s) - 1) : RemoveAt(s, k)[i] = s[IF i < k THEN i ELSE i + 1]
  <1> DEFINE a == SubSeq(s, 1, k - 1)  b == SubSeq(s, k + 1, Len(s))
  <1>1. k \in Nat /\ 1 <= k /\ k <= Len(s) /\ Len(s) \in Nat
    OBVIOUS
  <1>2. a \in Seq(Bucket) /\ Len(a) = k - 1 /\ \A i \in 1..(k - 1) : a[i] = s[i]
    BY <1>1
  <1>3. b \in Seq(Bucket) /\ Len(b) = Len(s) - k /\ \A i \in 1..(Len(s) - k) : b[i] = s[i + k]
    BY <1>1
  <1> HIDE DEF a, b
  <1>4. RemoveAt(s, k) = a \o b
    BY DEF RemoveAt, a, b
  <1>5. a \o b \in Seq(Bucket) /\ Len(a \o b) = Len(s) - 1
    BY <1>1, <1>2, <1>3
  <1>6. ASSUME NEW i \in 1..(Len(s) - 1) PROVE (a \o b)[i] = s[IF i < k THEN i ELSE i + 1]
    <2>1. a \in Seq(Bucket) /\ b \in Seq(Bucket) /\ i \in 1..(Len(a) + Len(b))
      BY <1>1, <1>2, <1>3
    <2>2. (a \o b)[i] = IF i <= Len(a) THEN a[i] ELSE b[i - Len(a)]
      BY <2>1
    <2>3. CASE i < k
      BY <2>2, <2>3, <1>1, <1>2
    <2>4. CASE i >= k
      <3>1. i - (k - 1) \in 1..(Len(s) - k) /\ (i - (k - 1)) + k = i + 1
        BY <2>4, <1>1
      <3>2. (a \o b)[i] = b[i - (k - 1)]
        BY <2>2, <2>4, <1>1, <1>2
      <3>3. b[i - (k - 1)] = s[i + 1]
        BY <3>1, <1>3
      <3> QED BY <3>2, <3>3, <2>4, <1>1
    <2>5. i < k \/ i >= k
      BY <1>1
    <2> QED BY <2>3, <2>4, <2>5
  <1> QED BY <1>4, <1>5, <1>6

\* A set of numbers that is not empty has a least one.
LEMMA LeastOne ==
  ASSUME NEW S, S \subseteq Nat, S # {}
  PROVE  \E e \in S : \A i \in S : e <= i
  <1>1. PICK e \in S : \A i \in S : ~(<<i, e>> \in OpToRel(<, Nat))
    BY NatLessThanWellFounded, WFMin
  <1>2. ASSUME NEW i \in S PROVE e <= i
    <2>1. i \in Nat /\ e \in Nat
      OBVIOUS
    <2>2. i < e => <<i, e>> \in OpToRel(<, Nat)
      BY <2>1 DEF OpToRel
    <2>3. ~(i < e)
      BY <1>1, <2>2, Zenon
    <2> QED BY <2>1, <2>3, SMT
  <1> QED BY <1>2

\* The permits are finitely many.
LEMMA HoldersFinite ==
  ASSUME AdmissionInv, NEW dim, NEW k
  PROVE  IsFiniteSet(Holders(dim, k))
  <1>1. 1 \in Int /\ given \in Int /\ Holders(dim, k) \subseteq 1..given
    BY DEF AdmissionInv, AdmissionTyped, Holders
  <1> QED BY <1>1, FS_Interval, FS_Subset

\* An eviction takes the bucket of a tenant that has no permit, and makes room.
LEMMA EvictionFacts ==
  ASSUME AdmissionInv, NEW t \in Tenants, NEW bs, bs = AfterEviction(t)
  PROVE  /\ bs \in Seq(Bucket) /\ Apart(bs) /\ Len(bs) <= Len(buckets)
         /\ \A i \in DOMAIN bs : \E j \in DOMAIN buckets : bs[i] = buckets[j]
         /\ \A p \in DOMAIN permits : Has(bs, permits[p].tenant)
         /\ Has(bs, t) <=> Has(buckets, t)
         /\ bs # buckets => Len(bs) < MaxBuckets
  <1>1. buckets \in Seq(Bucket) /\ Apart(buckets) /\ Len(buckets) <= MaxBuckets
        /\ \A p \in DOMAIN permits : Has(buckets, permits[p].tenant)
    BY DEF AdmissionInv, AdmissionTyped, PermitsCounted
  <1>2. CASE bs = buckets
    BY <1>1, <1>2
  <1>3. CASE bs # buckets
    <2> DEFINE k == CHOOSE e \in Evictable : \A i \in Evictable : e <= i
    <2>1. ~Has(buckets, t) /\ Evictable # {} /\ bs = RemoveAt(buckets, k)
      BY <1>3 DEF AfterEviction
    <2>2. Evictable \subseteq DOMAIN buckets /\ DOMAIN buckets = 1..Len(buckets) /\ Len(buckets) \in Nat
      BY <1>1 DEF Evictable
    <2>3. k \in Evictable
      <3>1. PICK m \in Evictable : TRUE
        BY <2>1
      <3>2. Evictable \subseteq Nat
        BY <2>2
      <3>3. \E e \in Evictable : \A i \in Evictable : e <= i
        BY <3>1, <3>2, LeastOne
      <3> QED BY <3>3
    <2> HIDE DEF k
    <2> DEFINE from(i) == IF i < k THEN i ELSE i + 1
    <2>4. bs \in Seq(Bucket) /\ Len(bs) = Len(buckets) - 1 /\ \A i \in 1..(Len(buckets) - 1) : bs[i] = buckets[from(i)]
      BY <2>1, <2>2, <2>3, <1>1, OneRemoved
    <2>5. \A i \in DOMAIN bs : from(i) \in DOMAIN buckets \ {k} /\ bs[i] = buckets[from(i)]
      BY <2>2, <2>3, <2>4
    <2>6. Apart(bs)
      <3> SUFFICES ASSUME NEW i \in DOMAIN bs, NEW j \in DOMAIN bs, bs[i].tenant = bs[j].tenant PROVE i = j
        BY DEF Apart
      <3>1. from(i) = from(j)
        BY <2>5, <1>1 DEF Apart
      <3> QED BY <3>1, <2>2, <2>3, <2>4
    <2>7. \A j \in DOMAIN buckets : j # k => \E i \in DOMAIN bs : bs[i] = buckets[j]
      <3> SUFFICES ASSUME NEW j \in DOMAIN buckets, j # k PROVE \E i \in DOMAIN bs : bs[i] = buckets[j]
        OBVIOUS
      <3>1. CASE j < k
        <4>1. j \in DOMAIN bs /\ from(j) = j
          BY <3>1, <2>2, <2>3, <2>4
        <4> QED BY <4>1, <2>5
      <3>2. CASE j > k
        <4>1. j - 1 \in DOMAIN bs /\ from(j - 1) = j
          BY <3>2, <2>2, <2>3, <2>4
        <4> QED BY <4>1, <2>5
      <3> QED BY <3>1, <3>2, <2>2, <2>3
    <2>8. ASSUME NEW p \in DOMAIN permits PROVE Has(bs, permits[p].tenant)
      <3>1. PICK j \in DOMAIN buckets : buckets[j].tenant = permits[p].tenant
        BY <1>1 DEF Has
      <3>2. j # k
        <4>1. SUFFICES ASSUME j = k PROVE FALSE
          OBVIOUS
        <4>2. permits[p] \in Requests /\ "tenant" \in Dimensions
          BY DEF AdmissionInv, AdmissionTyped, Dimensions
        <4>3. KeyOf(permits[p], "tenant") = <<permits[p].tenant>>
          BY DEF KeyOf
        <4>4. inUse["tenant"][<<permits[p].tenant>>] = 0
          BY <2>3, <3>1, <4>1 DEF Evictable
        <4>5. <<permits[p].tenant>> \in KeysOf("tenant")
          BY <4>2, <4>3 DEF KeysOf
        <4>6. Cardinality(Holders("tenant", <<permits[p].tenant>>)) = 0
          BY <4>2, <4>4, <4>5 DEF AdmissionInv, PermitsCounted, Holders
        <4>7. p \in Holders("tenant", <<permits[p].tenant>>)
          BY <4>3 DEF Holders
        <4>8. IsFiniteSet(Holders("tenant", <<permits[p].tenant>>))
          BY HoldersFinite
        <4> QED BY <4>6, <4>7, <4>8, FS_EmptySet
      <3> QED BY <3>1, <3>2, <2>7 DEF Has
    <2>9. ~Has(bs, t)
      BY <2>1, <2>5 DEF Has
    <2>10. Len(bs) <= Len(buckets) /\ Len(bs) < MaxBuckets
      BY <2>2, <2>4, <1>1, PositiveLimits
    <2>11. \A i \in DOMAIN bs : \E j \in DOMAIN buckets : bs[i] = buckets[j]
      BY <2>5
    <2> HIDE DEF from
    <2> QED BY <2>1, <2>4, <2>6, <2>8, <2>9, <2>10, <2>11
  <1> QED BY <1>2, <1>3
\* The bucket of a tenant is written in its place, or behind the others.
LEMMA SetFacts ==
  ASSUME NEW bs \in Seq(Bucket), Apart(bs), NEW t \in Tenants, NEW n \in Nat, ticks \in Nat,
         NEW new, new = SetBucket(bs, t, n)
  PROVE  /\ new \in Seq(Bucket) /\ Apart(new)
         /\ Len(new) = Len(bs) + (IF Has(bs, t) THEN 0 ELSE 1)
         /\ \A u : Has(new, u) <=> u = t \/ Has(bs, u)
         /\ \A i \in DOMAIN new : \/ new[i] = [tenant |-> t, tokens |-> n, last |-> ticks]
                                  \/ \E j \in DOMAIN bs : bs[j].tenant # t /\ new[i] = bs[j]
  <1> DEFINE entry == [tenant |-> t, tokens |-> n, last |-> ticks]
  <1>1. entry \in Bucket /\ entry.tenant = t
    BY DEF Bucket
  <1>2. DOMAIN bs = 1..Len(bs) /\ Len(bs) \in Nat /\ \A i \in DOMAIN bs : bs[i] \in Bucket
    OBVIOUS
  <1> HIDE DEF entry
  <1>3. CASE Has(bs, t)
    <2>1. new = [k \in DOMAIN bs |-> IF bs[k].tenant = t THEN entry ELSE bs[k]]
      BY <1>3 DEF SetBucket, entry
    <2>2. new \in Seq(Bucket) /\ Len(new) = Len(bs) /\ DOMAIN new = DOMAIN bs
      <3>1. new \in [1..Len(bs) -> Bucket]
        BY <2>1, <1>1, <1>2
      <3> QED BY <3>1, <1>2
    <2>3. \A i \in DOMAIN bs : new[i].tenant = bs[i].tenant
      BY <2>1, <1>1
    <2>4. Apart(new)
      BY <2>2, <2>3 DEF Apart
    <2>5. \A u : Has(new, u) <=> u = t \/ Has(bs, u)
      BY <2>2, <2>3, <1>3 DEF Has
    <2> QED BY <2>1, <2>2, <2>4, <2>5, <1>3 DEF entry
  <1>4. CASE ~Has(bs, t)
    <2>1. new = Append(bs, entry)
      BY <1>4 DEF SetBucket, entry
    <2>2. new \in Seq(Bucket) /\ Len(new) = Len(bs) + 1
      BY <2>1, <1>1
    <2>3. /\ \A i \in DOMAIN bs : i \in DOMAIN new /\ new[i] = bs[i]
          /\ Len(bs) + 1 \in DOMAIN new /\ new[Len(bs) + 1] = entry
          /\ \A i \in DOMAIN new : i = Len(bs) + 1 \/ i \in DOMAIN bs
      BY <2>1, <1>1, <1>2
    <2>4. \A i \in DOMAIN bs : bs[i].tenant # t
      BY <1>4 DEF Has
    <2>5. Apart(new)
      BY <2>3, <2>4, <1>1 DEF Apart
    <2>6. \A u : Has(new, u) <=> u = t \/ Has(bs, u)
      BY <2>3, <1>1 DEF Has
    <2>7. \A i \in DOMAIN new : new[i] = entry \/ \E j \in DOMAIN bs : bs[j].tenant # t /\ new[i] = bs[j]
      BY <2>3, <2>4
    <2> QED BY <2>2, <2>5, <2>6, <2>7, <1>4 DEF entry
  <1> QED BY <1>3, <1>4

\* The refill of a bucket: what its burst leaves after the admissions so far.
LEMMA RefillFacts ==
  ASSUME AdmissionInv, NEW t \in Tenants, NEW bs \in Seq(Bucket), Apart(bs),
         \A i \in DOMAIN bs : \E j \in DOMAIN buckets : bs[i] = buckets[j],
         NEW n, n = Refill(bs, t), NEW times, times = LogOf(bs)[t]
  PROVE  /\ n \in Nat /\ n <= Burst /\ times \in Seq(Nat)
         /\ \A i \in DOMAIN times : n + (Len(times) - i + 1) <= Burst + (ticks - times[i])
  <1>1. Burst \in Nat /\ ticks \in Nat /\ admittedAt \in [Tenants -> Seq(Nat)]
    BY PositiveLimits DEF AdmissionInv, AdmissionTyped
  <1>2. CASE ~Has(bs, t)
    <2>1. times = << >> /\ n = Burst
      BY <1>2 DEF LogOf, Refill
    <2> QED BY <2>1, <1>1
  <1>3. CASE Has(bs, t)
    <2>1. times = admittedAt[t]
      BY <1>3 DEF LogOf
    <2> DEFINE b == BucketOf(bs, t)
    <2>2. PICK k \in DOMAIN bs : b = bs[k] /\ bs[k].tenant = t
      BY <1>3 DEF Has, BucketOf
    <2>3. PICK j \in DOMAIN buckets : b = buckets[j]
      BY <2>2
    <2>4. b \in Bucket /\ b.tenant = t /\ Fits(b, times, ticks)
      BY <2>1, <2>2, <2>3 DEF AdmissionInv, AdmissionTyped
    <2>5. n = IF b.tokens + (ticks - b.last) < Burst THEN b.tokens + (ticks - b.last) ELSE Burst
      BY <1>3 DEF Refill
    <2> HIDE DEF b
    <2>6. b.tokens \in Nat /\ b.last \in Nat /\ b.last <= ticks /\ b.tokens <= Burst
      BY <2>4 DEF Bucket, Fits
    <2>7. n \in Nat /\ n <= Burst /\ n <= b.tokens + (ticks - b.last)
      <3> DEFINE had == b.tokens  since == b.last
      <3>1. /\ had \in Nat /\ since \in Nat /\ since <= ticks /\ had <= Burst /\ ticks \in Nat /\ Burst \in Nat
            /\ n = IF had + (ticks - since) < Burst THEN had + (ticks - since) ELSE Burst
        BY <2>5, <2>6, <1>1
      <3> HIDE DEF had, since
      <3>2. had + (ticks - since) < Burst => n \in Nat /\ n <= Burst /\ n <= had + (ticks - since)
        BY <3>1
      <3>3. ~(had + (ticks - since) < Burst) => n \in Nat /\ n <= Burst /\ n <= had + (ticks - since)
        BY <3>1
      <3>4. n \in Nat /\ n <= Burst /\ n <= had + (ticks - since)
        BY <3>2, <3>3, Zenon
      <3> QED BY <3>4 DEF had, since
    <2>8. times \in Seq(Nat) /\ Len(times) \in Nat /\ DOMAIN times = 1..Len(times)
      BY <2>1, <1>1
    <2>9. ASSUME NEW i \in DOMAIN times
          PROVE  n + (Len(times) - i + 1) <= Burst + (ticks - times[i])
      <3>1. i \in Nat /\ Len(times) \in Nat /\ times[i] \in Nat
        BY <2>8
      <3>2. b.tokens + (Len(times) - i + 1) <= Burst + (b.last - times[i])
        BY <2>4 DEF Fits
      <3> DEFINE spent == Len(times) - i + 1
      <3>3. spent \in Int /\ b.tokens + spent <= Burst + (b.last - times[i])
        BY <3>1, <3>2
      <3> HIDE DEF spent
      <3> DEFINE at == times[i]  was == b.tokens  since == b.last
      <3>5. /\ at \in Int /\ was \in Int /\ since \in Int /\ n \in Int /\ Burst \in Int /\ ticks \in Int /\ spent \in Int
            /\ was + spent <= Burst + (since - at) /\ n <= was + (ticks - since)
        <4>1. at \in Int /\ was \in Int /\ since \in Int /\ n \in Int /\ Burst \in Int /\ ticks \in Int /\ spent \in Int
          <5>1. at \in Int
            BY <3>1
          <5>2. was \in Int /\ since \in Int
            BY <2>6
          <5>3. n \in Int /\ Burst \in Int /\ ticks \in Int
            BY <2>7, <1>1
          <5> HIDE DEF at, was, since
          <5> QED BY <5>1, <5>2, <5>3, <3>3
        <4>2. was + spent <= Burst + (since - at)
          BY <3>3
        <4>3. n <= was + (ticks - since)
          BY <2>7
        <4> QED BY <4>1, <4>2, <4>3
      <3> HIDE DEF at, was, since
      <3>6. n + spent <= Burst + (ticks - at)
        BY <3>5
      <3>4. n + spent <= Burst + (ticks - times[i])
        BY <3>6 DEF at
      <3> QED BY <3>4 DEF spent
    <2> QED BY <2>7, <2>8, <2>9
  <1> QED BY <1>2, <1>3

\* Nothing happens.
LEMMA SilentAdmission == AdmissionInv /\ UNCHANGED admissionVars => AdmissionInv'
  <1> SUFFICES ASSUME AdmissionInv, UNCHANGED admissionVars PROVE AdmissionInv'
    OBVIOUS
  <1>1. UNCHANGED <<inUse, buckets, permits, given, ticks, admittedAt>>
    BY DEF admissionVars
  <1>2. AdmissionTyped'
    BY <1>1 DEF AdmissionInv, AdmissionTyped, Apart
  <1>3. PermitsCounted'
    BY <1>1 DEF AdmissionInv, PermitsCounted, Has
  <1>4. RateBounded'
    BY <1>1 DEF AdmissionInv, RateBounded
  <1>5. \A k \in DOMAIN buckets' : Fits(buckets[k], admittedAt[buckets[k].tenant], ticks)'
    BY <1>1 DEF AdmissionInv, Fits
  <1>6. \A t \in Tenants : ~Has(buckets, t)' => admittedAt'[t] = << >>
    BY <1>1 DEF AdmissionInv, Has
  <1> QED BY <1>1, <1>2, <1>3, <1>4, <1>5, <1>6 DEF AdmissionInv, Has, Fits

\* A key of another request with the same value counts it as well.
LEMMA TakenFacts ==
  ASSUME AdmissionInv, NEW r \in Requests, NEW dim \in Dimensions, NEW k \in KeysOf(dim),
         inUse' = [d \in Dimensions |-> [inUse[d] EXCEPT ![KeyOf(r, d)] = @ + 1]]
  PROVE  /\ inUse'[dim] \in [KeysOf(dim) -> Nat]
         /\ inUse'[dim][k] = IF KeyOf(r, dim) = k THEN inUse[dim][k] + 1 ELSE inUse[dim][k]
  <1>1. inUse[dim] \in [KeysOf(dim) -> Nat] /\ KeyOf(r, dim) \in KeysOf(dim)
    BY DEF AdmissionInv, AdmissionTyped, KeysOf
  <1>2. inUse'[dim] = [inUse[dim] EXCEPT ![KeyOf(r, dim)] = inUse[dim][KeyOf(r, dim)] + 1]
    OBVIOUS
  <1> QED BY <1>1, <1>2

\* A tenant is admitted, or its refill is kept: its bucket is written and, if it is
\* admitted, the time.
LEMMA BucketsWritten ==
  ASSUME AdmissionInv, NEW t \in Tenants, NEW bs, bs = AfterEviction(t),
         NEW n, n = Refill(bs, t), NEW left \in Nat, NEW times,
         \/ times = LogOf(bs)[t] /\ left = n
         \/ times = Append(LogOf(bs)[t], ticks) /\ left = n - 1,
         Has(bs, t) \/ Len(bs) < MaxBuckets,
         buckets' = SetBucket(bs, t, left), admittedAt' = [LogOf(bs) EXCEPT ![t] = times], ticks' = ticks
  PROVE  /\ buckets' \in Seq(Bucket) /\ Apart(buckets') /\ Len(buckets') <= MaxBuckets
         /\ admittedAt' \in [Tenants -> Seq(Nat)]
         /\ \A k \in DOMAIN buckets' : Fits(buckets'[k], admittedAt'[buckets'[k].tenant], ticks)
         /\ \A u \in Tenants : ~Has(buckets', u) => admittedAt'[u] = << >>
         /\ RateBounded'
         /\ \A p \in DOMAIN permits : Has(buckets', permits[p].tenant)
         /\ Has(buckets', t)
  <1>1. /\ bs \in Seq(Bucket) /\ Apart(bs) /\ Len(bs) <= Len(buckets)
        /\ \A i \in DOMAIN bs : \E j \in DOMAIN buckets : bs[i] = buckets[j]
        /\ \A p \in DOMAIN permits : Has(bs, permits[p].tenant)
        /\ bs # buckets => Len(bs) < MaxBuckets
    BY EvictionFacts
  <1>2. Burst \in Nat /\ ticks \in Nat /\ admittedAt \in [Tenants -> Seq(Nat)] /\ Len(buckets) <= MaxBuckets /\ RateBounded
    BY PositiveLimits DEF AdmissionInv, AdmissionTyped, PermitsCounted
  <1> DEFINE old == LogOf(bs)[t]
  <1>3. /\ n \in Nat /\ n <= Burst /\ old \in Seq(Nat)
        /\ \A i \in DOMAIN old : n + (Len(old) - i + 1) <= Burst + (ticks - old[i])
    BY <1>1, RefillFacts
  <1>4. LogOf(bs) \in [Tenants -> Seq(Nat)]
    BY <1>2 DEF LogOf
  <1>5. /\ buckets' \in Seq(Bucket) /\ Apart(buckets')
        /\ Len(buckets') = Len(bs) + (IF Has(bs, t) THEN 0 ELSE 1)
        /\ \A u : Has(buckets', u) <=> u = t \/ Has(bs, u)
        /\ \A i \in DOMAIN buckets' : \/ buckets'[i] = [tenant |-> t, tokens |-> left, last |-> ticks]
                                      \/ \E j \in DOMAIN bs : bs[j].tenant # t /\ buckets'[i] = bs[j]
    <2>1. ticks \in Nat /\ left \in Nat /\ t \in Tenants
      BY <1>2
    <2> QED BY <2>1, <1>1, SetFacts
  <1> HIDE DEF old
  <1>6. (times = old /\ left = n) \/ (times = Append(old, ticks) /\ left = n - 1)
    BY DEF old
  <1>7. times \in Seq(Nat) /\ left <= Burst
        /\ \A i \in DOMAIN times : left + (Len(times) - i + 1) <= Burst + (ticks - times[i])
    <2>1. CASE times = old /\ left = n
      BY <2>1, <1>3
    <2>2. CASE times = Append(old, ticks) /\ left = n - 1
      <3>0. old \in Seq(Nat) /\ ticks \in Nat /\ n \in Nat /\ n <= Burst /\ Burst \in Nat
        BY <1>2, <1>3
      <3>1. times \in Seq(Nat) /\ Len(times) = Len(old) + 1 /\ Len(old) \in Nat /\ left <= Burst
        <4>1. Append(old, ticks) \in Seq(Nat) /\ Len(Append(old, ticks)) = Len(old) + 1 /\ Len(old) \in Nat
          BY <3>0
        <4> QED BY <4>1, <3>0, <2>2
      <3>2. ASSUME NEW i \in DOMAIN times PROVE left + (Len(times) - i + 1) <= Burst + (ticks - times[i])
        <4>1. i \in Nat /\ 1 <= i /\ i <= Len(old) + 1
          BY <3>1
        <4>2. CASE i <= Len(old)
          <5>0. i \in DOMAIN old
            BY <4>1, <4>2, <3>0
          <5>1. i \in DOMAIN old /\ times[i] = old[i] /\ old[i] \in Nat
            <6>1. Append(old, ticks)[i] = old[i] /\ old[i] \in Nat
              BY <5>0, <3>0
            <6> QED BY <6>1, <5>0, <2>2
          <5>2. n + (Len(old) - i + 1) <= Burst + (ticks - old[i])
            BY <5>1, <1>3
          <5> DEFINE at == old[i]  many == Len(old)
          <5>3. /\ at \in Int /\ many \in Int /\ i \in Int /\ n \in Int /\ Burst \in Int /\ ticks \in Int
                /\ n + (many - i + 1) <= Burst + (ticks - at)
            BY <5>1, <5>2, <3>0, <3>1, <4>1, <1>2
          <5>4. left = n - 1 /\ Len(times) = many + 1 /\ times[i] = at
            BY <5>1, <3>1, <2>2
          <5> HIDE DEF at, many
          <5>5. (n - 1) + ((many + 1) - i + 1) <= Burst + (ticks - at)
            BY <5>3
          <5> QED BY <5>4, <5>5
        <4>3. CASE i = Len(old) + 1
          <5>1. times[i] = ticks
            BY <4>3, <2>2, <1>2, <1>3
          <5> QED BY <5>1, <4>3, <3>1, <2>2, <1>2, <1>3
        <4> QED BY <4>1, <4>2, <4>3, <3>1
      <3> QED BY <3>1, <3>2
    <2> QED BY <2>1, <2>2, <1>6
  <1>8. admittedAt' \in [Tenants -> Seq(Nat)] /\ admittedAt'[t] = times
        /\ \A u \in Tenants : u # t => admittedAt'[u] = IF Has(bs, u) THEN admittedAt[u] ELSE << >>
    BY <1>4, <1>7 DEF LogOf
  <1>9. ASSUME NEW k \in DOMAIN buckets' PROVE Fits(buckets'[k], admittedAt'[buckets'[k].tenant], ticks)
    <2>1. CASE buckets'[k] = [tenant |-> t, tokens |-> left, last |-> ticks]
      BY <2>1, <1>2, <1>7, <1>8 DEF Fits
    <2>2. CASE \E j \in DOMAIN bs : bs[j].tenant # t /\ buckets'[k] = bs[j]
      <3>1. PICK j \in DOMAIN bs : bs[j].tenant # t /\ buckets'[k] = bs[j]
        BY <2>2
      <3>2. PICK m \in DOMAIN buckets : bs[j] = buckets[m]
        BY <1>1
      <3>3. Fits(bs[j], admittedAt[bs[j].tenant], ticks) /\ bs[j].tenant \in Tenants /\ Has(bs, bs[j].tenant)
        <4>1. Fits(bs[j], admittedAt[bs[j].tenant], ticks)
          BY <3>2 DEF AdmissionInv
        <4>2. bs[j] \in Bucket
          BY <1>1
        <4>3. bs[j].tenant \in Tenants
          BY <4>2 DEF Bucket
        <4> QED BY <4>1, <4>3 DEF Has
      <3>4. admittedAt'[bs[j].tenant] = admittedAt[bs[j].tenant]
        BY <3>1, <3>3, <1>8
      <3> QED BY <3>1, <3>3, <3>4 DEF Fits
    <2> QED BY <2>1, <2>2, <1>5
  <1>10. \A u \in Tenants : ~Has(buckets', u) => admittedAt'[u] = << >>
    BY <1>5, <1>8
  <1>11. RateBounded'
    <2> SUFFICES ASSUME NEW u \in Tenants, NEW i \in DOMAIN admittedAt'[u], NEW j \in DOMAIN admittedAt'[u], i <= j
                 PROVE  j - i + 1 <= Burst + (admittedAt'[u][j] - admittedAt'[u][i])
      BY DEF RateBounded
    <2>1. CASE u # t
      <3>1. admittedAt'[u] = admittedAt[u]
        BY <2>1, <1>8
      <3> QED BY <3>1, <1>2 DEF RateBounded
    <2>2. CASE u = t
      <3>1. old = admittedAt[t] \/ old = << >>
        BY DEF old, LogOf
      <3>2. CASE i \in DOMAIN old /\ j \in DOMAIN old /\ times[i] = old[i] /\ times[j] = old[j]
        <4>1. old = admittedAt[t]
          BY <3>1, <3>2
        <4>2. j - i + 1 <= Burst + (old[j] - old[i])
          BY <4>1, <3>2, <1>2 DEF RateBounded
        <4> QED BY <4>2, <3>2, <2>2, <1>8
      <3>3. CASE times[j] = ticks /\ j = Len(times)
        <4>1. left + (Len(times) - i + 1) <= Burst + (ticks - times[i])
          BY <2>2, <1>7, <1>8
        <4>0. times \in Seq(Nat) /\ i \in DOMAIN times /\ j \in DOMAIN times
          BY <2>2, <1>7, <1>8
        <4>2. i \in Nat /\ j \in Nat /\ times[i] \in Nat
          <5>1. DOMAIN times = 1..Len(times) /\ Len(times) \in Nat
            BY <4>0
          <5> DEFINE places == Len(times)
          <5>3. i \in 1..places /\ j \in 1..places /\ places \in Nat
            BY <5>1, <4>0, Zenon
          <5> HIDE DEF places
          <5>2. i \in Nat /\ j \in Nat
            BY <5>3
          <5> QED BY <5>2, <4>0
        <4> DEFINE at == times[i]
        <4>3. /\ at \in Int /\ i \in Int /\ j \in Int /\ left \in Nat /\ Burst \in Int /\ ticks \in Int
              /\ left + (j - i + 1) <= Burst + (ticks - at)
          BY <4>1, <4>2, <3>3, <1>2
        <4>4. admittedAt'[u][i] = at /\ admittedAt'[u][j] = ticks
          BY <3>3, <2>2, <1>8
        <4> HIDE DEF at
        <4>5. j - i + 1 <= Burst + (ticks - at)
          BY <4>3
        <4> QED BY <4>4, <4>5
      <3>4. \/ i \in DOMAIN old /\ j \in DOMAIN old /\ times[i] = old[i] /\ times[j] = old[j]
            \/ times[j] = ticks /\ j = Len(times)
        <4>1. CASE times = old
          BY <4>1, <2>2, <1>8
        <4>2. CASE times = Append(old, ticks)
          <5>1. i \in 1..(Len(old) + 1) /\ j \in 1..(Len(old) + 1) /\ Len(times) = Len(old) + 1 /\ Len(old) \in Nat
            BY <4>2, <2>2, <1>2, <1>3, <1>8
          <5>2. CASE j = Len(old) + 1
            BY <5>1, <5>2, <4>2, <1>2, <1>3
          <5>3. CASE j <= Len(old)
            <6>1. i \in DOMAIN old /\ j \in DOMAIN old
              BY <5>1, <5>3, <1>3
            <6>2. Append(old, ticks)[i] = old[i] /\ Append(old, ticks)[j] = old[j]
              <7>1. old \in Seq(Nat) /\ ticks \in Nat
                BY <1>2, <1>3
              <7>2. \A m \in DOMAIN old : Append(old, ticks)[m] = old[m]
                BY <7>1
              <7> QED BY <6>1, <7>2
            <6> QED BY <6>1, <6>2, <4>2
          <5> QED BY <5>1, <5>2, <5>3
        <4> QED BY <4>1, <4>2, <1>6
      <3> QED BY <3>2, <3>3, <3>4
    <2> QED BY <2>1, <2>2
  <1>12. Len(buckets') <= MaxBuckets
    <2>1. Len(bs) \in Nat /\ Len(buckets) \in Nat /\ MaxBuckets \in Nat
      BY <1>1, PositiveLimits DEF AdmissionInv, AdmissionTyped
    <2> QED BY <2>1, <1>1, <1>2, <1>5
  <1>13. \A p \in DOMAIN permits : Has(buckets', permits[p].tenant)
    BY <1>1, <1>5
  <1>14. Has(buckets', t)
    BY <1>5
  <1> QED BY <1>5, <1>8, <1>9, <1>10, <1>11, <1>12, <1>13, <1>14

\* A permit is given out: each of its keys counts one more execution.
LEMMA PermitsTaken ==
  ASSUME AdmissionInv, NEW r \in Requests, ~AtLimit(r),
         inUse' = [dim \in Dimensions |-> [inUse[dim] EXCEPT ![KeyOf(r, dim)] = @ + 1]],
         permits' = [p \in DOMAIN permits \cup {given + 1} |-> IF p = given + 1 THEN r ELSE permits[p]]
  PROVE  /\ \A dim \in Dimensions : inUse'[dim] \in [KeysOf(dim) -> Nat]
         /\ DOMAIN inUse' = Dimensions
         /\ \A dim \in Dimensions : \A k \in KeysOf(dim) :
               inUse'[dim][k] = Cardinality(Holders(dim, k)') /\ inUse'[dim][k] <= LimitOf[dim]
  <1>1. given \in Nat /\ DOMAIN permits \subseteq 1..given /\ given + 1 \notin DOMAIN permits
    BY DEF AdmissionInv, AdmissionTyped
  <1>2. ASSUME NEW dim \in Dimensions, NEW k \in KeysOf(dim)
        PROVE  /\ inUse'[dim] \in [KeysOf(dim) -> Nat]
               /\ inUse'[dim][k] = Cardinality(Holders(dim, k)') /\ inUse'[dim][k] <= LimitOf[dim]
    <2>1. /\ inUse'[dim] \in [KeysOf(dim) -> Nat]
          /\ inUse'[dim][k] = IF KeyOf(r, dim) = k THEN inUse[dim][k] + 1 ELSE inUse[dim][k]
      BY TakenFacts
    <2>2. inUse[dim][k] = Cardinality(Holders(dim, k)) /\ inUse[dim][k] <= LimitOf[dim] /\ IsFiniteSet(Holders(dim, k))
      BY HoldersFinite DEF AdmissionInv, PermitsCounted, Holders
    <2>3. DOMAIN permits' = DOMAIN permits \cup {given + 1} /\ permits'[given + 1] = r
          /\ \A p \in DOMAIN permits : permits'[p] = permits[p]
      BY <1>1
    <2>4. CASE KeyOf(r, dim) = k
      <3>1. Holders(dim, k)' = Holders(dim, k) \cup {given + 1} /\ given + 1 \notin Holders(dim, k)
        BY <2>3, <2>4, <1>1 DEF Holders, KeyOf
      <3>2. Cardinality(Holders(dim, k)') = Cardinality(Holders(dim, k)) + 1
        BY <3>1, <2>2, FS_AddElement
      <3>3. inUse[dim][k] < LimitOf[dim]
        <4>1. ~(inUse[dim][k] >= LimitOf[dim])
          BY <2>4 DEF AtLimit
        <4>2. inUse[dim][k] \in Nat /\ LimitOf[dim] \in Nat
          BY PositiveLimits DEF AdmissionInv, AdmissionTyped
        <4> QED BY <4>1, <4>2
      <3>4. inUse[dim][k] \in Nat /\ LimitOf[dim] \in Nat
        BY PositiveLimits DEF AdmissionInv, AdmissionTyped
      <3> QED BY <3>2, <3>3, <3>4, <2>1, <2>2, <2>4
    <2>5. CASE KeyOf(r, dim) # k
      <3>1. Holders(dim, k)' = Holders(dim, k)
        BY <2>3, <2>5, <1>1 DEF Holders, KeyOf
      <3> QED BY <3>1, <2>1, <2>2, <2>5
    <2> QED BY <2>1, <2>4, <2>5
  <1>3. \A dim \in Dimensions : inUse'[dim] \in [KeysOf(dim) -> Nat]
    <2> SUFFICES ASSUME NEW dim \in Dimensions PROVE inUse'[dim] \in [KeysOf(dim) -> Nat]
      OBVIOUS
    <2>1. KeyOf(r, dim) \in KeysOf(dim)
      BY DEF KeysOf
    <2> QED BY <2>1, <1>2
  <1> QED BY <1>2, <1>3

\* A permit is given back, once.
LEMMA ReleaseKeeps ==
  ASSUME AdmissionInv, NEW p \in 1..MaxPermits, Release(p)
  PROVE  AdmissionInv'
  <1> DEFINE r == permits[p]
  <1>1. p \in DOMAIN permits /\ r \in Requests /\ UNCHANGED <<buckets, given, ticks, admittedAt>>
    BY DEF Release, AdmissionInv, AdmissionTyped
  <1>2. /\ permits' = [q \in DOMAIN permits \ {p} |-> permits[q]]
        /\ DOMAIN permits' = DOMAIN permits \ {p}
        /\ \A j \in DOMAIN permits \ {p} : permits'[j] = permits[j]
    BY DEF Release
  <1>3. inUse' = [dim \in Dimensions |-> [inUse[dim] EXCEPT ![KeyOf(r, dim)] = @ - 1]]
    BY DEF Release, GivenBack
  <1> HIDE DEF r
  <1>4. ASSUME NEW dim \in Dimensions, NEW k \in KeysOf(dim)
        PROVE  /\ inUse'[dim] \in [KeysOf(dim) -> Nat]
               /\ inUse'[dim][k] = Cardinality(Holders(dim, k)') /\ inUse'[dim][k] <= LimitOf[dim]
    <2>1. inUse[dim] \in [KeysOf(dim) -> Nat] /\ KeyOf(r, dim) \in KeysOf(dim)
      BY <1>1 DEF AdmissionInv, AdmissionTyped, KeysOf
    <2>2. inUse'[dim] = [inUse[dim] EXCEPT ![KeyOf(r, dim)] = inUse[dim][KeyOf(r, dim)] - 1]
      BY <1>3
    <2>3. \A j \in KeysOf(dim) : inUse[dim][j] = Cardinality(Holders(dim, j)) /\ inUse[dim][j] <= LimitOf[dim]
      BY DEF AdmissionInv, PermitsCounted, Holders
    <2>4. p \in Holders(dim, KeyOf(r, dim))
      BY <1>1 DEF Holders, r
    <2>5. inUse[dim][KeyOf(r, dim)] - 1 \in Nat
      <3>1. IsFiniteSet(Holders(dim, KeyOf(r, dim)))
        BY HoldersFinite
      <3>2. inUse[dim][KeyOf(r, dim)] # 0
        BY <3>1, <2>1, <2>3, <2>4, FS_EmptySet
      <3> QED BY <3>2, <2>1
    <2>6. inUse'[dim] \in [KeysOf(dim) -> Nat]
      BY <2>1, <2>2, <2>5
    <2>7. LimitOf[dim] \in Nat /\ inUse[dim][k] \in Nat
      BY <2>1, PositiveLimits
    <2>8. CASE KeyOf(r, dim) = k
      <3>1. Holders(dim, k)' = Holders(dim, k) \ {p}
        BY <1>2 DEF Holders, KeyOf
      <3>2. Cardinality(Holders(dim, k)') = Cardinality(Holders(dim, k)) - 1
        BY <3>1, <2>4, <2>8, HoldersFinite, FS_RemoveElement
      <3>3. inUse'[dim][k] = inUse[dim][k] - 1
        BY <2>1, <2>2, <2>8
      <3> QED BY <3>2, <3>3, <2>3, <2>6, <2>7
    <2>9. CASE KeyOf(r, dim) # k
      <3>1. p \notin Holders(dim, k)
        BY <2>9 DEF Holders, r
      <3>2. Holders(dim, k)' = Holders(dim, k)
        BY <3>1, <1>2 DEF Holders, KeyOf
      <3>3. inUse'[dim][k] = inUse[dim][k]
        BY <2>1, <2>2, <2>9
      <3> QED BY <3>2, <3>3, <2>3, <2>6
    <2> QED BY <2>8, <2>9
  <1>5. ASSUME NEW dim \in Dimensions PROVE inUse'[dim] \in [KeysOf(dim) -> Nat]
    <2>1. KeyOf(r, dim) \in KeysOf(dim)
      BY <1>1 DEF KeysOf
    <2> QED BY <2>1, <1>4
  <1>6. AdmissionTyped'
    <2>1. DOMAIN inUse' = Dimensions
      BY <1>3
    <2>2. permits' \in [DOMAIN permits' -> Requests] /\ DOMAIN permits' \subseteq 1..given
      <3>1. permits \in [DOMAIN permits -> Requests] /\ DOMAIN permits \subseteq 1..given
        BY DEF AdmissionInv, AdmissionTyped
      <3>2. \A j \in DOMAIN permits \ {p} : permits[j] \in Requests
        BY <3>1
      <3>3. [j \in DOMAIN permits \ {p} |-> permits[j]] \in [DOMAIN permits \ {p} -> Requests]
        BY <3>2
      <3> QED BY <3>1, <3>3, <1>2
    <2> QED BY <2>1, <2>2, <1>1, <1>5 DEF AdmissionInv, AdmissionTyped, Apart
  <1>7. PermitsCounted'
    <2>1. \A q \in DOMAIN permits' : Has(buckets', permits'[q].tenant)
      BY <1>1, <1>2 DEF AdmissionInv, PermitsCounted
    <2>2. Len(buckets') <= MaxBuckets
      BY <1>1 DEF AdmissionInv, PermitsCounted
    <2> QED BY <2>1, <2>2, <1>4 DEF PermitsCounted, Holders
  <1> QED BY <1>1, <1>6, <1>7 DEF AdmissionInv, RateBounded, Fits, Has

LEMMA AcquireKeeps ==
  ASSUME AdmissionInv, NEW r \in Requests, Acquire(r)
  PROVE  AdmissionInv'
  <1> DEFINE t == r.tenant
             bs == AfterEviction(t)
             n == Refill(bs, t)
  <1>1. t \in Tenants /\ ticks' = ticks /\ ticks \in Nat /\ given \in Nat
    BY DEF Acquire, Tenants, AdmissionInv, AdmissionTyped
  <1>2. /\ bs \in Seq(Bucket) /\ Apart(bs) /\ Len(bs) <= Len(buckets)
        /\ \A i \in DOMAIN bs : \E j \in DOMAIN buckets : bs[i] = buckets[j]
        /\ bs # buckets => Len(bs) < MaxBuckets
    BY <1>1, EvictionFacts
  <1>3. n \in Nat
    BY <1>1, <1>2, RefillFacts
  <1>4. ASSUME UNCHANGED <<inUse, permits, given>>, NEW left \in Nat, left = n,
               Has(bs, t) \/ Len(bs) < MaxBuckets,
               buckets' = SetBucket(bs, t, left), admittedAt' = LogOf(bs)
        PROVE  AdmissionInv'
    <2>1. admittedAt' = [LogOf(bs) EXCEPT ![t] = LogOf(bs)[t]]
      BY <1>1, <1>4 DEF LogOf
    <2> DEFINE times == LogOf(bs)[t]
    <2>2. admittedAt' = [LogOf(bs) EXCEPT ![t] = times] /\ times = LogOf(bs)[t]
      BY <2>1
    <2> HIDE DEF times, bs, n
    <2>3. /\ buckets' \in Seq(Bucket) /\ Apart(buckets') /\ Len(buckets') <= MaxBuckets
          /\ admittedAt' \in [Tenants -> Seq(Nat)]
          /\ \A k \in DOMAIN buckets' : Fits(buckets'[k], admittedAt'[buckets'[k].tenant], ticks)
          /\ \A u \in Tenants : ~Has(buckets', u) => admittedAt'[u] = << >>
          /\ RateBounded'
          /\ \A p \in DOMAIN permits : Has(buckets', permits[p].tenant)
      BY <2>2, <1>1, <1>4, BucketsWritten DEF bs, n
    <2>4. AdmissionTyped'
      BY <2>3, <1>1, <1>4 DEF AdmissionInv, AdmissionTyped, Apart
    <2>5. PermitsCounted'
      BY <2>3, <1>4 DEF AdmissionInv, PermitsCounted, Holders
    <2> QED BY <2>3, <2>4, <2>5, <1>1 DEF AdmissionInv, Has, Fits
  <1>5. ASSUME n >= 1, ~AtLimit(r), Has(bs, t) \/ Len(bs) < MaxBuckets, given' = given + 1,
               buckets' = SetBucket(bs, t, n - 1),
               inUse' = [dim \in Dimensions |-> [inUse[dim] EXCEPT ![KeyOf(r, dim)] = @ + 1]],
               permits' = [p \in DOMAIN permits \cup {given + 1} |-> IF p = given + 1 THEN r ELSE permits[p]],
               admittedAt' = [LogOf(bs) EXCEPT ![t] = Append(@, ticks)]
        PROVE  AdmissionInv'
    <2> DEFINE left == n - 1
               times == Append(LogOf(bs)[t], ticks)
    <2>1. left \in Nat /\ left = n - 1 /\ times = Append(LogOf(bs)[t], ticks)
      BY <1>3, <1>5
    <2>2. buckets' = SetBucket(bs, t, left) /\ admittedAt' = [LogOf(bs) EXCEPT ![t] = times]
      BY <1>1, <1>5 DEF LogOf
    <2> HIDE DEF left, times, bs, n
    <2>3. /\ buckets' \in Seq(Bucket) /\ Apart(buckets') /\ Len(buckets') <= MaxBuckets
          /\ admittedAt' \in [Tenants -> Seq(Nat)]
          /\ \A k \in DOMAIN buckets' : Fits(buckets'[k], admittedAt'[buckets'[k].tenant], ticks)
          /\ \A u \in Tenants : ~Has(buckets', u) => admittedAt'[u] = << >>
          /\ RateBounded'
          /\ \A p \in DOMAIN permits : Has(buckets', permits[p].tenant)
          /\ Has(buckets', t)
      <3>1. bs = AfterEviction(t) /\ n = Refill(bs, t)
        BY DEF bs, n
      <3>2. Has(bs, t) \/ Len(bs) < MaxBuckets
        BY <1>5
      <3> HIDE <1>5
      <3> QED BY <3>1, <3>2, <2>1, <2>2, <1>1, BucketsWritten
    <2>4. /\ \A dim \in Dimensions : inUse'[dim] \in [KeysOf(dim) -> Nat]
          /\ DOMAIN inUse' = Dimensions
          /\ \A dim \in Dimensions : \A k \in KeysOf(dim) :
                inUse'[dim][k] = Cardinality(Holders(dim, k)') /\ inUse'[dim][k] <= LimitOf[dim]
      BY <1>5, PermitsTaken
    <2>5. DOMAIN permits' = DOMAIN permits \cup {given + 1}
          /\ \A p \in DOMAIN permits' : permits'[p] = IF p = given + 1 THEN r ELSE permits[p]
      BY <1>5
    <2>6. permits' \in [DOMAIN permits' -> Requests] /\ DOMAIN permits' \subseteq 1..given'
      <3>1. permits \in [DOMAIN permits -> Requests] /\ DOMAIN permits \subseteq 1..given
        BY DEF AdmissionInv, AdmissionTyped
      <3> QED BY <3>1, <1>1, <1>5
    <2>7. AdmissionTyped'
      BY <2>3, <2>4, <2>6, <1>1, <1>5 DEF AdmissionTyped, Apart
    <2>8. PermitsCounted'
      <3>1. \A p \in DOMAIN permits' : Has(buckets', permits'[p].tenant)
        BY <2>3, <2>5
      <3> QED BY <3>1, <2>3, <2>4 DEF PermitsCounted, Holders
    <2> QED BY <2>3, <2>7, <2>8, <1>1 DEF AdmissionInv, Has, Fits
  <1>6. CASE ~Has(bs, t) /\ Len(bs) >= MaxBuckets
    <2>1. bs = buckets
      <3>1. Len(bs) \in Nat /\ MaxBuckets \in Nat
        BY <1>2, PositiveLimits
      <3> QED BY <3>1, <1>2, <1>6
    <2>2. UNCHANGED admissionVars
      BY <2>1, <1>6 DEF Acquire, admissionVars
    <2> QED BY <2>2, SilentAdmission
  <1>7. CASE Has(bs, t) \/ ~(Len(bs) >= MaxBuckets)
    <2>1. Has(bs, t) \/ Len(bs) < MaxBuckets
      <3>1. Len(bs) \in Nat /\ MaxBuckets \in Nat
        BY <1>2, PositiveLimits
      <3> QED BY <3>1, <1>7
    <2>2. CASE n < 1 \/ AtLimit(r)
      <3>1. buckets' = SetBucket(bs, t, n) /\ admittedAt' = LogOf(bs) /\ UNCHANGED <<inUse, permits, given>>
        BY <2>2, <1>7 DEF Acquire
      <3> QED BY <3>1, <2>1, <1>3, <1>4
    <2>3. CASE ~(n < 1 \/ AtLimit(r))
      <3>1. n >= 1 /\ ~AtLimit(r)
        BY <2>3, <1>3
      <3>2. /\ given' = given + 1 /\ buckets' = SetBucket(bs, t, n - 1)
            /\ inUse' = [dim \in Dimensions |-> [inUse[dim] EXCEPT ![KeyOf(r, dim)] = @ + 1]]
            /\ permits' = [p \in DOMAIN permits \cup {given + 1} |-> IF p = given + 1 THEN r ELSE permits[p]]
            /\ admittedAt' = [LogOf(bs) EXCEPT ![t] = Append(@, ticks)]
        BY <2>3, <1>7 DEF Acquire
      <3> QED BY <3>1, <3>2, <2>1, <1>5
    <2> QED BY <2>2, <2>3
  <1> QED BY <1>6, <1>7

LEMMA AdmissionStep == AdmissionInv /\ [AdmissionNext]_admissionVars => AdmissionInv'
  <1> SUFFICES ASSUME AdmissionInv, [AdmissionNext]_admissionVars PROVE AdmissionInv'
    OBVIOUS
  <1>1. ASSUME AdmissionTick PROVE AdmissionInv'
    <2>1. UNCHANGED <<inUse, buckets, permits, given, admittedAt>> /\ ticks' = ticks + 1 /\ ticks' \in Nat
      BY <1>1 DEF AdmissionTick, AdmissionInv, AdmissionTyped
    <2>2. AdmissionTyped' /\ PermitsCounted' /\ RateBounded'
      <3>1. AdmissionTyped'
        BY <2>1 DEF AdmissionInv, AdmissionTyped, Apart
      <3>2. PermitsCounted'
        BY <2>1 DEF AdmissionInv, PermitsCounted, Has
      <3>3. RateBounded'
        BY <2>1 DEF AdmissionInv, RateBounded
      <3> QED BY <3>1, <3>2, <3>3
    <2>3. ASSUME NEW k \in DOMAIN buckets PROVE Fits(buckets[k], admittedAt[buckets[k].tenant], ticks')
      <3>1. buckets[k] \in Bucket /\ Fits(buckets[k], admittedAt[buckets[k].tenant], ticks) /\ ticks \in Nat
        BY DEF AdmissionInv, AdmissionTyped
      <3>2. buckets[k].last \in Nat
        BY <3>1 DEF Bucket
      <3>3. buckets[k].last <= ticks'
        BY <3>1, <3>2, <2>1 DEF Fits
      <3> QED BY <3>1, <3>3 DEF Fits
    <2>4. \A k \in DOMAIN buckets' : Fits(buckets[k], admittedAt[buckets[k].tenant], ticks)'
      BY <2>1, <2>3 DEF Fits
    <2> QED BY <2>1, <2>2, <2>4 DEF AdmissionInv, Has
  <1> QED BY <1>1, AcquireKeeps, ReleaseKeeps, SilentAdmission DEF AdmissionNext

\* Admission of executions (AccountAdmissionController of src/operations/
\* account-admission.ts): for any number of tenants, requests, permits and buckets and
\* any limits, every counter is the number of executions that run under its key and
\* within its limit, a tenant with one keeps its bucket, and no stretch of time has
\* more admissions of a tenant than its burst and the refill allow.
THEOREM AdmissionIsExact == AdmissionSpec => [](PermitsCounted /\ RateBounded)
  <1>1. AdmissionInv => PermitsCounted /\ RateBounded
    BY DEF AdmissionInv
  <1> QED BY <1>1, AdmissionInitial, AdmissionStep, PTL DEF AdmissionSpec
================================================================================
