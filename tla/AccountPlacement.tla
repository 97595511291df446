--------------------------- MODULE AccountPlacement ---------------------------
(* Which worker holds the browser account of a tenant: the placement record in
   the shared store (src/distributed/account-placement.ts), the schedulers that
   resolve it (resolvePlacement of scheduler.ts), each with its own copy of the
   worker list, and the check a worker makes before it runs a task
   (assertCurrentAccountPlacement of worker-daemon.ts).  One account. *)
EXTENDS Integers, FiniteSets

CONSTANTS Nodes,          \* worker ids
          Namespaces,     \* storage namespaces
          Schedulers,
          MaxGeneration,  \* bound: failovers
          MaxMoves        \* bound: heartbeats missed, resumed and load changes

VARIABLES placement,  \* the record of the store: [worker, ns, generation, version]
          beats,      \* worker heartbeats in Redis: node -> [alive, free, ns]
          resolve,    \* scheduler -> its call of resolvePlacement
          answers,    \* what resolvePlacement returned: set of [worker, generation]
          started,    \* executions that passed the worker's check
          moves

placementVars == <<placement, beats, resolve, answers, started, moves>>

\* version 0 stands for no record.
NoPlacement == [worker |-> "none", ns |-> "none", generation |-> 0, version |-> 0]
IdleResolve == [phase |-> "idle", workers |-> << >>, read |-> NoPlacement, retried |-> FALSE]

PlacementInit ==
    /\ placement = NoPlacement
    /\ beats \in [Nodes -> [alive : {TRUE}, free : {TRUE}, ns : Namespaces]]
    /\ resolve = [s \in Schedulers |-> IdleResolve]
    /\ answers = {} /\ started = {} /\ moves = 0

-------------------------------------------------------------------------------
(* updateWorkerHeartbeat: a worker misses its beats (its key expires), comes
   back, possibly configured with another storage namespace, or reports that it
   is full or has room again. *)
Beat(n) ==
    /\ moves < MaxMoves /\ moves' = moves + 1
    /\ \/ beats[n].alive /\ beats' = [beats EXCEPT ![n].alive = FALSE]
       \/ \E free \in BOOLEAN, ns \in Namespaces :
             /\ beats[n].alive => ns = beats[n].ns
             /\ beats' = [beats EXCEPT ![n] = [alive |-> TRUE, free |-> free, ns |-> ns]]
             /\ beats' # beats
    /\ UNCHANGED <<placement, resolve, answers, started>>

\* syncWorkers of the live workers listed now.
SyncWorkers(s) ==
    /\ resolve[s].phase = "idle"
    /\ resolve' = [resolve EXCEPT ![s] =
          [phase |-> "read", retried |-> FALSE, read |-> NoPlacement,
           workers |-> [n \in {m \in Nodes : beats[m].alive} |-> beats[n]]]]
    /\ UNCHANGED <<placement, beats, answers, started, moves>>

\* acquirePlacement: store.get.
ReadPlacement(s) ==
    /\ resolve[s].phase = "read"
    /\ resolve' = [resolve EXCEPT ![s].phase = "select", ![s].read = placement]
    /\ UNCHANGED <<placement, beats, answers, started, moves>>

\* The workers acquirePlacement may choose from: any with room for a new
\* account, those of the account's namespace for a failover.
CandidateWorkers(s) ==
    LET known == resolve[s].workers IN
    {n \in DOMAIN known : /\ known[n].free
                          /\ resolve[s].read.version > 0 => known[n].ns = resolve[s].read.ns}

\* The recorded worker is still listed, in the recorded namespace.
CurrentWorkerAlive(s) ==
    LET r == resolve[s].read  known == resolve[s].workers IN
    r.version > 0 /\ r.worker \in DOMAIN known /\ known[r.worker].ns = r.ns

Return(s, worker, generation) ==
    /\ answers' = answers \cup {[worker |-> worker, generation |-> generation]}
    /\ resolve' = [resolve EXCEPT ![s] = IdleResolve]

\* The placement stands.
KeepPlacement(s) ==
    /\ resolve[s].phase = "select" /\ CurrentWorkerAlive(s)
    /\ Return(s, resolve[s].read.worker, resolve[s].read.generation)
    /\ UNCHANGED <<placement, beats, started, moves>>

\* No candidate: the submission is refused.
RefusePlacement(s) ==
    /\ resolve[s].phase = "select" /\ ~CurrentWorkerAlive(s) /\ CandidateWorkers(s) = {}
    /\ resolve' = [resolve EXCEPT ![s] = IdleResolve]
    /\ UNCHANGED <<placement, beats, answers, started, moves>>

\* Mutant: the store takes the record whatever version it has.
CompareAndSetBlind(expected, worker, ns, generation) ==
    /\ generation <= MaxGeneration
    /\ placement' = [worker |-> worker, ns |-> ns, generation |-> generation,
                     version |-> placement.version + 1]

\* REDIS_CAS_SCRIPT: the version must be the one that was read.
CompareAndSet(expected, worker, ns, generation) ==
    /\ generation <= MaxGeneration
    /\ placement.version = expected
    /\ placement' = [worker |-> worker, ns |-> ns, generation |-> generation,
                     version |-> expected + 1]

\* A first placement (generation 1) or a failover (the next generation, in the
\* namespace of the record).  selectWorker hashes the account id: any candidate.
Place(s) ==
    /\ resolve[s].phase = "select" /\ ~CurrentWorkerAlive(s)
    /\ \E n \in CandidateWorkers(s) :
          LET r == resolve[s].read
              ns == IF r.version = 0 THEN resolve[s].workers[n].ns ELSE r.ns IN
          /\ CompareAndSet(r.version, n, ns, r.generation + 1)
          /\ Return(s, n, r.generation + 1)
    /\ UNCHANGED <<beats, started, moves>>

\* CAS conflict: resolvePlacement tries once more, with the same worker list.
Conflict(s) ==
    /\ resolve[s].phase = "select" /\ ~CurrentWorkerAlive(s) /\ CandidateWorkers(s) # {}
    /\ placement.version # resolve[s].read.version
    /\ resolve' = [resolve EXCEPT ![s] = IF @.retried THEN IdleResolve
                                         ELSE [@ EXCEPT !.phase = "read", !.retried = TRUE]]
    /\ UNCHANGED <<placement, beats, answers, started, moves>>

-------------------------------------------------------------------------------
\* assertCurrentAccountPlacement.
CurrentPlacement(n, task) ==
    /\ placement.worker = n /\ task.worker = n
    /\ placement.ns = beats[n].ns
    /\ placement.generation = task.generation

\* A worker that dequeued a task of the account begins to run it.
BeginAccountTask(n, task) ==
    /\ task.worker = n /\ beats[n].alive
    /\ CurrentPlacement(n, task)
    /\ started' = started \cup {task}
    /\ UNCHANGED <<placement, beats, resolve, answers, moves>>

PlacementNext ==
    \/ \E n \in Nodes : Beat(n) \/ \E task \in answers : BeginAccountTask(n, task)
    \/ \E s \in Schedulers : \/ SyncWorkers(s) \/ ReadPlacement(s) \/ KeepPlacement(s)
                             \/ RefusePlacement(s) \/ Place(s) \/ Conflict(s)

PlacementSpec == PlacementInit /\ [][PlacementNext]_placementVars

-------------------------------------------------------------------------------
\* Whatever two schedulers with different worker lists do at the same time, a
\* generation stands for one worker: no two submissions of an account are sent
\* to different workers under the same generation (acquirePlacement and its
\* compare-and-set).
OneWorkerPerGeneration ==
    \A a, b \in answers : a.generation = b.generation => a.worker = b.worker

\* The login state of an account lives in one storage namespace: no failover
\* ever moves the account out of it, and the record changes only to the next
\* generation.
NamespaceKept ==
    placement' # placement =>
      /\ placement'.generation = placement.generation + 1
      /\ placement.version > 0 => placement'.ns = placement.ns

\* A worker never begins a task of an account after a later placement of it was
\* handed out, even when the account has come back to the same worker meanwhile
\* (the stale-placement check of the daemon).
NoStaleStart ==
    \A t \in started' \ started : \A a \in answers : a.generation <= t.generation

\* The placement of an account is honoured by whoever acts on it: schedulers
\* that race give one worker per generation, failovers stay in the namespace
\* (acquirePlacement), and workers start no task of an older placement
\* (assertCurrentAccountPlacement).
PlacementHonoured == [][OneWorkerPerGeneration' /\ NamespaceKept /\ NoStaleStart]_placementVars
===============================================================================
