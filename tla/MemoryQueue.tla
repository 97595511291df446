------------------------------ MODULE MemoryQueue ------------------------------
(* The in-process queue of a single-machine installation
   (MemoryQueueAdapter of src/distributed/queue-adapter.ts), with the worker
   daemon and the operator calls of scheduler.ts that use it.  Leases never
   expire here and a crash loses everything, so the questions are about order:
   delayed re-enqueues, cancel and retry calls that read before they write. *)
EXTENDS Integers, FiniteSets, FiniteSetsExt

CONSTANTS Jobs,          \* task ids
          Daemons,       \* worker ids
          TargetOf,      \* job -> daemon it is placed on, or "any"
          JobRetries,    \* maxRetries of every job
          MaxJobLeases   \* bound: dequeues

ASSUME LeasesBounded == MaxJobLeases \in Nat

VARIABLES jobs,       \* this.tasks: job -> [state, lease, retries, worker]
          pendingJobs,\* this.pendingQueue: entries [job, at], at is their order
          work,       \* executions: lease -> [job, phase, retries, worker]
          lastLease,
          operator    \* the operator's call between its read and its write

memoryVars == <<jobs, pendingJobs, work, lastLease, operator>>

NoJob == [state |-> "ABSENT", lease |-> 0, retries |-> 0, worker |-> "none"]
NoWork == [job |-> "none", phase |-> "none", rec |-> NoJob]
NoCall == [op |-> "none", job |-> "none", rec |-> NoJob]
Runnable(state) == state \in {"PENDING", "RETRYING"}

MemoryInit ==
    /\ jobs = [j \in Jobs |-> NoJob]
    /\ pendingJobs = {}
    /\ work = [l \in 1..MaxJobLeases |-> NoWork]
    /\ lastLease = 0 /\ operator = NoCall

-------------------------------------------------------------------------------
(* assertLeaseOwnership, enqueueTask, updateTask *)

\* Mutant: a record without a lease may replace one that has a lease.
OwnsLeaseLoose(j, rec) ==
    jobs[j].lease # 0 /\ rec.lease # 0 => rec.lease = jobs[j].lease /\ rec.worker = jobs[j].worker

OwnsLease(j, rec) ==
    jobs[j].lease # 0 => rec.lease = jobs[j].lease /\ rec.worker = jobs[j].worker

Queued(j) == \E e \in pendingJobs : e.job = j
Without(j) == {e \in pendingJobs : e.job # j}
Pushed(j) == pendingJobs \cup {[job |-> j, at |-> Max({e.at : e \in pendingJobs} \cup {0}) + 1]}

Enqueue(j, rec) ==
    IF OwnsLease(j, rec)
    THEN /\ jobs' = [jobs EXCEPT ![j] = rec]
         /\ pendingJobs' = IF ~Runnable(rec.state) THEN Without(j)
                           ELSE IF Queued(j) THEN pendingJobs
                           ELSE Pushed(j)
    ELSE UNCHANGED <<jobs, pendingJobs>>

\* updateTask leaves the pending queue alone.
Update(j, rec) ==
    /\ jobs' = IF OwnsLease(j, rec) THEN [jobs EXCEPT ![j] = rec] ELSE jobs
    /\ UNCHANGED pendingJobs

SubmitJob(j) ==
    /\ jobs[j].state = "ABSENT"
    /\ Enqueue(j, [NoJob EXCEPT !.state = "PENDING"])
    /\ UNCHANGED <<work, lastLease, operator>>

\* dequeueTask: entries that are no longer runnable are dropped, entries placed
\* on another worker are passed over, the first one left is leased.
Found(d) == {e \in pendingJobs : Runnable(jobs[e.job].state) /\ TargetOf[e.job] \in {"any", d}}

\* What becomes of an entry that is looked at and not leased.
StaysQueued(e) == Runnable(jobs[e.job].state)

DequeueJob(d) ==
    \/ /\ Found(d) = {}
       /\ pendingJobs' = {e \in pendingJobs : StaysQueued(e)} /\ pendingJobs' # pendingJobs
       /\ UNCHANGED <<jobs, work, lastLease, operator>>
    \/ \E first \in Found(d) :
          LET j == first.job
              rec == [jobs[j] EXCEPT !.state = "RUNNING", !.lease = lastLease + 1, !.worker = d] IN
          /\ \A e \in Found(d) : first.at <= e.at
          /\ lastLease < MaxJobLeases /\ lastLease' = lastLease + 1
          /\ pendingJobs' = {e \in pendingJobs \ {first} : e.at > first.at \/ StaysQueued(e)}
          /\ jobs' = [jobs EXCEPT ![j] = rec]
          /\ work' = [work EXCEPT ![lastLease + 1] = [job |-> j, phase |-> "run", rec |-> rec]]
          /\ UNCHANGED operator

-------------------------------------------------------------------------------
(* executeTask and its delayed recovery *)

\* The work ends; a failure with retries left writes RETRYING and waits before
\* it enqueues the task again.
FinishJob(l, success) ==
    /\ work[l].phase = "run"
    /\ LET r == work[l].rec
           again == ~success /\ r.retries < JobRetries
           rec == [r EXCEPT !.state = IF success THEN "COMPLETED"
                                      ELSE IF again THEN "RETRYING" ELSE "FAILED",
                            !.retries = IF again THEN r.retries + 1 ELSE r.retries] IN
       /\ Update(work[l].job, rec)
       /\ work' = [work EXCEPT ![l] = IF again /\ OwnsLease(work[l].job, rec)
                                      THEN [job |-> work[l].job, phase |-> "delay", rec |-> rec]
                                      ELSE NoWork]
    /\ UNCHANGED <<lastLease, operator>>

\* runRecovery after the retry delay (or requeueTask of a stopping worker).
RequeueJob(l) ==
    /\ work[l].phase = "delay"
    /\ Enqueue(work[l].job, [work[l].rec EXCEPT !.state = "PENDING"])
    /\ work' = [work EXCEPT ![l] = NoWork]
    /\ UNCHANGED <<lastLease, operator>>

-------------------------------------------------------------------------------
(* cancelTask and retryTask: a read, then a write of the changed copy *)

OperatorReads(j, op) ==
    /\ operator = NoCall
    /\ \/ op = "cancel" /\ jobs[j].state \notin {"ABSENT", "RUNNING", "CANCELLED"}
       \/ op = "retry" /\ jobs[j].state \in {"FAILED", "CANCELLED"}
    /\ operator' = [op |-> op, job |-> j,
                    rec |-> IF op = "cancel" THEN [jobs[j] EXCEPT !.state = "CANCELLED"]
                            ELSE [jobs[j] EXCEPT !.state = "RETRYING", !.retries = 0]]
    /\ UNCHANGED <<jobs, pendingJobs, work, lastLease>>

OperatorWrites ==
    /\ operator.op # "none"
    /\ IF operator.op = "cancel" THEN Update(operator.job, operator.rec)
                                 ELSE Enqueue(operator.job, operator.rec)
    /\ operator' = NoCall
    /\ UNCHANGED <<work, lastLease>>

MemoryNext ==
    \/ \E j \in Jobs : SubmitJob(j) \/ \E op \in {"cancel", "retry"} : OperatorReads(j, op)
    \/ \E d \in Daemons : DequeueJob(d)
    \/ \E l \in 1..MaxJobLeases : RequeueJob(l) \/ \E ok \in BOOLEAN : FinishJob(l, ok)
    \/ OperatorWrites

MemorySpec == MemoryInit /\ [][MemoryNext]_memoryVars

-------------------------------------------------------------------------------
\* However re-enqueues, cancellations and operator retries interleave, a task
\* waits at most once, a waiting task can be found, and a task that somebody
\* runs is run by the holder of its lease only: duplicate queue entries never
\* make it execute twice (the comment in enqueueTask).
RunsOnce ==
    /\ \A e, o \in pendingJobs : e.job = o.job => e = o
    /\ \A l \in 1..MaxJobLeases : work[l].phase = "run" =>
          /\ jobs[work[l].job].lease = l
          /\ jobs[work[l].job].state = "RUNNING"

\* No task is left behind: one that is to be run is in the queue, or its
\* execution still holds the delayed re-enqueue that will put it there.
RunnableFound ==
    \A j \in Jobs : Runnable(jobs[j].state) =>
       \/ Queued(j)
       \/ \E l \in 1..MaxJobLeases : work[l].job = j /\ work[l].phase = "delay" /\ jobs[j].lease = l

\* The in-process queue runs what it holds, and runs it once.
QueueServes == RunsOnce /\ RunnableFound
===============================================================================
