---------------------------- MODULE TaskCluster -----------------------------
(***************************************************************************)
(* The task pipeline of one tenant: scheduler calls, worker processes and  *)
(* the Redis queue they share, interleaved at the granularity of Redis     *)
(* scripts, with process crashes, lost answers, lease expiry and record    *)
(* expiry.                                                                 *)
(***************************************************************************)
EXTENDS MasterScheduler

vars == <<tasks, pending, processing, seen, nextLease, exec, mode, pass, call>>

Init == QueueInit /\ WorkerInit /\ SchedulerInit

-----------------------------------------------------------------------------
WorkerNext ==
    /\ \/ \E w \in Workers : Start(w) \/ PollBegin(w) \/ PollEnd(w)
                             \/ Stop(w) \/ Close(w) \/ Crash(w)
       \/ \E w \in Workers, s \in Shards : Dequeue(w, s)
       \/ \E l \in LeaseIds :
             \/ Renew(l) \/ Persist(l) \/ MarkUrlSeen(l)
             \/ RetryStatus(l) \/ Requeue(l)
             \/ \E outcome \in {"success", "error", "stale"} : Finish(l, outcome)
    /\ UNCHANGED call

SchedulerNext ==
    \E c \in Clients :
       \/ \E B \in Batches : \E target \in [B -> Placements] : SubmitBegin(c, B, target)
       \/ \E s \in Shards : SubmitGroup(c, s)
       \/ Compensate(c)
       \/ \E t \in Tasks : \/ CancelRead(c, t) \/ CancelWrite(c, t) \/ RetryWrite(c, t)
                           \/ \E target \in Placements : RetryRead(c, t, target)

TimeNext ==
    /\ \/ \E t \in Tasks : LeaseElapses(t)
       \/ /\ "ttl" \in Events
          /\ \/ \E t \in Tasks : RecordElapses(t)
             \/ \E u \in Urls : UrlElapses(u)
    /\ UNCHANGED <<workerVars, call>>

Next == WorkerNext \/ SchedulerNext \/ TimeNext

Spec == Init /\ [][Next]_vars

TypeOK == QueueTypeOK /\ WorkerTypeOK /\ SchedulerTypeOK

-----------------------------------------------------------------------------
(* Safety.                                                                 *)

\* No task is lost, whatever fails: a task still to be done is either in the
\* pending set, where a dequeue finds it, or in the processing set, where the
\* reclaim loop finds it once its lease runs out, and never in both (it would
\* run twice); a finished or unknown task is in neither.
NoLostTask ==
    \A t \in Tasks :
       /\ tasks[t].state \in Queued => (t \in pending <=> processing[t] = "absent")
       /\ tasks[t].state = "RUNNING" => t \notin pending /\ processing[t] # "absent"
       /\ tasks[t].state \in Terminal \cup {"ABSENT"} =>
             t \notin pending /\ processing[t] = "absent"

\* Automatic retries stay within maxRetries, counting both the retries of a
\* worker and the reclaims of dequeueTask: only the record of a task whose
\* last lease ran out (FAILED, and CANCELLED if it is then cancelled) counts
\* one more.
RetryBudget ==
    /\ \A t \in Tasks :
          \/ tasks[t].retries <= MaxRetries
          \/ /\ tasks[t].retries = MaxRetries + 1
             /\ tasks[t].state \in {"FAILED", "CANCELLED"}
    /\ \A l \in LeaseIds : exec[l].rec.retries <= MaxRetries

\* A COMPLETED record is final: no late worker, reclaim, cancelTask, retryTask
\* or resubmission of its id changes it; it only expires.
CompletedFinal ==
    [][\A t \in Tasks :
          tasks[t].state = "COMPLETED" => tasks'[t] \in {tasks[t], NoTask}]_vars

\* As long as the lease of a running task is live, its record is changed by
\* the execution that holds the lease and by nobody else.
LiveLeaseFenced ==
    [][\A t \in Tasks :
          /\ tasks[t].state = "RUNNING"
          /\ processing[t] = "live"
          /\ tasks'[t] # tasks[t]
          => /\ exec[tasks[t].lease].task = t
             /\ tasks'[t].lease = tasks[t].lease]_vars

\* A task that an operator cancelled is not brought back by the worker that
\* still held it or by a reclaim, only by another scheduler call.
CancelSticks ==
    [][\A t \in Tasks :
          /\ tasks[t].state = "CANCELLED"
          /\ tasks'[t].state \notin {"CANCELLED", "ABSENT"}
          => \E c \in Clients : /\ call[c].op \in {"submit", "retry"}
                                /\ t \in Batch(c)]_vars

\* While no claim expires and no enqueue fails half way, a task that is
\* queued or running keeps its URL claimed, so the URL is not queued twice.
UrlHeld ==
    \A t \in Tasks :
       tasks[t].state \in Queued \cup {"RUNNING"} => seen[Url[t]] # "absent"

\* retryTask: a FAILED or CANCELLED task that nobody touched since it was read
\* is queued again ("retrying", the event it records, says so).
RetryAccepted ==
    \A c \in Clients : call[c].op = "retry" =>
       \A t \in Batch(c) :
          tasks[t].state \in {"FAILED", "CANCELLED"} => EnqueueAccepts(t, call[c].recs[t])

-----------------------------------------------------------------------------
(* The inductive strengthening of the safety properties: who may hold a    *)
(* copy of a record, with which lease, and what the copy then says.        *)

RecordInv ==
    \A t \in Tasks :
       /\ tasks[t].lease < nextLease
       /\ tasks[t].state \in {"RUNNING", "COMPLETED"} => tasks[t].lease # 0

\* The state of an execution's copy fits what the execution does next.
ExecFits(e) ==
    /\ e.phase = "run" => e.rec.state = "RUNNING"
    /\ e.phase \in {"persist", "recoverPersist"} => e.rec.state \in {"COMPLETED", "FAILED"}
    /\ e.phase \in {"mark", "recoverMark"} => e.rec.state = "COMPLETED"
    /\ e.phase \in {"retrying", "requeue", "recoverEnqueue"} => e.rec.state = "RETRYING"

\* The copy of execution l carries lease l, and no other task has that lease.
ExecInv ==
    \A l \in LeaseIds : exec[l].phase # "done" =>
       /\ l < nextLease
       /\ exec[l].rec.lease = l
       /\ ExecFits(exec[l])
       /\ \A t \in Tasks : tasks[t].lease = l => t = exec[l].task

\* The state of a scheduler call's copy fits the call.
CallFits(op, r) ==
    /\ r.retries <= MaxRetries + 1
    /\ op \in {"submit", "compensate"} => r.state = "PENDING" /\ r.lease = 0 /\ r.retries = 0
    /\ op = "cancel" => r.state = "CANCELLED"
    /\ op = "retry" => r.state = "RETRYING" /\ r.retries = 0

\* Only cancelTask and retryTask copy a lease, and not while it is a running
\* one.
CallInv ==
    \A c \in Clients : \A t \in Batch(c) :
       LET r == call[c].recs[t]
       IN  /\ r.lease < nextLease
           /\ CallFits(call[c].op, r)
           /\ r.lease # 0 /\ r.lease = tasks[t].lease => tasks[t].state # "RUNNING"

IInv == TypeOK /\ NoLostTask /\ RetryBudget /\ RecordInv /\ ExecInv /\ CallInv

-----------------------------------------------------------------------------
(* Liveness.                                                               *)

\* The calls of an execution are answered or time out, and so does its fetch or
\* browser work, but not while the worker stops (its sessions are being torn
\* down); processes are restarted by their supervisor; and a worker does not
\* fail forever just when it polls, nor Redis just when it is polled.
Fairness ==
    /\ \A w \in Workers :
          /\ WF_vars(Start(w) /\ UNCHANGED call)
          /\ WF_vars(Close(w) /\ UNCHANGED call)
          /\ WF_vars(PollEnd(w) /\ UNCHANGED call)
          /\ SF_vars(PollBegin(w) /\ UNCHANGED call)
          /\ \A s \in Shards :
                /\ WF_vars(Dequeue(w, s) /\ UNCHANGED call)
                /\ SF_vars(Dequeue(w, s) /\ tasks' # tasks /\ UNCHANGED call)
    /\ \A l \in LeaseIds :
          WF_vars(/\ \/ Persist(l) \/ MarkUrlSeen(l) \/ RetryStatus(l) \/ Requeue(l)
                     \/ \E outcome \in {"success", "error", "stale"} :
                           Finish(l, outcome) /\ mode[exec[l].rec.worker] = "up"
                  /\ UNCHANGED call)
    /\ \A t \in Tasks : WF_vars(LeaseElapses(t) /\ UNCHANGED <<workerVars, call>>)

FairSpec == Spec /\ Fairness

\* Every queued task is eventually finished, one way or the other: crashes,
\* lost answers and failed writes cost retries but never strand a task.
EventuallyFinished ==
    \A t \in Tasks :
       tasks[t].state \in Queued \cup {"RUNNING"} ~> tasks[t].state \in Terminal

\* stop() ends: a worker that is asked to stop closes its connection although
\* the work of its active tasks may hang and its recoveries may fail.
StopTerminates == \A w \in Workers : mode[w] = "stopping" ~> mode[w] = "down"
=============================================================================
