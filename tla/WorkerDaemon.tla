---------------------------- MODULE WorkerDaemon ----------------------------
(***************************************************************************)
(* The worker processes of src/distributed/worker-daemon.ts on top of the  *)
(* Redis queue.  An execution of executeTask, with the recovery work it    *)
(* may leave behind, is identified by the lease the worker was handed:     *)
(* exec[l] holds the worker's private copy of the record and the call it   *)
(* will make next.                                                         *)
(*                                                                         *)
(* A call to Redis has three outcomes: it is applied and answered, it is   *)
(* applied but the answer is lost, or it is not applied and fails.  The    *)
(* worker cannot tell the last two apart.                                  *)
(***************************************************************************)
EXTENDS RedisQueue

CONSTANTS Capacity,     \* `capacity' of a worker: tasks it runs at a time
          Events        \* what the environment may do: see WorkerAssumption

ASSUME WorkerAssumption ==
    /\ Capacity \in Nat \ {0}
    \* Processes stop or crash, answers or whole calls are lost, keys expire.
    /\ Events \subseteq {"stop", "crash", "lost", "undelivered", "ttl"}

VARIABLES exec,         \* executions and recoveries, by lease id
          mode,         \* life cycle of a worker process
          pass          \* partitions left in the current pass of pollLoop

workerVars == <<exec, mode, pass>>

\* The next call of an execution.  Until executeTask returns it counts in
\* activeTasksCount; the recovery phases are in retryTimers, recoveryPromises
\* or lateRecoveryWork.
ActivePhases   == {"run", "persist", "mark", "retrying", "requeue"}
RecoveryPhases == {"recoverPersist", "recoverMark", "recoverEnqueue"}

LeaseIds == 1 .. MaxLease
NoExec == [phase |-> "done", task |-> "none", rec |-> NoTask]

Exec == {NoExec} \cup [phase : ActivePhases \cup RecoveryPhases,
                       task : Tasks, rec : Record]

WorkerTypeOK ==
    /\ exec \in [LeaseIds -> Exec]
    /\ mode \in [Workers -> {"down", "up", "stopping"}]
    /\ pass \in [Workers -> SUBSET Shards]

WorkerInit ==
    /\ exec = [l \in LeaseIds |-> NoExec]
    /\ mode = [w \in Workers |-> "down"]
    /\ pass = [w \in Workers |-> {}]

Executions(w, phases) ==
    {l \in LeaseIds : exec[l].phase \in phases /\ exec[l].rec.worker = w}

ActiveTasksCount(w) == Cardinality(Executions(w, ActivePhases))

\* The outcome of a call as the two sides see it: whether the script runs,
\* and whether the caller gets its answer.
Deliveries ==
    {[applied |-> TRUE, answered |-> TRUE]}
    \cup (IF "lost" \in Events
          THEN {[applied |-> TRUE, answered |-> FALSE]} ELSE {})
    \cup (IF "undelivered" \in Events
          THEN {[applied |-> FALSE, answered |-> FALSE]} ELSE {})

-----------------------------------------------------------------------------
(* start, and the pollLoop.                                                *)

\* A worker process starts; WORKER_ID is configured, so a restarted process
\* has the id of its predecessor and none of its memory.
Start(w) ==
    /\ mode[w] = "down"
    /\ mode' = [mode EXCEPT ![w] = "up"]
    /\ UNCHANGED <<queueVars, exec, pass>>

PollBegin(w) ==
    /\ mode[w] = "up"
    /\ pass[w] = {}
    /\ ActiveTasksCount(w) < Capacity
    /\ pass' = [pass EXCEPT ![w] = Shards]
    /\ UNCHANGED <<queueVars, exec, mode>>

\* The for loop ends early once the worker is at its capacity.
PollEnd(w) ==
    /\ pass[w] # {}
    /\ ActiveTasksCount(w) >= Capacity
    /\ pass' = [pass EXCEPT ![w] = {}]
    /\ UNCHANGED <<queueVars, exec, mode>>

\* One iteration: dequeueTask on one partition.  The loop does not look at
\* isRunning, so a pass begun before stop() goes on claiming tasks.
Dequeue(w, s) ==
    /\ s \in pass[w]
    /\ ActiveTasksCount(w) < Capacity
    /\ pass' = [pass EXCEPT ![w] = @ \ {s}]
    /\ UNCHANGED mode
    /\ \E d \in Deliveries :
          IF ~d.applied
          THEN UNCHANGED <<queueVars, exec>>
          ELSE \/ /\ Selected(w, s) = {}
                  /\ DequeueWrites(w, s, {})
                  /\ UNCHANGED <<nextLease, exec>>
               \/ \E t \in Selected(w, s) :
                  /\ nextLease <= MaxLease
                  /\ DequeueWrites(w, s, {t})
                  /\ nextLease' = nextLease + 1
                  /\ exec' = IF d.answered
                             THEN [exec EXCEPT ![nextLease] =
                                     [phase |-> "run", task |-> t, rec |-> tasks'[t]]]
                             ELSE exec

-----------------------------------------------------------------------------
(* executeTask.                                                            *)

\* The renewal timer of an execution; a refused renewal only aborts the work.
Renew(l) ==
    /\ exec[l].phase \in ActivePhases
    /\ RenewAccepts(exec[l].task, exec[l].rec.worker, l)
    /\ RenewWrites(exec[l].task)
    /\ UNCHANGED workerVars

\* The fetch or browser work ends.  A stale account placement (possible only
\* for a task placed on a worker) is never retried.
Finish(l, outcome) ==
    /\ exec[l].phase = "run"
    /\ outcome = "stale" => exec[l].rec.target # NoWorker
    /\ LET r == exec[l].rec
           again == outcome = "error" /\ r.retries < MaxRetries
           state == IF outcome = "success" THEN "COMPLETED"
                    ELSE IF again THEN "RETRYING" ELSE "FAILED"
       IN  exec' = [exec EXCEPT ![l] =
                      [phase |-> IF again THEN "retrying" ELSE "persist",
                       task |-> exec[l].task,
                       rec |-> [r EXCEPT !.state = state,
                                   !.retries = IF again THEN r.retries + 1 ELSE r.retries]]]
    /\ UNCHANGED <<queueVars, mode, pass>>

\* A call of execution l ends.  Without an answer the execution moves to
\* `onError'; a refusal (TaskLeaseLostError) drops it; else it moves on.
Settle(l, answered, accepted, onSuccess, onError) ==
    exec' = [exec EXCEPT ![l] =
                LET phase == IF ~answered THEN onError
                             ELSE IF ~accepted THEN "done" ELSE onSuccess
                IN  IF phase = "done" THEN NoExec ELSE [@ EXCEPT !.phase = phase]]

\* Where failed recovery work goes: back to the timers while the worker runs,
\* into the errors stop() throws once it is stopping.
Reschedule(l, phase) == IF mode[exec[l].rec.worker] = "up" THEN phase ELSE "done"

\* persistTask of a terminal record, by executeTask or by its recovery.
Persist(l) ==
    /\ exec[l].phase \in {"persist", "recoverPersist"}
    /\ LET t == exec[l].task
           r == exec[l].rec
           first == exec[l].phase = "persist"
           accepted == UpdateAccepts(t, r)
       IN  \E d \in Deliveries :
             /\ IF d.applied /\ accepted THEN UpdateWrites(t, r)
                                         ELSE UNCHANGED queueVars
             /\ Settle(l, d.answered, accepted,
                       IF r.state # "COMPLETED" THEN "done"
                       ELSE IF first THEN "mark" ELSE "recoverMark",
                       IF first THEN "recoverPersist"
                       ELSE Reschedule(l, "recoverPersist"))
    /\ UNCHANGED <<mode, pass>>

\* markUrlSeen, the second half of persistCompletedTask; if it fails the
\* recovery starts again from the first half.
MarkUrlSeen(l) ==
    /\ exec[l].phase \in {"mark", "recoverMark"}
    /\ \E d \in Deliveries :
          /\ IF d.applied THEN SeenWrites({Url[exec[l].task]}, "marked")
                          ELSE UNCHANGED queueVars
          /\ Settle(l, d.answered, TRUE, "done",
                    IF exec[l].phase = "mark" THEN "recoverPersist"
                    ELSE Reschedule(l, "recoverPersist"))
    /\ UNCHANGED <<mode, pass>>

\* The status write of a task to be retried; its failure is ignored.
RetryStatus(l) ==
    /\ exec[l].phase = "retrying"
    /\ LET t == exec[l].task
           r == exec[l].rec
           accepted == UpdateAccepts(t, r)
           next == IF mode[r.worker] = "up" THEN "recoverEnqueue" ELSE "requeue"
       IN  \E d \in Deliveries :
             /\ IF d.applied /\ accepted THEN UpdateWrites(t, r)
                                         ELSE UNCHANGED queueVars
             /\ Settle(l, d.answered, accepted, next, next)
    /\ UNCHANGED <<mode, pass>>

\* enqueueTask with the state set to PENDING: requeueTask of a stopping
\* worker, or the recovery after the retry delay.
Requeue(l) ==
    /\ exec[l].phase \in {"requeue", "recoverEnqueue"}
    /\ LET t == exec[l].task
           r == [exec[l].rec EXCEPT !.state = "PENDING"]
           accepted == EnqueueAccepts(t, r)
       IN  \E d \in Deliveries :
             /\ IF d.applied /\ accepted THEN EnqueueWrites([u \in {t} |-> r])
                                         ELSE UNCHANGED queueVars
             /\ Settle(l, d.answered, accepted, "done",
                       IF exec[l].phase = "requeue" THEN "recoverEnqueue"
                       ELSE Reschedule(l, "recoverEnqueue"))
    /\ UNCHANGED <<mode, pass>>

-----------------------------------------------------------------------------
(* stop, and the process going away.                                       *)

Stop(w) ==
    /\ "stop" \in Events
    /\ mode[w] = "up"
    /\ mode' = [mode EXCEPT ![w] = "stopping"]
    /\ UNCHANGED <<queueVars, exec, pass>>

\* The memory of a process is gone: executions, timers, the poll pass.
Vanish(w) ==
    /\ mode' = [mode EXCEPT ![w] = "down"]
    /\ pass' = [pass EXCEPT ![w] = {}]
    /\ exec' = [l \in LeaseIds |->
                   IF exec[l].rec.worker = w THEN NoExec ELSE exec[l]]
    /\ UNCHANGED queueVars

\* Mutant: stop waits for the active tasks without a limit.
CloseWaitsForTasks(w) ==
    /\ mode[w] = "stopping"
    /\ Executions(w, ActivePhases \cup RecoveryPhases) = {}
    /\ Vanish(w)

\* stopInternal ends.  It has waited for the recoveries, but for the active
\* tasks only so long; those still running can no longer reach Redis.
Close(w) ==
    /\ mode[w] = "stopping"
    /\ Executions(w, RecoveryPhases) = {}
    /\ Vanish(w)

Crash(w) ==
    /\ "crash" \in Events
    /\ mode[w] # "down"
    /\ Vanish(w)
=============================================================================
