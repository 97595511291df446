-------------------------- MODULE MasterScheduler ---------------------------
(***************************************************************************)
(* The calls of src/distributed/scheduler.ts that change the queue:        *)
(* submitTask / submitBatch, cancelTask and retryTask.  Several calls are  *)
(* in flight at a time (API, MCP and console requests), each a sequence of *)
(* separate Redis scripts; call[c] is what the call of client c does next. *)
(***************************************************************************)
EXTENDS WorkerDaemon

CONSTANTS Clients,      \* callers of the scheduler
          Batches,      \* the sets of task ids a caller may submit
          Placements,   \* what resolvePlacement may answer
          Operations    \* which operator calls may be made: "cancel", "retry"

ASSUME SchedulerAssumption ==
    /\ Batches \subseteq SUBSET Tasks
    /\ Placements \subseteq MaybeWorker
    /\ Operations \subseteq {"cancel", "retry"}

VARIABLE call

\* recs: the records the call will write (NoTask for the other task ids);
\* left: the shard groups of enqueueBatch that it has not sent yet.
Call == [op : {"idle", "submit", "compensate", "cancel", "retry"},
         recs : [Tasks -> Record],
         left : SUBSET Shards]

Idle == [op |-> "idle", recs |-> [t \in Tasks |-> NoTask], left |-> {}]

SchedulerTypeOK == call \in [Clients -> Call]

SchedulerInit == call = [c \in Clients |-> Idle]

\* The tasks the call of client c is about.
Batch(c) == {t \in Tasks : call[c].recs[t].state # "ABSENT"}

\* The records of a call about one task.
Only(t, r) == [u \in Tasks |-> IF u = t THEN r ELSE NoTask]

BatchUrls(B) == {Url[t] : t \in B}
Becomes(c, next) == call' = [call EXCEPT ![c] = next]

-----------------------------------------------------------------------------
(* submitTask and submitBatch.                                             *)

\* The checks, the placements and claimUrls.  A call that fails here leaves
\* nothing behind, except a claim whose answer was lost.
SubmitBegin(c, B, target) ==
    /\ call[c].op = "idle"
    /\ B # {}
    /\ \A t, u \in B : Url[t] = Url[u] => t = u
    /\ ClaimAccepts(BatchUrls(B))
    /\ SeenWrites(BatchUrls(B), "claimed")
    /\ \E d \in Deliveries :
          /\ d.applied
          /\ Becomes(c, IF d.answered
                        THEN [op |-> "submit",
                              recs |-> [t \in Tasks |->
                                IF t \in B THEN [NoTask EXCEPT !.state = "PENDING",
                                                              !.target = target[t]]
                                           ELSE NoTask],
                              left |-> {Shard[t] : t \in B}]
                        ELSE Idle)
    /\ UNCHANGED workerVars

\* enqueueUnownedBatch of one shard's group.  A refused or failed group stops
\* the loop, whatever the groups before it did.
SubmitGroup(c, s) ==
    /\ call[c].op = "submit"
    /\ s \in call[c].left
    /\ LET group == {t \in Batch(c) : Shard[t] = s}
           recs == [t \in group |-> call[c].recs[t]]
           accepted == \A t \in group : EnqueueAccepts(t, recs[t])
           rest == call[c].left \ {s}
       IN  \E d \in Deliveries :
             /\ IF d.applied /\ accepted THEN EnqueueWrites(recs)
                                         ELSE UNCHANGED queueVars
             /\ Becomes(c, IF ~(d.answered /\ accepted)
                           THEN [call[c] EXCEPT !.op = "compensate", !.left = {}]
                           ELSE IF rest = {} THEN Idle
                           ELSE [call[c] EXCEPT !.left = rest])
    /\ UNCHANGED workerVars

\* compensateUrlClaim: release every URL of the batch, then rethrow.
Compensate(c) ==
    /\ call[c].op = "compensate"
    /\ \E d \in Deliveries :
          IF d.applied THEN SeenWrites(BatchUrls(Batch(c)), "absent")
                       ELSE UNCHANGED queueVars
    /\ Becomes(c, Idle)
    /\ UNCHANGED workerVars

-----------------------------------------------------------------------------
(* cancelTask and retryTask: getTask, then a write of the changed copy.    *)

CancelRead(c, t) ==
    /\ "cancel" \in Operations
    /\ call[c].op = "idle"
    /\ tasks[t].state \notin {"ABSENT", "RUNNING", "CANCELLED"}
    /\ Becomes(c, [op |-> "cancel", left |-> {},
                   recs |-> Only(t, [tasks[t] EXCEPT !.state = "CANCELLED"])])
    /\ UNCHANGED <<queueVars, workerVars>>

CancelWrite(c, t) ==
    /\ call[c].op = "cancel"
    /\ t \in Batch(c)
    /\ \E d \in Deliveries :
          IF d.applied /\ UpdateAccepts(t, call[c].recs[t])
          THEN UpdateWrites(t, call[c].recs[t]) ELSE UNCHANGED queueVars
    /\ Becomes(c, Idle)
    /\ UNCHANGED workerVars

RetryRead(c, t, target) ==
    /\ "retry" \in Operations
    /\ call[c].op = "idle"
    /\ tasks[t].state \in {"FAILED", "CANCELLED"}
    /\ Becomes(c, [op |-> "retry", left |-> {},
                   recs |-> Only(t, [tasks[t] EXCEPT !.state = "RETRYING",
                                        !.retries = 0, !.target = target])])
    /\ UNCHANGED <<queueVars, workerVars>>

RetryWrite(c, t) ==
    /\ call[c].op = "retry"
    /\ t \in Batch(c)
    /\ \E d \in Deliveries :
          IF d.applied /\ EnqueueAccepts(t, call[c].recs[t])
          THEN EnqueueWrites([u \in {t} |-> call[c].recs[t]]) ELSE UNCHANGED queueVars
    /\ Becomes(c, Idle)
    /\ UNCHANGED workerVars
=============================================================================
